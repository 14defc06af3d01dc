------------------------------- MODULE FileSet -------------------------------
(***************************************************************************)
(* Writing a file set (writer/domain.rs, seg_writer.rs, bt_writer.rs,      *)
(* kvei_writer.rs): words are buffered in a temporary file, from which the *)
(* .kv is written, from which the .bt and the .kvei are built, each file   *)
(* in place under its final name.  Any write may fail, a failed add leaves *)
(* the writer usable, the process may stop at any point, and a path may be *)
(* written again.                                                          *)
(*                                                                         *)
(* A file carries the number of the writer that wrote it.  Of a value only *)
(* matters which key it came with.  Refused calls, which change nothing,   *)
(* are left out.  Removing a file succeeds.  No reader has the files open  *)
(* while they are written (util.rs:186).                                   *)
(***************************************************************************)
EXTENDS Integers, Sequences

CONSTANTS
  Key,         \* keys, of which only the order matters
  NoKey,       \* no key added yet
  Absent,      \* no such file
  MaxWriters,  \* bounds the behaviours, not in the code
  MaxFailures  \* likewise: failed writes and stops of the process

Parts == {"key", "value"}

\* A word in a file, or the torn beginning of one.
Words == {<<k, p>> : k \in Key, p \in Parts}
Torn == <<NoKey, "torn">>

ASSUME KeyAssumption == Key \subseteq Int /\ NoKey \notin Int
ASSUME AbsentAssumption ==
  /\ Absent \notin Seq(Words \cup {Torn})
  /\ Absent \notin [writer : Int, words : Seq(Words \cup {Torn}), count : Nat]
  /\ Absent \notin [writer : Int, whole : BOOLEAN]
ASSUME BoundsAssumption == MaxWriters \in Nat /\ MaxFailures \in Nat

VARIABLES
  tmp,         \* the temporary file: its words, Torn where a write failed; or Absent
  kv,          \* the .kv: its writer, its words, the words it says it has; or Absent
  bt,          \* the .bt: its writer, and whether it is complete; or Absent
  kvei,        \* the .kvei, likewise
  pc,          \* what the writer of this path does next; "none" if there is none
  writer,      \* the number of the writer, the latest one if there is none
  salted,      \* its option salt
  lastKey,     \* DomainWriter.last_key
  keyCount,    \* DomainWriter.key_count
  wordsCount,  \* SegWriter.words_count
  added,       \* the keys whose add returned Ok, in order
  addFailed,   \* an add of this writer has failed
  result,      \* what became of the writer: "open", "dropped", "ok", "failed", "killed"
  saltedOnes,  \* the writers that were given a salt
  upset,       \* some writer since the last Ok failed in finish or was killed
  failures     \* failures still allowed

files == <<tmp, kv, bt, kvei>>
options == <<writer, salted, saltedOnes>>
counters == <<lastKey, keyCount, wordsCount, added>>
vars == <<files, pc, options, counters, addFailed, result, upset, failures>>

\* The words of a list of keys: each key, then its value.
PairWords(keys) ==
  [i \in 1 .. 2 * Len(keys) |-> <<keys[(i + 1) \div 2], IF i % 2 = 1 THEN "key" ELSE "value">>]

Init ==
  /\ tmp = Absent /\ kv = Absent /\ bt = Absent /\ kvei = Absent
  /\ pc = "none"
  /\ writer = 0
  /\ salted = FALSE
  /\ lastKey = NoKey /\ keyCount = 0 /\ wordsCount = 0 /\ added = <<>>
  /\ addFailed = FALSE
  /\ result = "dropped"
  /\ saltedOnes = {}
  /\ upset = FALSE
  /\ failures = MaxFailures

\* DomainWriter::create: the temporary file is made, or emptied if a failed
\* writer has left one.
Create(salt) ==
  /\ pc = "none" /\ writer < MaxWriters
  /\ writer' = writer + 1
  /\ salted' = salt
  /\ saltedOnes' = IF salt THEN saltedOnes \cup {writer'} ELSE saltedOnes
  /\ tmp' = <<>>
  /\ lastKey' = NoKey /\ keyCount' = 0 /\ wordsCount' = 0 /\ added' = <<>>
  /\ addFailed' = FALSE
  /\ result' = "open"
  /\ pc' = "add"
  /\ UNCHANGED <<kv, bt, kvei, upset, failures>>

\* The check at the head of add.
InOrder(k) == IF lastKey = NoKey THEN TRUE ELSE k > lastKey

\* add_word counts the word before it writes it.  A write that fails has written
\* nothing, or the length and perhaps part of the word.
WordWritten(w) == wordsCount' = wordsCount + 1 /\ tmp' = Append(tmp, w)

WordFails ==
  /\ failures > 0
  /\ failures' = failures - 1
  /\ wordsCount' = wordsCount + 1
  /\ \E torn \in BOOLEAN : tmp' = IF torn THEN Append(tmp, Torn) ELSE tmp

\* add: the key's word,
AddKey(k) ==
  /\ pc = "add" /\ InOrder(k)
  /\ \/ /\ WordWritten(<<k, "key">>)
        /\ pc' = "value"
        /\ UNCHANGED <<addFailed, failures>>
     \/ /\ WordFails
        /\ addFailed' = TRUE
        /\ UNCHANGED pc
  /\ UNCHANGED <<kv, bt, kvei, options, lastKey, keyCount, added, result, upset>>

\* the value's word, and only then the key counts as the last one.  The add that
\* fails here leaves the key's word behind.
AddValue(k) ==
  /\ pc = "value" /\ tmp[Len(tmp)] = <<k, "key">>
  /\ \/ /\ WordWritten(<<k, "value">>)
        /\ lastKey' = k /\ keyCount' = keyCount + 1 /\ added' = Append(added, k)
        /\ UNCHANGED <<addFailed, failures>>
     \/ /\ WordFails
        /\ addFailed' = TRUE
        /\ UNCHANGED <<lastKey, keyCount, added>>
  /\ pc' = "add"
  /\ UNCHANGED <<kv, bt, kvei, options, result, upset>>

\* Mutant: the temporary file is only removed by finish.
DropKeepsTmp ==
  /\ pc = "add"
  /\ pc' = "none"
  /\ result' = "dropped"
  /\ UNCHANGED <<files, options, counters, addFailed, upset, failures>>

\* The writer goes out of scope without finish.
DropWriter ==
  /\ pc = "add"
  /\ tmp' = Absent
  /\ pc' = "none"
  /\ result' = "dropped"
  /\ UNCHANGED <<kv, bt, kvei, options, counters, addFailed, upset, failures>>

\* An error return of finish, or a panic: a write fails, or the words are no longer
\* what the writer takes them for.  The writer is consumed, and since finished is
\* set first, its drop leaves the temporary file alone.
Fail ==
  /\ IF addFailed THEN failures' = failures ELSE failures > 0 /\ failures' = failures - 1
  /\ pc' = "none"
  /\ result' = "failed"
  /\ upset' = TRUE

Go(next) == pc' = next /\ UNCHANGED <<result, upset, failures>>

\* finish: the buffered words are flushed,
Flush ==
  /\ pc = "add"
  /\ Go("create_kv") \/ Fail
  /\ UNCHANGED <<files, options, counters, addFailed>>

\* the .kv is created, emptying one that is there,
CreateKv ==
  /\ pc = "create_kv"
  /\ \/ /\ kv' = [writer |-> writer, words |-> <<>>, count |-> 0]
        /\ Go("write_kv")
     \/ /\ Fail
        /\ UNCHANGED kv
  /\ UNCHANGED <<tmp, bt, kvei, options, counters, addFailed>>

HeaderCount == wordsCount

\* Mutant: an error in the copy is dropped.
WriteKvUnchecked ==
  /\ pc = "write_kv"
  /\ \E n \in 0 .. Len(tmp) :
       kv' = [kv EXCEPT !.words = SubSeq(tmp, 1, n), !.count = HeaderCount]
  /\ Go("remove_tmp")
  /\ UNCHANGED <<tmp, bt, kvei, options, counters, addFailed>>

\* and the header and the words are copied into it.  From a torn word on, the
\* words read back are not those that were added: the copy fails, or panics, or
\* goes through.
WriteKv ==
  /\ pc = "write_kv"
  /\ \/ /\ kv' = [kv EXCEPT !.words = tmp, !.count = HeaderCount]
        /\ Go("remove_tmp")
     \/ /\ \E n \in 0 .. Len(tmp) :
             kv' = [kv EXCEPT !.words = SubSeq(tmp, 1, n), !.count = HeaderCount]
        /\ Fail
  /\ UNCHANGED <<tmp, bt, kvei, options, counters, addFailed>>

RemoveTmp ==
  /\ pc = "remove_tmp"
  /\ tmp' = Absent
  /\ Go("open_kv")
  /\ UNCHANGED <<kv, bt, kvei, options, counters, addFailed>>

\* The .kv is opened to build the others from it.
OpenKv ==
  /\ pc = "open_kv"
  /\ Go("create_bt") \/ Fail
  /\ UNCHANGED <<files, options, counters, addFailed>>

\* Mutant: an error from the index writer is dropped.
CreateBtUnchecked ==
  /\ pc = "create_bt"
  /\ \/ /\ bt' = [writer |-> writer, whole |-> kv.count \div 2 = 0]
        /\ Go("write_bt")
     \/ Go(IF salted THEN "create_kvei" ELSE "return") /\ UNCHANGED bt
  /\ UNCHANGED <<tmp, kv, kvei, options, counters, addFailed>>

\* build_bt_from_seg: the file is created empty, which is complete if there are
\* no keys; it fails before that on a key that does not fit a di-node.
CreateBt ==
  /\ pc = "create_bt"
  /\ \/ /\ bt' = [writer |-> writer, whole |-> kv.count \div 2 = 0]
        /\ Go("write_bt")
     \/ /\ Fail
        /\ UNCHANGED bt
  /\ UNCHANGED <<tmp, kv, kvei, options, counters, addFailed>>

\* Mutant: the filter is left to whoever enables it.
NeverFiltered == "return"

\* What follows the index: the filter, if the options hold a salt.
AfterBt == IF salted THEN "create_kvei" ELSE "return"

WriteBt ==
  /\ pc = "write_bt"
  /\ \/ /\ bt' = [bt EXCEPT !.whole = TRUE]
        /\ Go(AfterBt)
     \/ /\ ~bt.whole
        /\ Fail
        /\ UNCHANGED bt
  /\ UNCHANGED <<tmp, kv, kvei, options, counters, addFailed>>

\* KveiBuilder::finish, the same way; a filter of less than two keys is empty.
CreateKvei ==
  /\ pc = "create_kvei"
  /\ \/ /\ kvei' = [writer |-> writer, whole |-> kv.count \div 2 < 2]
        /\ Go("write_kvei")
     \/ /\ Fail
        /\ UNCHANGED kvei
  /\ UNCHANGED <<tmp, kv, bt, options, counters, addFailed>>

WriteKvei ==
  /\ pc = "write_kvei"
  /\ \/ /\ kvei' = [kvei EXCEPT !.whole = TRUE]
        /\ Go("return")
     \/ /\ ~kvei.whole
        /\ Fail
        /\ UNCHANGED kvei
  /\ UNCHANGED <<tmp, kv, bt, options, counters, addFailed>>

ReturnOk ==
  /\ pc = "return"
  /\ pc' = "none"
  /\ result' = "ok"
  /\ upset' = FALSE
  /\ UNCHANGED <<files, options, counters, addFailed, failures>>

\* The process stops.  What was written stays.
Kill ==
  /\ pc # "none" /\ failures > 0
  /\ failures' = failures - 1
  /\ pc' = "none"
  /\ result' = "killed"
  /\ upset' = TRUE
  /\ UNCHANGED <<files, options, counters, addFailed>>

Next ==
  \/ \E salt \in BOOLEAN : Create(salt)
  \/ \E k \in Key : AddKey(k) \/ AddValue(k)
  \/ DropWriter \/ Flush \/ CreateKv \/ WriteKv \/ RemoveTmp \/ OpenKv
  \/ CreateBt \/ WriteBt \/ CreateKvei \/ WriteKvei \/ ReturnOk
  \/ Kill

Spec == Init /\ [][Next]_vars

-----------------------------------------------------------------------------

Indexes == {Absent} \cup [writer : 1 .. writer, whole : BOOLEAN]

FileTypes ==
  /\ tmp \in {Absent} \cup Seq(Words \cup {Torn})
  /\ kv \in {Absent} \cup [writer : 1 .. writer, words : Seq(Words \cup {Torn}), count : Nat]
  /\ bt \in Indexes /\ kvei \in Indexes

WriterTypes ==
  /\ pc \in {"none", "add", "value", "create_kv", "write_kv", "remove_tmp", "open_kv",
             "create_bt", "write_bt", "create_kvei", "write_kvei", "return"}
  /\ writer \in 0 .. MaxWriters
  /\ saltedOnes \subseteq 1 .. writer
  /\ lastKey \in Key \cup {NoKey}
  /\ keyCount \in Nat /\ wordsCount \in Nat
  /\ added \in Seq(Key)
  /\ result \in {"open", "dropped", "ok", "failed", "killed"}
  /\ failures \in 0 .. MaxFailures

FlagTypes == salted \in BOOLEAN /\ addFailed \in BOOLEAN /\ upset \in BOOLEAN

TypeOK == FileTypes /\ WriterTypes /\ FlagTypes

\* What finish reports Ok for is a complete file set of this writer, and its .kv
\* holds what was added, as long as no add has failed: key, value, key, value, in
\* strictly increasing key order, and as many words as its header says.
OkMeansComplete ==
  result = "ok" =>
    /\ kv # Absent /\ kv.writer = writer
    /\ bt = [writer |-> writer, whole |-> TRUE]
    /\ salted => kvei = [writer |-> writer, whole |-> TRUE]
    /\ ~addFailed => kv.words = PairWords(added) /\ kv.count = Len(kv.words)

\* At every moment, also after a crash or an error in the middle of finish: no index
\* is newer than the data it lies beside, no filter newer than the index, and an index
\* of the latest writer lies beside all of that writer's data, a filter beside a
\* complete index.
BuiltInOrder ==
  /\ bt # Absent => kv # Absent /\ bt.writer <= kv.writer
  /\ kvei # Absent =>
       bt # Absent /\ kvei.writer <= bt.writer /\ (kvei.writer = bt.writer => bt.whole)
  /\ bt # Absent /\ bt.writer = writer /\ ~addFailed =>
       kv.words = PairWords(added) /\ kv.count = Len(kv.words)

\* An index or a filter that does not belong to the data next to it, or is
\* incomplete (an empty .bt hides every key), is there only while a writer works
\* on the path or after one failed or was killed, and then it is the older part of
\* what the writer replaces or the last thing it was writing; a writer without a
\* salt leaves the filter of an earlier one, which is the one exception.
NoStaleSiblings ==
  /\ BuiltInOrder
  /\ pc = "none" /\ ~upset =>
       /\ kv # Absent => bt # Absent /\ bt.whole /\ bt.writer = kv.writer
       /\ kvei # Absent /\ kv.writer \in saltedOnes => kvei.whole /\ kvei.writer = kv.writer

\* The temporary file is there while the words are collected, and otherwise only
\* after the latest writer itself failed in finish or was killed: whatever an
\* earlier one left, the next one that is dropped or succeeds removes
\* (seg_writer.rs:168-175).
TmpCleanedUp ==
  pc \in {"none", "open_kv", "return"} /\ tmp # Absent => result \in {"failed", "killed"}
=============================================================================
