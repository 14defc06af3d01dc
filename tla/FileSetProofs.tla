---------------------------- MODULE FileSetProofs ----------------------------
(***************************************************************************)
(* Proofs about FileSet, for every set of keys and any number of writers   *)
(* and failures.                                                           *)
(***************************************************************************)
EXTENDS FileSet, TLAPS

(***************************************************************************)
(* The inductive invariant, in named parts.                                *)
(***************************************************************************)
\* Where the words come from the temporary file, and where from the .kv.
Collecting == {"add", "value", "create_kv", "write_kv", "remove_tmp"}
Indexing == {"open_kv", "create_bt", "write_bt", "create_kvei", "write_kvei", "return"}

\* A writer at work has no result yet, and is known by whether it has a salt.
RunOK ==
  pc # "none" => result = "open" /\ writer > 0 /\ (salted <=> writer \in saltedOnes)

\* The temporary file holds what was added, and while a pair is added its key.
TmpOK ==
  /\ pc \in Collecting => tmp # Absent
  /\ pc \in {"add", "create_kv", "write_kv"} /\ ~addFailed =>
       tmp = PairWords(added) /\ wordsCount = Len(tmp)
  /\ pc = "value" => tmp # <<>>
  /\ pc = "value" /\ ~addFailed =>
       /\ wordsCount = Len(tmp)
       /\ \E k \in Key : tmp = Append(PairWords(added), <<k, "key">>)
  /\ pc \in Indexing \/ (pc = "none" /\ result \notin {"failed", "killed"}) => tmp = Absent

\* The .kv belongs to the writer from its creation on, and is complete once written;
\* without one there never was a filter.
KvOK ==
  /\ kv = Absent => kvei = Absent
  /\ pc \in {"write_kv", "remove_tmp"} \cup Indexing \/ result = "ok" =>
       kv # Absent /\ kv.writer = writer
  /\ pc \in {"remove_tmp"} \cup Indexing \/ result = "ok" =>
       (~addFailed => kv.words = PairWords(added) /\ kv.count = Len(kv.words))

\* So do the .bt and the .kvei.
IndexesOK ==
  /\ pc = "write_bt" => bt # Absent /\ bt.writer = writer
  /\ pc \in {"create_kvei", "write_kvei", "return"} \/ result = "ok" =>
       bt = [writer |-> writer, whole |-> TRUE]
  /\ pc = "write_kvei" => kvei # Absent /\ kvei.writer = writer
  /\ pc = "return" \/ result = "ok" =>
       (salted => kvei = [writer |-> writer, whole |-> TRUE])

\* The files of earlier writers go together until this one touches them.
Siblings ==
  /\ kv # Absent => bt # Absent /\ bt.whole /\ bt.writer = kv.writer
  /\ kvei # Absent /\ kv.writer \in saltedOnes => kvei.whole /\ kvei.writer = kv.writer

SiblingsOK == pc \in {"none", "add", "value", "create_kv"} /\ ~upset => Siblings

\* Until a writer comes to an index, the one that is there is an earlier writer's.
NotYet ==
  /\ pc \in Collecting \cup {"open_kv", "create_bt"} => bt = Absent \/ bt.writer < writer
  /\ pc \in Collecting \cup {"open_kv", "create_bt", "write_bt", "create_kvei"} =>
       kvei = Absent \/ kvei.writer < writer

OrderOK == BuiltInOrder /\ NotYet

IndInv ==
  /\ FileTypes /\ WriterTypes
  /\ RunOK /\ TmpOK /\ KvOK /\ IndexesOK /\ SiblingsOK /\ OrderOK

(***************************************************************************)
(* Facts about the words of a list of keys.                                *)
(***************************************************************************)
\* The words of no keys are none.
LEMMA NoWords == PairWords(<<>>) = <<>>
BY DEF PairWords

\* One more key is two more words.
LEMMA PairAppended ==
  ASSUME NEW keys \in Seq(Key), NEW k \in Key
  PROVE  /\ PairWords(Append(keys, k))
              = Append(Append(PairWords(keys), <<k, "key">>), <<k, "value">>)
         /\ PairWords(keys) \in Seq(Words)
         /\ Len(PairWords(keys)) = 2 * Len(keys)
<1> DEFINE n == Len(keys)
           one == Append(keys, k)
           w == PairWords(keys)
<1>1. n \in Nat /\ Len(one) = n + 1 /\ DOMAIN keys = 1 .. n
      /\ one[n + 1] = k /\ \A i \in 1 .. n : one[i] = keys[i]
  OBVIOUS
<1> HIDE DEF n, one
<1>2. \A i \in 1 .. 2 * n : (i + 1) \div 2 \in 1 .. n
  BY <1>1
<1>3. w = [i \in 1 .. 2 * n |-> <<keys[(i + 1) \div 2], IF i % 2 = 1 THEN "key" ELSE "value">>]
  BY DEF PairWords, n
<1>4. \A i \in 1 .. 2 * n : w[i] \in Words
  <2> SUFFICES ASSUME NEW i \in 1 .. 2 * n PROVE w[i] \in Words
    OBVIOUS
  <2>1. keys[(i + 1) \div 2] \in Key
    BY <1>1, <1>2
  <2>2. \A l \in Key : <<l, "key">> \in Words /\ <<l, "value">> \in Words
    BY DEF Words, Parts
  <2>3. w[i] = <<keys[(i + 1) \div 2], IF i % 2 = 1 THEN "key" ELSE "value">>
    BY <1>3
  <2> HIDE DEF w
  <2> QED BY <2>1, <2>2, <2>3
<1>5. w \in Seq(Words) /\ Len(w) = 2 * n
  BY <1>1, <1>3, <1>4
<1>6. PairWords(one) = [i \in 1 .. 2 * (n + 1) |->
        <<one[(i + 1) \div 2], IF i % 2 = 1 THEN "key" ELSE "value">>]
  BY <1>1 DEF PairWords
<1> DEFINE x == Append(Append(w, <<k, "key">>), <<k, "value">>)
<1>7. /\ Len(x) = 2 * n + 2 /\ x[2 * n + 1] = <<k, "key">> /\ x[2 * n + 2] = <<k, "value">>
      /\ \A i \in 1 .. 2 * n : x[i] = w[i]
      /\ x = [i \in 1 .. 2 * n + 2 |-> x[i]]
  BY <1>1, <1>5
<1> HIDE DEF x
<1>8. \A i \in 1 .. 2 * (n + 1) : PairWords(one)[i] = x[i]
  <2> SUFFICES ASSUME NEW i \in 1 .. 2 * (n + 1) PROVE PairWords(one)[i] = x[i]
    OBVIOUS
  <2>0. PairWords(one)[i] = <<one[(i + 1) \div 2], IF i % 2 = 1 THEN "key" ELSE "value">>
    BY <1>6
  <2>1. CASE i \in 1 .. 2 * n
    <3>1. (i + 1) \div 2 \in 1 .. n
      BY <2>1, <1>2
    <3>2. one[(i + 1) \div 2] = keys[(i + 1) \div 2]
      BY <3>1, <1>1
    <3>3. x[i] = w[i]
      BY <2>1, <1>7
    <3>4. w[i] = <<keys[(i + 1) \div 2], IF i % 2 = 1 THEN "key" ELSE "value">>
      BY <2>1, <1>3
    <3> QED BY <2>0, <3>2, <3>3, <3>4, Zenon
  <2>2. CASE i = 2 * n + 1
    <3>1. (i + 1) \div 2 = n + 1 /\ i % 2 = 1
      BY <2>2, <1>1
    <3> QED BY <2>0, <2>2, <3>1, <1>1, <1>7
  <2>3. CASE i = 2 * n + 2
    <3>1. (i + 1) \div 2 = n + 1 /\ i % 2 = 0
      BY <2>3, <1>1
    <3> QED BY <2>0, <2>3, <3>1, <1>1, <1>7
  <2> QED BY <2>1, <2>2, <2>3, <1>1
<1>9. PairWords(one) = x
  <2>1. 1 .. 2 * (n + 1) = 1 .. 2 * n + 2
    BY <1>1
  <2>2. DOMAIN PairWords(one) = 1 .. 2 * (n + 1)
        /\ PairWords(one) = [i \in 1 .. 2 * (n + 1) |-> PairWords(one)[i]]
    BY <1>6, Zenon
  <2> QED BY <2>1, <2>2, <1>7, <1>8, Zenon
<1> QED BY <1>5, <1>9 DEF x, one, n

(***************************************************************************)
(* The invariant holds initially, and each step keeps it.                  *)
(***************************************************************************)
LEMMA InitInv == Init => IndInv
<1> SUFFICES ASSUME Init PROVE IndInv
  OBVIOUS
<1> USE DEF Init
<1>1. FileTypes
  BY DEF FileTypes, Indexes
<1>2. WriterTypes
  BY BoundsAssumption DEF WriterTypes
<1>3. RunOK /\ TmpOK /\ KvOK
  BY DEF RunOK, TmpOK, KvOK, Collecting, Indexing
<1>4. IndexesOK /\ SiblingsOK
  BY DEF IndexesOK, SiblingsOK, Siblings
<1>5. OrderOK
  BY DEF OrderOK, BuiltInOrder, NotYet, Collecting
<1> QED BY <1>1, <1>2, <1>3, <1>4, <1>5 DEF IndInv

\* A temporary file, to which words are appended, is none that is not there.
LEMMA Appended ==
  ASSUME NEW W, NEW s \in Seq(W), NEW w \in W
  PROVE  Append(s, w) \in Seq(W) /\ Append(s, w) # <<>> /\ Len(Append(s, w)) = Len(s) + 1
<1>1. Append(s, w) \in Seq(W)
  OBVIOUS
<1>2. Len(Append(s, w)) = Len(s) + 1 /\ Len(s) \in Nat
  OBVIOUS
<1>3. Append(s, w) # <<>>
  BY <1>2
<1> QED BY <1>1, <1>2, <1>3

LEMMA TmpAppended ==
  ASSUME NEW s \in Seq(Words \cup {Torn}), NEW k \in Key,
         NEW w \in {<<k, "key">>, <<k, "value">>, Torn}
  PROVE  /\ Append(s, w) \in Seq(Words \cup {Torn})
         /\ Append(s, w) # <<>> /\ Append(s, w) # Absent
         /\ Len(Append(s, w)) = Len(s) + 1
<1>1. w \in Words \cup {Torn}
  BY DEF Words, Parts
<1> QED BY <1>1, Appended, AbsentAssumption

LEMMA NoWordsThere == <<>> \in Seq(Words \cup {Torn}) /\ <<>> # Absent
<1>1. \A W : <<>> \in Seq(W)
  OBVIOUS
<1> QED BY <1>1, AbsentAssumption

LEMMA CreateStep ==
  ASSUME IndInv, NEW salt \in BOOLEAN, Create(salt)
  PROVE  IndInv'
<1> USE DEF Create
<1>1. writer' = writer + 1 /\ writer' \in 0 .. MaxWriters /\ writer \in Nat
      /\ writer' \notin saltedOnes
  BY BoundsAssumption DEF IndInv, WriterTypes
<1>2. FileTypes'
  <2>1. kv' \in {Absent} \cup [writer : 1 .. writer', words : Seq(Words \cup {Torn}), count : Nat]
    BY <1>1 DEF IndInv, FileTypes
  <2>2. bt' \in Indexes' /\ kvei' \in Indexes'
    BY <1>1 DEF IndInv, FileTypes, Indexes
  <2> QED BY <2>1, <2>2 DEF FileTypes
<1>3. WriterTypes'
  <2>1. saltedOnes' \subseteq 1 .. writer'
    BY <1>1 DEF IndInv, WriterTypes
  <2> QED BY <1>1, <2>1 DEF IndInv, WriterTypes
<1>4. RunOK'
  <2>1. pc' = "add" /\ result' = "open" /\ (salted' <=> salt)
    OBVIOUS
  <2>2. writer' \in saltedOnes' <=> salt
    BY <1>1
  <2>3. salted' <=> writer' \in saltedOnes'
    BY <2>1, <2>2, Zenon
  <2>4. writer' > 0
    BY <1>1
  <2> QED BY <2>1, <2>3, <2>4, Zenon DEF RunOK
<1>5. KvOK' /\ IndexesOK'
  BY DEF IndInv, KvOK, IndexesOK, Indexing
<1>6. TmpOK'
  <2>1. tmp' = <<>> /\ tmp' # Absent /\ pc' = "add" /\ wordsCount' = 0 /\ added' = <<>>
    BY NoWordsThere
  <2>2. Len(tmp') = 0
    BY <2>1
  <2> HIDE DEF Create
  <2> QED BY <2>1, <2>2, NoWords DEF TmpOK, Collecting, Indexing
<1>7. SiblingsOK'
  <2>1. kv # Absent => kv.writer # writer'
    <3>1. kv # Absent => kv.writer \in 1 .. writer
      BY DEF IndInv, FileTypes
    <3> QED BY <1>1, <3>1
  <2>2. kv # Absent => (kv.writer \in saltedOnes' <=> kv.writer \in saltedOnes)
    BY <2>1
  <2> QED BY <2>2 DEF IndInv, SiblingsOK, Siblings, KvOK
<1>8. OrderOK'
  <2>1. bt = Absent \/ bt.writer \in 1 .. writer
    BY DEF IndInv, FileTypes, Indexes
  <2>2. kvei = Absent \/ kvei.writer \in 1 .. writer
    BY DEF IndInv, FileTypes, Indexes
  <2>3. /\ bt = Absent \/ bt.writer < writer'
        /\ kvei = Absent \/ kvei.writer < writer'
        /\ bt = Absent \/ bt.writer # writer'
    BY <1>1, <2>1, <2>2
  <2>4. /\ bt # Absent => kv # Absent /\ bt.writer <= kv.writer
        /\ kvei # Absent =>
             bt # Absent /\ kvei.writer <= bt.writer /\ (kvei.writer = bt.writer => bt.whole)
    BY DEF IndInv, OrderOK, BuiltInOrder
  <2>5. kv' = kv /\ bt' = bt /\ kvei' = kvei
    OBVIOUS
  <2> HIDE DEF Create
  <2> QED BY <2>3, <2>4, <2>5 DEF OrderOK, BuiltInOrder, NotYet
<1> QED BY <1>2, <1>3, <1>4, <1>5, <1>6, <1>7, <1>8 DEF IndInv

\* A step on the way to the first index keeps the files in order.
LEMMA BeforeIndexes ==
  ASSUME IndInv, pc \in Collecting \cup {"open_kv"}, UNCHANGED <<bt, kvei, options>>,
         kv' # Absent \/ kv' = kv,
         kv' # Absent /\ kv' # kv => kv'.writer = writer,
         pc' \in Collecting \cup {"open_kv", "create_bt", "none"}
  PROVE  OrderOK'
<1>1. /\ bt = Absent \/ bt.writer < writer
      /\ kvei = Absent \/ kvei.writer < writer
      /\ bt' = bt /\ kvei' = kvei /\ writer' = writer
  BY DEF IndInv, OrderOK, NotYet, options
<1>2. writer \in Int /\ (bt = Absent \/ bt.writer \in Int)
  BY BoundsAssumption DEF IndInv, WriterTypes, FileTypes, Indexes
<1>3. bt # Absent => kv' # Absent /\ bt.writer <= kv'.writer
  BY <1>1, <1>2 DEF IndInv, OrderOK, BuiltInOrder
<1>4. kvei # Absent =>
        bt # Absent /\ kvei.writer <= bt.writer /\ (kvei.writer = bt.writer => bt.whole)
  BY DEF IndInv, OrderOK, BuiltInOrder
<1>5. bt # Absent => bt.writer # writer
  BY <1>1, <1>2
<1> QED BY <1>1, <1>3, <1>4, <1>5 DEF OrderOK, BuiltInOrder, NotYet

LEMMA AddKeyStep ==
  ASSUME IndInv, NEW k \in Key, AddKey(k)
  PROVE  IndInv'
<1>1. /\ pc = "add" /\ pc' \in {"add", "value"}
      /\ UNCHANGED <<kv, bt, kvei, options, lastKey, keyCount, added, result, upset>>
      /\ wordsCount' = wordsCount + 1 /\ failures' \in {failures, failures - 1}
      /\ failures' = failures - 1 => failures > 0
  BY BoundsAssumption DEF AddKey, WordWritten, WordFails, IndInv, WriterTypes
<1>2. tmp \in Seq(Words \cup {Torn})
  BY <1>1 DEF IndInv, FileTypes, TmpOK, Collecting
<1>3. tmp' \in {tmp, Append(tmp, <<k, "key">>), Append(tmp, Torn)}
  BY DEF AddKey, WordWritten, WordFails
<1>4. tmp' \in Seq(Words \cup {Torn})
  BY <1>2, <1>3, TmpAppended
<1>5. FileTypes'
  BY <1>1, <1>4 DEF IndInv, FileTypes, Indexes, options
<1>6. WriterTypes'
  BY <1>1, BoundsAssumption DEF IndInv, WriterTypes, options
<1>7. RunOK'
  BY <1>1 DEF IndInv, RunOK, options
<1>8. KvOK' /\ IndexesOK' /\ SiblingsOK'
  BY <1>1 DEF IndInv, RunOK, KvOK, IndexesOK, SiblingsOK, Siblings, Indexing, options
<1>9. TmpOK'
  <2>1. CASE pc' = "value" /\ tmp' = Append(tmp, <<k, "key">>) /\ (addFailed' <=> addFailed)
    <3>1. tmp' # <<>> /\ tmp' # Absent /\ Len(tmp') = Len(tmp) + 1
      BY <1>2, <2>1, TmpAppended
    <3>2. ~addFailed' => tmp = PairWords(added') /\ wordsCount' = Len(tmp')
      BY <1>1, <2>1, <3>1 DEF IndInv, TmpOK
    <3> QED BY <2>1, <3>1, <3>2 DEF TmpOK, Collecting, Indexing
  <2>2. CASE pc' = "add" /\ addFailed'
    BY <1>4, <2>2, AbsentAssumption DEF TmpOK, Collecting, Indexing
  <2> QED BY <2>1, <2>2 DEF AddKey, WordWritten, WordFails
<1>10. OrderOK'
  BY <1>1, BeforeIndexes DEF Collecting
<1> QED BY <1>5, <1>6, <1>7, <1>8, <1>9, <1>10 DEF IndInv

LEMMA AddValueStep ==
  ASSUME IndInv, NEW k \in Key, AddValue(k)
  PROVE  IndInv'
<1>1. /\ pc = "value" /\ pc' = "add" /\ tmp[Len(tmp)] = <<k, "key">>
      /\ UNCHANGED <<kv, bt, kvei, options, result, upset>>
      /\ wordsCount' = wordsCount + 1 /\ failures' \in {failures, failures - 1}
      /\ failures' = failures - 1 => failures > 0
      /\ lastKey' \in {lastKey, k} /\ keyCount' \in {keyCount, keyCount + 1}
      /\ added' \in {added, Append(added, k)}
  BY BoundsAssumption DEF AddValue, WordWritten, WordFails, IndInv, WriterTypes
<1>2. tmp \in Seq(Words \cup {Torn})
  BY <1>1 DEF IndInv, FileTypes, TmpOK, Collecting
<1>3. tmp' \in {tmp, Append(tmp, <<k, "value">>), Append(tmp, Torn)}
  BY DEF AddValue, WordWritten, WordFails
<1>4. tmp' \in Seq(Words \cup {Torn})
  BY <1>2, <1>3, TmpAppended
<1>5. FileTypes'
  BY <1>1, <1>4 DEF IndInv, FileTypes, Indexes, options
<1>6. WriterTypes'
  <2>1. /\ failures' \in 0 .. MaxFailures /\ wordsCount' \in Nat /\ keyCount' \in Nat
    BY <1>1, BoundsAssumption DEF IndInv, WriterTypes
  <2>2. added' \in Seq(Key) /\ lastKey' \in Key \cup {NoKey}
    <3>1. added \in Seq(Key) /\ lastKey \in Key \cup {NoKey}
      BY DEF IndInv, WriterTypes
    <3>2. Append(added, k) \in Seq(Key)
      BY <3>1
    <3> QED BY <1>1, <3>1, <3>2
  <2>3. /\ writer' \in 0 .. MaxWriters /\ saltedOnes' \subseteq 1 .. writer'
        /\ result' \in {"open", "dropped", "ok", "failed", "killed"}
    BY <1>1 DEF IndInv, WriterTypes, options
  <2> QED BY <1>1, <2>1, <2>2, <2>3 DEF WriterTypes
<1>7. RunOK'
  BY <1>1 DEF IndInv, RunOK, options
<1>8. KvOK' /\ IndexesOK' /\ SiblingsOK'
  BY <1>1 DEF IndInv, RunOK, KvOK, IndexesOK, SiblingsOK, Siblings, Indexing, options
<1>9. TmpOK'
  <2>1. CASE /\ tmp' = Append(tmp, <<k, "value">>) /\ added' = Append(added, k)
             /\ (addFailed' <=> addFailed)
    <3>1. ASSUME ~addFailed PROVE tmp' = PairWords(added') /\ wordsCount' = Len(tmp')
      <4>1. PICK l \in Key : tmp = Append(PairWords(added), <<l, "key">>)
        BY <1>1, <3>1 DEF IndInv, TmpOK
      <4>2. added \in Seq(Key)
        BY DEF IndInv, WriterTypes
      <4>3. PairWords(added) \in Seq(Words)
        BY <4>2, PairAppended
      <4>4. tmp[Len(tmp)] = <<l, "key">>
        BY <4>1, <4>3
      <4>5. l = k
        BY <4>4, <1>1
      <4>6. tmp' = PairWords(added')
        BY <2>1, <4>1, <4>2, <4>5, PairAppended
      <4>7. wordsCount' = Len(tmp')
        BY <1>1, <1>2, <2>1, <3>1 DEF IndInv, TmpOK
      <4> QED BY <4>6, <4>7
    <3> QED BY <1>1, <1>4, <2>1, <3>1, AbsentAssumption DEF TmpOK, Collecting, Indexing
  <2>2. CASE addFailed'
    BY <1>1, <1>4, <2>2, AbsentAssumption DEF TmpOK, Collecting, Indexing
  <2> QED BY <2>1, <2>2 DEF AddValue, WordWritten, WordFails
<1>10. OrderOK'
  BY <1>1, BeforeIndexes DEF Collecting
<1> QED BY <1>5, <1>6, <1>7, <1>8, <1>9, <1>10 DEF IndInv

\* A finish that fails, or a stop of the process, leaves whatever it has written.
LEMMA StopStep ==
  ASSUME IndInv, FileTypes', kv' = Absent => kvei' = Absent,
         UNCHANGED <<options, counters, addFailed>>,
         pc' = "none", result' \in {"failed", "killed"}, upset' = TRUE,
         failures' \in {failures, failures - 1}, failures' = failures - 1 => failures > 0,
         BuiltInOrder'
  PROVE  IndInv'
<1>1. WriterTypes'
  BY BoundsAssumption DEF IndInv, WriterTypes, options, counters
<1>2. RunOK' /\ TmpOK' /\ KvOK' /\ IndexesOK' /\ SiblingsOK'
  BY DEF RunOK, TmpOK, KvOK, IndexesOK, SiblingsOK, Collecting, Indexing
<1>3. OrderOK'
  BY DEF OrderOK, NotYet, Collecting
<1> QED BY <1>1, <1>2, <1>3 DEF IndInv

LEMMA SameFiles ==
  ASSUME IndInv, UNCHANGED <<files, options, counters, addFailed>>
  PROVE  FileTypes' /\ (kv' = Absent => kvei' = Absent) /\ BuiltInOrder'
<1>1. FileTypes' /\ (kv' = Absent => kvei' = Absent)
  BY DEF IndInv, KvOK, FileTypes, Indexes, files, options
<1>2. PairWords(added)' = PairWords(added)
  BY DEF PairWords, counters
<1>3. BuiltInOrder'
  BY <1>2 DEF IndInv, OrderOK, BuiltInOrder, files, options, counters
<1> QED BY <1>1, <1>3

LEMMA FailFacts ==
  ASSUME IndInv, Fail
  PROVE  /\ pc' = "none" /\ result' \in {"failed", "killed"} /\ upset' = TRUE
         /\ failures' \in {failures, failures - 1}
         /\ failures' = failures - 1 => failures > 0
BY BoundsAssumption DEF IndInv, WriterTypes, Fail

LEMMA DropStep == IndInv /\ DropWriter => IndInv'
<1> SUFFICES ASSUME IndInv, DropWriter PROVE IndInv'
  OBVIOUS
<1> USE DEF DropWriter
<1>1. FileTypes'
  BY DEF IndInv, FileTypes, Indexes, options
<1>2. WriterTypes'
  BY DEF IndInv, WriterTypes, options, counters
<1>3. RunOK' /\ TmpOK'
  BY DEF RunOK, TmpOK, Collecting, Indexing
<1>4. KvOK' /\ IndexesOK' /\ SiblingsOK'
  BY DEF IndInv, KvOK, IndexesOK, SiblingsOK, Siblings, Indexing, options
<1>5. OrderOK'
  BY BeforeIndexes DEF Collecting
<1> QED BY <1>1, <1>2, <1>3, <1>4, <1>5 DEF IndInv

\* The steps of finish that write no file.
LEMMA GoStep ==
  ASSUME IndInv, UNCHANGED <<files, options, counters, addFailed, result, upset, failures>>,
         \/ pc = "add" /\ pc' = "create_kv"
         \/ pc = "open_kv" /\ pc' = "create_bt"
  PROVE  IndInv'
<1>1. FileTypes' /\ (kv' = Absent => kvei' = Absent)
  BY SameFiles
<1>2. WriterTypes'
  BY DEF IndInv, WriterTypes, options, counters
<1>3. RunOK'
  BY DEF IndInv, RunOK, options
<1>4. TmpOK'
  BY DEF IndInv, TmpOK, Collecting, Indexing, files, counters
<1>5. KvOK' /\ IndexesOK' /\ SiblingsOK'
  BY DEF IndInv, RunOK, KvOK, IndexesOK, SiblingsOK, Siblings, Indexing, files, options,
         counters
<1>6. OrderOK'
  BY BeforeIndexes DEF Collecting, files
<1> QED BY <1>1, <1>2, <1>3, <1>4, <1>5, <1>6 DEF IndInv

LEMMA FlushStep == IndInv /\ (Flush \/ OpenKv) => IndInv'
<1> SUFFICES ASSUME IndInv, Flush \/ OpenKv PROVE IndInv'
  OBVIOUS
<1>1. CASE Fail
  BY <1>1, FailFacts, SameFiles, StopStep DEF Flush, OpenKv
<1>2. CASE ~Fail
  BY <1>2, GoStep DEF Flush, OpenKv, Go
<1> QED BY <1>1, <1>2

\* A .kv with a writer is there.
LEMMA KvThere ==
  ASSUME NEW f \in [writer : 1 .. writer, words : Seq(Words \cup {Torn}), count : Nat]
  PROVE  f # Absent
<1>1. f \in [writer : Int, words : Seq(Words \cup {Torn}), count : Nat]
  OBVIOUS
<1> QED BY <1>1, AbsentAssumption

LEMMA Prefixes ==
  ASSUME NEW W, NEW s \in Seq(W), NEW n \in 0 .. Len(s)
  PROVE  SubSeq(s, 1, n) \in Seq(W)
OBVIOUS

LEMMA CreateKvStep == IndInv /\ CreateKv => IndInv'
<1> SUFFICES ASSUME IndInv, CreateKv PROVE IndInv'
  OBVIOUS
<1>1. CASE Fail /\ UNCHANGED kv
  BY <1>1, FailFacts, SameFiles, StopStep DEF CreateKv, files
<1>2. CASE kv' = [writer |-> writer, words |-> <<>>, count |-> 0] /\ Go("write_kv")
  <2> USE DEF CreateKv, Go
  <2>1. writer \in 1 .. writer
    BY <1>2 DEF IndInv, RunOK, WriterTypes
  <2>2. kv' \in [writer : 1 .. writer, words : Seq(Words \cup {Torn}), count : Nat]
    BY <1>2, <2>1, NoWordsThere
  <2>3. kv' # Absent /\ kv'.writer = writer
    BY <1>2, <2>2, KvThere
  <2>4. FileTypes'
    BY <1>2, <2>2 DEF IndInv, FileTypes, Indexes, options
  <2>5. WriterTypes'
    BY <1>2 DEF IndInv, WriterTypes, options, counters
  <2>6. RunOK'
    BY <1>2 DEF IndInv, RunOK, options
  <2>7. TmpOK'
    BY <1>2 DEF IndInv, TmpOK, Collecting, Indexing, counters
  <2>8. KvOK' /\ IndexesOK' /\ SiblingsOK'
    BY <1>2, <2>3 DEF IndInv, RunOK, KvOK, IndexesOK, SiblingsOK, Indexing, options
  <2>9. OrderOK'
    <3>1. pc \in Collecting /\ pc' \in Collecting /\ UNCHANGED <<bt, kvei, options>>
      BY <1>2 DEF Collecting
    <3> HIDE DEF CreateKv, Go
    <3> QED BY <2>3, <3>1, BeforeIndexes
  <2> QED BY <2>4, <2>5, <2>6, <2>7, <2>8, <2>9 DEF IndInv
<1> QED BY <1>1, <1>2 DEF CreateKv

LEMMA WriteKvStep == IndInv /\ WriteKv => IndInv'
<1> SUFFICES ASSUME IndInv, WriteKv PROVE IndInv'
  OBVIOUS
<1>0. /\ pc = "write_kv" /\ kv # Absent /\ kv.writer = writer
      /\ kv \in [writer : 1 .. writer, words : Seq(Words \cup {Torn}), count : Nat]
      /\ tmp \in Seq(Words \cup {Torn})
      /\ UNCHANGED <<tmp, bt, kvei, options, counters, addFailed>>
  BY DEF WriteKv, IndInv, KvOK, TmpOK, Collecting, FileTypes
<1>1. PICK words : /\ words \in Seq(Words \cup {Torn})
                   /\ kv' = [kv EXCEPT !.words = words, !.count = wordsCount]
                   /\ (words = tmp /\ Go("remove_tmp")) \/ Fail
  BY <1>0, Prefixes DEF WriteKv, HeaderCount
<1>2. /\ kv' \in [writer : 1 .. writer, words : Seq(Words \cup {Torn}), count : Nat]
      /\ kv'.writer = writer /\ kv'.words = words /\ kv'.count = wordsCount
  BY <1>0, <1>1 DEF IndInv, WriterTypes
<1>3. kv' # Absent
  BY <1>2, KvThere
<1>4. FileTypes'
  BY <1>0, <1>2 DEF IndInv, FileTypes, Indexes, options
<1>7. pc' \in Collecting \cup {"none"} => OrderOK'
  BY <1>0, <1>2, <1>3, BeforeIndexes DEF Collecting
<1>5. CASE Fail
  <2>1. pc' = "none" /\ BuiltInOrder'
    BY <1>5, <1>7, FailFacts DEF OrderOK
  <2> QED BY <1>0, <1>3, <1>4, <1>5, <2>1, FailFacts, StopStep
<1>6. CASE words = tmp /\ Go("remove_tmp")
  <2> USE DEF Go
  <2>1. WriterTypes'
    BY <1>0, <1>6 DEF IndInv, WriterTypes, options, counters
  <2>2. RunOK'
    BY <1>0, <1>6 DEF IndInv, RunOK, options
  <2>3. TmpOK'
    BY <1>0, <1>6 DEF IndInv, TmpOK, Collecting, Indexing, counters
  <2>4. ~addFailed' => kv'.words = PairWords(added') /\ kv'.count = Len(kv'.words)
    BY <1>0, <1>2, <1>6 DEF IndInv, TmpOK, counters
  <2>5. KvOK'
    BY <1>0, <1>2, <1>3, <1>6, <2>4 DEF IndInv, RunOK, KvOK, Indexing, options
  <2>6. IndexesOK' /\ SiblingsOK'
    BY <1>0, <1>6 DEF IndInv, RunOK, IndexesOK, SiblingsOK, Indexing, options
  <2>7. OrderOK'
    BY <1>6, <1>7 DEF Collecting
  <2> QED BY <1>4, <2>1, <2>2, <2>3, <2>5, <2>6, <2>7 DEF IndInv
<1> QED BY <1>1, <1>5, <1>6

LEMMA RemoveTmpStep == IndInv /\ RemoveTmp => IndInv'
<1> SUFFICES ASSUME IndInv, RemoveTmp PROVE IndInv'
  OBVIOUS
<1> USE DEF RemoveTmp, Go
<1>1. FileTypes'
  BY DEF IndInv, FileTypes, Indexes, options
<1>2. WriterTypes'
  BY DEF IndInv, WriterTypes, options, counters
<1>3. RunOK' /\ TmpOK'
  BY DEF IndInv, RunOK, TmpOK, Collecting, Indexing, options
<1>4. KvOK' /\ IndexesOK' /\ SiblingsOK'
  BY DEF IndInv, RunOK, KvOK, IndexesOK, SiblingsOK, Indexing, options, counters
<1>5. OrderOK'
  BY BeforeIndexes DEF Collecting
<1> QED BY <1>1, <1>2, <1>3, <1>4, <1>5 DEF IndInv

\* The steps that make the indexes: what they leave alone, and the types of the rest.
LEMMA IndexStep ==
  ASSUME IndInv, UNCHANGED <<tmp, kv, options, counters, addFailed, result, upset, failures>>,
         pc \in Indexing, pc' \in Indexing, bt' \in Indexes, kvei' \in Indexes, IndexesOK',
         OrderOK'
  PROVE  IndInv'
<1>1. FileTypes'
  BY DEF IndInv, FileTypes, Indexes, options
<1>2. WriterTypes'
  BY DEF IndInv, WriterTypes, options, counters, Indexing
<1>3. RunOK' /\ TmpOK'
  BY DEF IndInv, RunOK, TmpOK, Collecting, Indexing, options
<1>4. KvOK' /\ SiblingsOK'
  BY DEF IndInv, RunOK, KvOK, SiblingsOK, Indexing, options, counters
<1> QED BY <1>1, <1>2, <1>3, <1>4 DEF IndInv

\* An index of the writer is there.
LEMMA IndexThere ==
  ASSUME IndInv, pc # "none", NEW w \in BOOLEAN
  PROVE  /\ [writer |-> writer, whole |-> w] \in Indexes
         /\ [writer |-> writer, whole |-> w] # Absent
<1>1. writer \in 1 .. writer
  BY DEF IndInv, RunOK, WriterTypes
<1>2. [writer |-> writer, whole |-> w] \in [writer : Int, whole : BOOLEAN]
  BY <1>1
<1> QED BY <1>1, <1>2, AbsentAssumption DEF Indexes

LEMMA BtStep == IndInv /\ (CreateBt \/ WriteBt) => IndInv'
<1> SUFFICES ASSUME IndInv, CreateBt \/ WriteBt PROVE IndInv'
  OBVIOUS
<1>0. /\ pc \in {"create_bt", "write_bt"} /\ kvei \in Indexes
      /\ UNCHANGED <<tmp, kv, kvei, options, counters, addFailed>>
  BY DEF CreateBt, WriteBt, IndInv, FileTypes
<1>1. CASE Fail
  <2>1. UNCHANGED bt
    BY <1>1 DEF CreateBt, WriteBt, Fail, Go, AfterBt
  <2> QED BY <1>0, <1>1, <2>1, FailFacts, SameFiles, StopStep DEF files
<1>2. CASE CreateBt /\ ~Fail
  <2> DEFINE w == kv.count \div 2 = 0
  <2>1. bt' = [writer |-> writer, whole |-> w] /\ Go("write_bt") /\ w \in BOOLEAN
    BY <1>2 DEF CreateBt
  <2> HIDE DEF w
  <2>2. bt' \in Indexes /\ bt' # Absent /\ bt'.writer = writer
    BY <1>0, <2>1, IndexThere
  <2>3. IndexesOK'
    BY <1>0, <2>1, <2>2 DEF IndexesOK, Go, options, IndInv, RunOK
  <2>4. OrderOK'
    <3>1. /\ kvei = Absent \/ kvei.writer < writer
          /\ kv # Absent /\ kv.writer = writer
          /\ ~addFailed => kv.words = PairWords(added) /\ kv.count = Len(kv.words)
      BY <1>2 DEF CreateBt, IndInv, OrderOK, NotYet, KvOK, Indexing
    <3>2. writer \in Int /\ (kvei = Absent \/ kvei.writer \in Int)
      BY BoundsAssumption DEF IndInv, WriterTypes, FileTypes, Indexes
    <3>3. pc' = "write_bt" /\ kv' = kv /\ kvei' = kvei /\ UNCHANGED <<writer, added, addFailed>>
      BY <1>0, <2>1 DEF Go, options, counters
    <3> QED BY <2>2, <3>1, <3>2, <3>3 DEF OrderOK, BuiltInOrder, NotYet, Collecting
  <2> QED BY <1>0, <2>1, <2>2, <2>3, <2>4, IndexStep DEF Go, Indexing
<1>3. CASE WriteBt /\ ~Fail
  <2>1. pc = "write_bt" /\ bt' = [bt EXCEPT !.whole = TRUE] /\ Go(AfterBt)
    BY <1>3 DEF WriteBt
  <2>2. bt # Absent /\ bt.writer = writer /\ bt \in [writer : 1 .. writer, whole : BOOLEAN]
    BY <2>1 DEF IndInv, IndexesOK, FileTypes, Indexes
  <2>3. bt' = [writer |-> writer, whole |-> TRUE]
    BY <2>1, <2>2
  <2>4. bt' \in Indexes
    BY <1>0, <2>3, IndexThere
  <2>5. IndexesOK'
    BY <1>0, <2>1, <2>3 DEF IndexesOK, Go, AfterBt, options, IndInv, RunOK
  <2>6. OrderOK'
    <3>1. /\ kvei = Absent \/ kvei.writer < writer
          /\ kv # Absent /\ kv.writer = writer
          /\ ~addFailed => kv.words = PairWords(added) /\ kv.count = Len(kv.words)
      BY <2>1 DEF IndInv, OrderOK, NotYet, KvOK, Indexing
    <3>2. writer \in Int /\ (kvei = Absent \/ kvei.writer \in Int)
      BY BoundsAssumption DEF IndInv, WriterTypes, FileTypes, Indexes
    <3>3. /\ pc' \in {"create_kvei", "return"} /\ kv' = kv /\ kvei' = kvei
          /\ UNCHANGED <<writer, added, addFailed>>
      BY <1>0, <2>1 DEF Go, AfterBt, options, counters
    <3>4. bt' # Absent /\ bt'.writer = writer /\ bt'.whole
      BY <1>0, <2>3, IndexThere
    <3> QED BY <3>1, <3>2, <3>3, <3>4 DEF OrderOK, BuiltInOrder, NotYet, Collecting
  <2> QED BY <1>0, <2>1, <2>4, <2>5, <2>6, IndexStep DEF Go, AfterBt, Indexing
<1> QED BY <1>1, <1>2, <1>3

LEMMA KveiStep == IndInv /\ (CreateKvei \/ WriteKvei) => IndInv'
<1> SUFFICES ASSUME IndInv, CreateKvei \/ WriteKvei PROVE IndInv'
  OBVIOUS
<1>0. /\ pc \in {"create_kvei", "write_kvei"} /\ bt \in Indexes
      /\ bt = [writer |-> writer, whole |-> TRUE] /\ kv # Absent
      /\ UNCHANGED <<tmp, kv, bt, options, counters, addFailed>>
  BY DEF CreateKvei, WriteKvei, IndInv, FileTypes, IndexesOK, KvOK, Indexing
<1>4. ASSUME pc' \in {"write_kvei", "return"}, kvei'.writer = writer
      PROVE  OrderOK'
  <2>1. /\ bt' = bt /\ bt.writer = writer /\ bt.whole /\ bt # Absent
        /\ kv' = kv /\ kv # Absent /\ kv.writer = writer
        /\ UNCHANGED <<writer, added, addFailed>>
    BY <1>0, IndexThere DEF options, counters, IndInv, KvOK, Indexing
  <2>2. ~addFailed => kv.words = PairWords(added) /\ kv.count = Len(kv.words)
    BY <1>0 DEF IndInv, KvOK, Indexing
  <2>3. writer \in Int
    BY BoundsAssumption DEF IndInv, WriterTypes
  <2> QED BY <1>4, <2>1, <2>2, <2>3 DEF OrderOK, BuiltInOrder, NotYet, Collecting
<1>1. CASE Fail
  <2>1. UNCHANGED kvei
    BY <1>1 DEF CreateKvei, WriteKvei, Fail, Go
  <2> QED BY <1>0, <1>1, <2>1, FailFacts, SameFiles, StopStep DEF files
<1>2. CASE CreateKvei /\ ~Fail
  <2> DEFINE w == kv.count \div 2 < 2
  <2>1. kvei' = [writer |-> writer, whole |-> w] /\ Go("write_kvei") /\ w \in BOOLEAN
    BY <1>2 DEF CreateKvei
  <2> HIDE DEF w
  <2>2. kvei' \in Indexes /\ kvei' # Absent /\ kvei'.writer = writer
    BY <1>0, <2>1, IndexThere
  <2>3. IndexesOK'
    BY <1>0, <2>1, <2>2 DEF IndexesOK, Go, options, IndInv, RunOK
  <2>4. OrderOK'
    BY <1>0, <1>4, <2>1, <2>2 DEF Go
  <2> QED BY <1>0, <2>1, <2>2, <2>3, <2>4, IndexStep DEF Go, Indexing
<1>3. CASE WriteKvei /\ ~Fail
  <2>1. pc = "write_kvei" /\ kvei' = [kvei EXCEPT !.whole = TRUE] /\ Go("return")
    BY <1>3 DEF WriteKvei
  <2>2. kvei # Absent /\ kvei.writer = writer
        /\ kvei \in [writer : 1 .. writer, whole : BOOLEAN]
    BY <2>1 DEF IndInv, IndexesOK, FileTypes, Indexes
  <2>3. kvei' = [writer |-> writer, whole |-> TRUE]
    BY <2>1, <2>2
  <2>4. kvei' \in Indexes
    BY <1>0, <2>3, IndexThere
  <2>5. IndexesOK'
    BY <1>0, <2>1, <2>3 DEF IndexesOK, Go, options, IndInv, RunOK
  <2>6. OrderOK'
    BY <1>0, <1>4, <2>1, <2>3 DEF Go
  <2> QED BY <1>0, <2>1, <2>4, <2>5, <2>6, IndexStep DEF Go, Indexing
<1> QED BY <1>1, <1>2, <1>3

\* Ok is returned when all there is belongs to this writer.
LEMMA ReturnOkStep == IndInv /\ ReturnOk => IndInv'
<1> SUFFICES ASSUME IndInv, ReturnOk PROVE IndInv'
  OBVIOUS
<1> USE DEF ReturnOk
<1>1. FileTypes'
  BY SameFiles
<1>2. WriterTypes'
  BY DEF IndInv, WriterTypes, options, counters
<1>3. RunOK' /\ TmpOK'
  BY DEF IndInv, RunOK, TmpOK, Collecting, Indexing, files
<1>4. KvOK'
  BY DEF IndInv, KvOK, Indexing, files, options, counters
<1>5. IndexesOK'
  BY DEF IndInv, IndexesOK, files, options
<1>6. SiblingsOK'
  <2>1. kv # Absent /\ kv.writer = writer /\ bt = [writer |-> writer, whole |-> TRUE]
        /\ (salted <=> writer \in saltedOnes)
        /\ (salted => kvei = [writer |-> writer, whole |-> TRUE])
    BY DEF IndInv, KvOK, IndexesOK, RunOK, Indexing
  <2>2. bt # Absent
    BY <2>1, IndexThere
  <2>3. Siblings
    BY <2>1, <2>2 DEF Siblings
  <2> QED BY <2>3 DEF SiblingsOK, Siblings, files, options
<1>7. OrderOK'
  <2>1. BuiltInOrder'
    BY SameFiles
  <2> QED BY <2>1 DEF OrderOK, NotYet, Collecting
<1> QED BY <1>1, <1>2, <1>3, <1>4, <1>5, <1>6, <1>7 DEF IndInv

LEMMA KillStep == IndInv /\ Kill => IndInv'
<1> SUFFICES ASSUME IndInv, Kill PROVE IndInv'
  OBVIOUS
<1>1. FileTypes' /\ (kv' = Absent => kvei' = Absent) /\ BuiltInOrder'
  BY SameFiles DEF Kill
<1>2. /\ UNCHANGED <<options, counters, addFailed>> /\ pc' = "none" /\ upset' = TRUE
      /\ result' \in {"failed", "killed"} /\ failures' \in {failures, failures - 1}
      /\ failures' = failures - 1 => failures > 0
  BY DEF Kill
<1> QED BY <1>1, <1>2, StopStep

LEMMA InvStep == IndInv /\ [Next]_vars => IndInv'
<1> SUFFICES ASSUME IndInv, [Next]_vars PROVE IndInv'
  OBVIOUS
<1>1. CASE \E salt \in BOOLEAN : Create(salt)
  BY <1>1, CreateStep
<1>2. CASE \E k \in Key : AddKey(k) \/ AddValue(k)
  BY <1>2, AddKeyStep, AddValueStep
<1>3. CASE DropWriter \/ Flush \/ CreateKv \/ WriteKv \/ RemoveTmp \/ OpenKv
  BY <1>3, DropStep, FlushStep, CreateKvStep, WriteKvStep, RemoveTmpStep
<1>4. CASE CreateBt \/ WriteBt \/ CreateKvei \/ WriteKvei \/ ReturnOk \/ Kill
  BY <1>4, BtStep, KveiStep, ReturnOkStep, KillStep
<1>5. CASE UNCHANGED vars
  <2>1. FileTypes' /\ WriterTypes'
    BY <1>5 DEF vars, files, options, counters, IndInv, FileTypes, WriterTypes, Indexes
  <2>2. RunOK' /\ TmpOK'
    BY <1>5 DEF vars, files, options, counters, IndInv, RunOK, TmpOK
  <2>3. KvOK' /\ IndexesOK' /\ SiblingsOK'
    BY <1>5 DEF vars, files, options, counters, IndInv, KvOK, IndexesOK, SiblingsOK, Siblings
  <2>4. OrderOK'
    <3>1. BuiltInOrder'
      BY <1>5, SameFiles DEF vars
    <3> QED BY <1>5, <3>1 DEF vars, files, options, IndInv, OrderOK, NotYet
  <2> QED BY <2>1, <2>2, <2>3, <2>4 DEF IndInv
<1> QED BY <1>1, <1>2, <1>3, <1>4, <1>5 DEF Next

THEOREM Invariance == Spec => []IndInv
BY InitInv, InvStep, PTL DEF Spec

(***************************************************************************)
(* The theorems.                                                           *)
(***************************************************************************)
\* The flags are flags, so that every variable has a value the code can give it.
THEOREM TypeCorrect == Spec => []TypeOK
<1>1. Init => FlagTypes
  BY DEF Init, FlagTypes
<1>2. FlagTypes /\ [Next]_vars => FlagTypes'
  <2> SUFFICES ASSUME FlagTypes, [Next]_vars PROVE FlagTypes'
    OBVIOUS
  <2>1. salted' \in BOOLEAN
    BY Zenon DEF FlagTypes, Next, vars, options, Create, AddKey, AddValue, DropWriter, Flush,
       CreateKv, WriteKv, RemoveTmp, OpenKv, CreateBt, WriteBt, CreateKvei, WriteKvei,
       ReturnOk, Kill
  <2>2. addFailed' \in BOOLEAN
    BY Zenon DEF FlagTypes, Next, vars, Create, AddKey, AddValue, DropWriter, Flush,
       CreateKv, WriteKv, RemoveTmp, OpenKv, CreateBt, WriteBt, CreateKvei, WriteKvei,
       ReturnOk, Kill
  <2>3. upset' \in BOOLEAN
    BY Zenon DEF FlagTypes, Next, vars, Create, AddKey, AddValue, DropWriter, Flush,
       CreateKv, WriteKv, RemoveTmp, OpenKv, CreateBt, WriteBt, CreateKvei, WriteKvei,
       ReturnOk, Kill, Fail, Go
  <2> QED BY <2>1, <2>2, <2>3 DEF FlagTypes
<1>3. IndInv => FileTypes /\ WriterTypes
  BY DEF IndInv
<1> QED BY <1>1, <1>2, <1>3, Invariance, PTL DEF Spec, TypeOK

\* What finish returns Ok for is complete and all of it this writer's, whatever failed,
\* or was killed, before (writer/domain.rs:87-111).
THEOREM OkIsComplete == Spec => []OkMeansComplete
<1>1. IndInv => OkMeansComplete
  BY DEF IndInv, KvOK, IndexesOK, OkMeansComplete
<1> QED BY <1>1, Invariance, PTL

\* Without a failure since the last Ok no index lies beside another writer's data, and
\* never, whatever failed or was killed, beside data older than itself.
THEOREM NoStale == Spec => []NoStaleSiblings
<1>1. IndInv => NoStaleSiblings
  BY DEF IndInv, SiblingsOK, Siblings, OrderOK, NoStaleSiblings
<1> QED BY <1>1, Invariance, PTL

\* A temporary file is left behind by nobody but a writer that failed or was killed.
THEOREM NoTmpLeft == Spec => []TmpCleanedUp
<1>1. IndInv => TmpCleanedUp
  BY DEF IndInv, RunOK, TmpOK, Indexing, TmpCleanedUp
<1> QED BY <1>1, Invariance, PTL
=============================================================================
