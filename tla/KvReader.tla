------------------------------- MODULE KvReader -------------------------------
(***************************************************************************)
(* Point lookup in one file set: KvReader::get over a .kv of sorted keys,  *)
(* its optional .bt index and its optional .kvei filter.                   *)
(*                                                                         *)
(* A reader thread runs get as the code does: the filter's fast negative,  *)
(* then either the index (the di-nodes, parsed by the first lookup that    *)
(* needs them, narrow the search to one block, a binary search probes the  *)
(* .kv inside it) or the ordered scan.  Several threads share one reader;  *)
(* enabling the filter takes it exclusively (&mut self).                   *)
(*                                                                         *)
(* Keys are integers: only their order matters to a lookup.  The value of  *)
(* key number i is represented by i itself, so a wrong value is a wrong i. *)
(*                                                                         *)
(* A .kv with an odd number of words ends in a key without a value word.   *)
(* The .bt and the .kvei are built from the words_count() / 2 pairs, so    *)
(* such a key is in neither: only a scan comes to it.                      *)
(***************************************************************************)
EXTENDS Integers

CONSTANTS
  Reader,       \* threads that share the KvReader
  Key,          \* the keys a lookup may ask for
  MaxKeys,      \* bound: keys in the file
  Fanout,       \* the fanouts M an index may have been built with
  Salt,         \* hash salts
  BuildSalt,    \* the salt the .kvei was built with
  OfferedSalt,  \* the salts a caller resolves and hands to enable_bloom
  HashValue,    \* murmur3 values
  Hash,         \* Hash[k, s]: the hash of key k under salt s
  SampleCap,    \* how many keys enable_bloom samples (64 in the code)
  Empty,        \* the empty value
  NotFound,     \* None: the key is not in the file
  NoSalt        \* the filter is not in use

ASSUME KeyAssumption == Key \subseteq Int
ASSUME BoundAssumption ==
  MaxKeys \in Nat /\ Fanout \subseteq Nat \ {0} /\ SampleCap \in Nat \ {0}
ASSUME HashAssumption ==
  /\ Hash \in [Key \X Salt -> HashValue]
  /\ BuildSalt \in Salt
  /\ OfferedSalt \subseteq Salt
ASSUME NullAssumption ==
  /\ NoSalt \notin Salt
  /\ Empty \notin Nat /\ NotFound \notin Nat /\ Empty # NotFound

VARIABLES
  count,        \* keys in the .kv
  keys,         \* keys[i]: key number i of the .kv
  odd,          \* the last key has no value word
  layout,       \* of the .bt: "absent", "empty", "legacy", "footer", "unparsable"
  fanout,       \* M, as the footer of the .bt records it
  accelerating, \* the .kvei is there and is a supported bloom filter
  accepted,     \* the hash values the filter contains
  salt,         \* the salt lookups use, once a filter has been validated
  nodes,        \* OnceLock of the di-nodes: "unset", "parsing", "some", "none"
  pc,           \* pc[r]: where thread r is in get
  key,          \* key[r]: the key it looks up
  lo, hi,       \* lo[r], hi[r]: its search range, of node or of key numbers
  reply         \* reply[r]: what get returns

fileVars == <<count, keys, odd, layout, fanout, accelerating, accepted>>
vars == <<fileVars, salt, nodes, pc, key, lo, hi, reply>>

Layout == {"absent", "empty", "legacy", "footer", "unparsable"}
Place == {"idle", "filter", "nodes", "parse", "upper", "probe", "scan", "done"}

(***************************************************************************)
(* The files.                                                              *)
(***************************************************************************)
Sorted == \A i, j \in 0 .. count - 1 : i < j => keys[i] < keys[j]

\* A key at the very end of the .kv, without a value word, reads as empty.
ValueAt(i) == IF odd /\ i = count - 1 THEN Empty ELSE i

\* What the writers of the .bt and of the .kvei take from the .kv.
Pairs == IF odd THEN count - 1 ELSE count

\* The keys a lookup can come to: those of the index, or all of them in a scan.
Reach == IF layout = "absent" THEN count ELSE Pairs

\* Mutant: the node of the last, partial block is forgotten.
NodeCountFloor == Pairs \div fanout

\* Node j of the .bt is key number j * M.
NodeCount == (Pairs + fanout - 1) \div fanout
NodeKey(j) == keys[j * fanout]

\* Mutant: one sample too few.
SampledShort ==
  LET n == IF SampleCap < Reach THEN SampleCap ELSE Reach
  IN  IF layout = "absent" THEN 0 .. n - 2
                           ELSE {(s * Reach) \div n : s \in 0 .. n - 2}

\* The key numbers sample_keys picks: spread over an index, else the first ones.
Sampled ==
  LET n == IF SampleCap < Reach THEN SampleCap ELSE Reach
  IN  IF layout = "absent" THEN 0 .. n - 1
                           ELSE {(s * Reach) \div n : s \in 0 .. n - 1}

Contains(k, s) == Hash[k, s] \in accepted

Mid(r) == lo[r] + (hi[r] - lo[r]) \div 2

Init ==
  /\ count \in 0 .. MaxKeys
  /\ keys \in [0 .. count - 1 -> Key]
  /\ Sorted
  /\ odd \in BOOLEAN /\ (odd => count > 0)
  /\ layout \in Layout
  /\ Pairs = 0 => layout \in {"absent", "empty"}
  /\ layout = "empty" => Pairs = 0
  /\ fanout \in Fanout
  /\ accelerating \in BOOLEAN /\ (accelerating => Pairs >= 2)
  /\ accepted \in SUBSET HashValue
  /\ \A i \in 0 .. Pairs - 1 : Contains(keys[i], BuildSalt)
  /\ salt = NoSalt
  /\ nodes = IF layout \in {"footer", "unparsable"} THEN "unset" ELSE "none"
  /\ pc = [r \in Reader |-> "idle"]
  /\ key \in [Reader -> Key]
  /\ lo = [r \in Reader |-> 0]
  /\ hi = [r \in Reader |-> 0]
  /\ reply = [r \in Reader |-> NotFound]

Goto(r, place) == pc' = [pc EXCEPT ![r] = place]

Search(r, place, from, to) ==
  /\ Goto(r, place)
  /\ lo' = [lo EXCEPT ![r] = from]
  /\ hi' = [hi EXCEPT ![r] = to]

Finish(r, answer) ==
  /\ Search(r, "done", 0, 0)
  /\ reply' = [reply EXCEPT ![r] = answer]
  /\ UNCHANGED <<fileVars, salt, nodes, key>>

(***************************************************************************)
(* enable_bloom: the resolved salt is taken into use iff every sampled key *)
(* hits the filter under it; otherwise the reader is left as it was.       *)
(***************************************************************************)
EnableBloom(s) ==
  /\ \A r \in Reader : pc[r] = "idle"
  /\ accelerating
  /\ Sampled # {}
  /\ \A i \in Sampled : Contains(keys[i], s)
  /\ salt' = s
  /\ UNCHANGED <<fileVars, nodes, pc, key, lo, hi, reply>>

(***************************************************************************)
(* get.                                                                    *)
(***************************************************************************)
Get(r, k) ==
  /\ pc[r] = "idle"
  /\ Goto(r, "filter")
  /\ key' = [key EXCEPT ![r] = k]
  /\ reply' = [reply EXCEPT ![r] = NotFound]
  /\ UNCHANGED <<fileVars, salt, nodes, lo, hi>>

Excluded(r) == salt # NoSalt /\ accelerating /\ ~Contains(key[r], salt)

FastNegative(r) ==
  /\ pc[r] = "filter"
  /\ Excluded(r) \/ layout = "empty"
  /\ Finish(r, NotFound)

Dispatch(r) ==
  /\ pc[r] = "filter"
  /\ ~Excluded(r)
  /\ layout # "empty"
  /\ Search(r, IF layout = "absent" THEN "scan" ELSE "nodes", 0, 0)
  /\ UNCHANGED <<fileVars, salt, nodes, key, reply>>

\* OnceLock::get_or_init: one thread runs the closure, the others wait for it.
StartParse(r) ==
  /\ pc[r] = "nodes"
  /\ nodes = "unset"
  /\ nodes' = "parsing"
  /\ Goto(r, "parse")
  /\ UNCHANGED <<fileVars, salt, key, lo, hi, reply>>

Parse(r) ==
  /\ pc[r] = "parse"
  /\ nodes' = IF layout = "footer" THEN "some" ELSE "none"
  /\ Goto(r, "nodes")
  /\ UNCHANGED <<fileVars, salt, key, lo, hi, reply>>

NarrowWithNodes(r) ==
  /\ pc[r] = "nodes"
  /\ nodes = "some"
  /\ Search(r, "upper", 0, NodeCount)
  /\ UNCHANGED <<fileVars, salt, nodes, key, reply>>

NoNarrowing(r) ==
  /\ pc[r] = "nodes"
  /\ nodes = "none"
  /\ Search(r, "probe", 0, Pairs)
  /\ UNCHANGED <<fileVars, salt, nodes, key, reply>>

\* Mutant: the first node not below the key, instead of the first above it.
LowerStep(r) ==
  /\ pc[r] = "upper"
  /\ lo[r] < hi[r]
  /\ IF NodeKey(Mid(r)) < key[r]
       THEN lo' = [lo EXCEPT ![r] = Mid(r) + 1] /\ UNCHANGED hi
       ELSE hi' = [hi EXCEPT ![r] = Mid(r)] /\ UNCHANGED lo
  /\ UNCHANGED <<fileVars, salt, nodes, pc, key, reply>>

\* One turn of upper_bound's loop over the node keys.
UpperStep(r) ==
  /\ pc[r] = "upper"
  /\ lo[r] < hi[r]
  /\ IF NodeKey(Mid(r)) <= key[r]
       THEN lo' = [lo EXCEPT ![r] = Mid(r) + 1] /\ UNCHANGED hi
       ELSE hi' = [hi EXCEPT ![r] = Mid(r)] /\ UNCHANGED lo
  /\ UNCHANGED <<fileVars, salt, nodes, pc, key, reply>>

BlockStart(j) == (j - 1) * fanout
BlockEnd(j) == IF j * fanout < Pairs THEN j * fanout ELSE Pairs

\* The first node above the key is number lo[r]: search the block before it.
Narrow(r) ==
  /\ pc[r] = "upper"
  /\ lo[r] >= hi[r]
  /\ IF lo[r] = 0 THEN Search(r, "probe", 0, 0)
                  ELSE Search(r, "probe", BlockStart(lo[r]), BlockEnd(lo[r]))
  /\ UNCHANGED <<fileVars, salt, nodes, key, reply>>

\* Mutant: the lower bound is set to the probe and never passes it.
ProbeStuck(r) ==
  /\ pc[r] = "probe"
  /\ lo[r] < hi[r]
  /\ keys[Mid(r)] # key[r]
  /\ IF keys[Mid(r)] < key[r]
       THEN lo' = [lo EXCEPT ![r] = Mid(r)] /\ UNCHANGED hi
       ELSE hi' = [hi EXCEPT ![r] = Mid(r)] /\ UNCHANGED lo
  /\ UNCHANGED <<fileVars, salt, nodes, pc, key, reply>>

ProbeStep(r) ==
  /\ pc[r] = "probe"
  /\ lo[r] < hi[r]
  /\ keys[Mid(r)] # key[r]
  /\ IF keys[Mid(r)] < key[r]
       THEN lo' = [lo EXCEPT ![r] = Mid(r) + 1] /\ UNCHANGED hi
       ELSE hi' = [hi EXCEPT ![r] = Mid(r)] /\ UNCHANGED lo
  /\ UNCHANGED <<fileVars, salt, nodes, pc, key, reply>>

\* Mutant: the value is read at the start of the range, not after the probed key.
ProbeHitElsewhere(r) ==
  /\ pc[r] = "probe"
  /\ lo[r] < hi[r]
  /\ keys[Mid(r)] = key[r]
  /\ Finish(r, ValueAt(lo[r]))

ProbeHit(r) ==
  /\ pc[r] = "probe"
  /\ lo[r] < hi[r]
  /\ keys[Mid(r)] = key[r]
  /\ Finish(r, ValueAt(Mid(r)))

ProbeMiss(r) ==
  /\ pc[r] = "probe"
  /\ lo[r] >= hi[r]
  /\ Finish(r, NotFound)

\* The scan's cursor is lo[r]; a smaller key is passed over with its value.
ScanStep(r) ==
  /\ pc[r] = "scan"
  /\ lo[r] < count
  /\ keys[lo[r]] < key[r]
  /\ lo' = [lo EXCEPT ![r] = lo[r] + 1]
  /\ UNCHANGED <<fileVars, salt, nodes, pc, key, hi, reply>>

ScanHit(r) ==
  /\ pc[r] = "scan"
  /\ lo[r] < count
  /\ keys[lo[r]] = key[r]
  /\ Finish(r, ValueAt(lo[r]))

ScanMiss(r) ==
  /\ pc[r] = "scan"
  /\ lo[r] < count => keys[lo[r]] > key[r]
  /\ Finish(r, NotFound)

Return(r) ==
  /\ pc[r] = "done"
  /\ Goto(r, "idle")
  /\ UNCHANGED <<fileVars, salt, nodes, key, lo, hi, reply>>

\* What thread r does by itself once get has been called.
Run(r) ==
  \/ FastNegative(r) \/ Dispatch(r)
  \/ StartParse(r) \/ Parse(r) \/ NarrowWithNodes(r) \/ NoNarrowing(r)
  \/ UpperStep(r) \/ Narrow(r)
  \/ ProbeStep(r) \/ ProbeHit(r) \/ ProbeMiss(r)
  \/ ScanStep(r) \/ ScanHit(r) \/ ScanMiss(r)
  \/ Return(r)

Next ==
  \/ \E s \in OfferedSalt : EnableBloom(s)
  \/ \E r \in Reader, k \in Key : Get(r, k)
  \/ \E r \in Reader : Run(r)

\* A thread that is inside get is scheduled again and again.
Fairness == \A r \in Reader : WF_vars(Run(r))

Spec == Init /\ [][Next]_vars
FairSpec == Spec /\ Fairness

(***************************************************************************)
(* Properties.                                                             *)
(***************************************************************************)
\* Every variable has the values the code can give it.
TypeOK ==
  /\ count \in 0 .. MaxKeys
  /\ keys \in [0 .. count - 1 -> Key]
  /\ odd \in BOOLEAN /\ (odd => count > 0)
  /\ layout \in Layout
  /\ fanout \in Fanout
  /\ accelerating \in BOOLEAN
  /\ accepted \subseteq HashValue
  /\ salt \in OfferedSalt \cup {NoSalt}
  /\ nodes \in {"unset", "parsing", "some", "none"}
  /\ pc \in [Reader -> Place]
  /\ key \in [Reader -> Key]
  /\ lo \in [Reader -> Nat]
  /\ hi \in [Reader -> Nat]
  /\ reply \in [Reader -> Nat \cup {Empty, NotFound}]

\* No salt in use can hide key number i: the filter holds it under the builder's
\* salt, and under any other when all the keys were among the samples.
Trusted(i) ==
  \/ salt = NoSalt
  \/ salt = BuildSalt /\ i < Pairs
  \/ Reach <= SampleCap
SaltTrusted == \A i \in 0 .. Reach - 1 : Trusted(i)

\* What lookups answer from: the keys they can come to, with their values.
Present(k) == \E i \in 0 .. Reach - 1 : keys[i] = k
Contents ==
  [k \in {keys[i] : i \in 0 .. Reach - 1} |->
     ValueAt(CHOOSE i \in 0 .. Reach - 1 : keys[i] = k)]
Answer(k) == IF Present(k) THEN Contents[k] ELSE NotFound

\* get (reader.rs:407-476) never answers with a value the file does not hold for
\* the key, however the filter's salt was come by: a wrong salt, a fanout that does
\* not divide the key count or an unparsable node section may cost a search, never
\* yield another key's value.
NeverAnotherValue ==
  \A r \in Reader : pc[r] = "done" => reply[r] \in {NotFound, Answer(key[r])}

\* Nor does it miss a key it can come to and whose salt is trusted: every pair of
\* the file under the builder's salt, through the index or the scan, and every key
\* under whatever salt was accepted when the file has no more keys than
\* enable_bloom samples (reader.rs:137-146).  A last key without a value word is
\* reached by a scan only, and there the builder's salt may hide it.
NeverMissed ==
  \A r \in Reader : pc[r] = "done" =>
    \A i \in 0 .. Reach - 1 :
      keys[i] = key[r] /\ Trusted(i) => reply[r] # NotFound

\* The node search has only passed nodes on the known side of the key.
UpperOK(r) ==
  pc[r] = "upper" =>
    /\ nodes = "some"
    /\ lo[r] <= hi[r] /\ hi[r] <= NodeCount
    /\ \A j \in 0 .. NodeCount - 1 : j < lo[r] => NodeKey(j) <= key[r]
    /\ \A j \in 0 .. NodeCount - 1 : j >= hi[r] => NodeKey(j) > key[r]

\* So has the binary search, and the block the nodes narrowed it to.
ProbeOK(r) ==
  pc[r] = "probe" =>
    /\ hi[r] <= Pairs
    /\ \A i \in 0 .. Pairs - 1 : i < lo[r] => keys[i] < key[r]
    /\ \A i \in 0 .. Pairs - 1 : i >= hi[r] => keys[i] > key[r]

\* So has the scan.
ScanOK(r) ==
  pc[r] = "scan" =>
    /\ lo[r] <= count
    /\ \A i \in 0 .. count - 1 : i < lo[r] => keys[i] < key[r]

\* What keeps the three searches right: whatever their bounds have left behind is
\* on the known side of the key (btree.rs:148-181, reader.rs:430-476).
SearchKeepsKey == \A r \in Reader : UpperOK(r) /\ ProbeOK(r) /\ ScanOK(r)

(***************************************************************************)
(* A KvReader whose salt is trusted implements the abstract point lookup   *)
(* over the keys its lookups can come to.                                  *)
(***************************************************************************)
Phase(r) == CASE pc[r] = "idle" -> "idle"
              [] pc[r] = "done" -> "answered"
              [] OTHER -> "asked"

PL == INSTANCE PointLookup WITH
        Client <- Reader,
        contents <- Contents,
        phase <- [r \in Reader |-> Phase(r)]

\* Every lookup is one atomic reading of the contents, and every lookup ends:
\* the abstract specification, its fairness included.
ImplementsPointLookup == PL!Spec
=============================================================================
