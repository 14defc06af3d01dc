---------------------------- MODULE KvReaderProofs ----------------------------
(***************************************************************************)
(* Proofs about KvReader, for every set of threads, keys and salts, every  *)
(* hash function, every file size and every fanout.                        *)
(***************************************************************************)
EXTENDS KvReader, TLAPS

\* Euclidean division, as the rounding of mid and of node counts needs it.
LEMMA Division ==
  ASSUME NEW a \in Nat, NEW b \in Nat \ {0}
  PROVE  /\ a \div b \in Nat
         /\ (a \div b) * b <= a
         /\ a < (a \div b) * b + b
BY SMT

\* A smaller node number is at least one whole fanout away.
LEMMA MultipleMonotone ==
  ASSUME NEW i \in Nat, NEW j \in Nat, NEW b \in Nat \ {0}, i < j
  PROVE  i * b + b <= j * b
<1>1. PICK d \in Nat : j = i + 1 + d
  <2>1. j - i - 1 \in Nat /\ j = i + 1 + (j - i - 1)
    OBVIOUS
  <2> QED BY <2>1
<1>2. j * b = i * b + b + d * b
  BY <1>1, SMT
<1>3. d * b \in Nat /\ i * b \in Nat
  BY SMT
<1> QED BY <1>2, <1>3

\* Dividing a multiple gives the factor back.
LEMMA DivideMultiple ==
  ASSUME NEW s \in Nat, NEW b \in Nat \ {0}
  PROVE  (s * b) \div b = s
<1> DEFINE q == (s * b) \div b
<1>1. s * b \in Nat
  BY SMT
<1>2. q \in Nat /\ q * b <= s * b /\ s * b < q * b + b
  BY <1>1, Division
<1>3. ~ (q < s)
  BY <1>2, MultipleMonotone, <1>1, SMT
<1>4. ~ (s < q)
  BY <1>2, MultipleMonotone, <1>1, SMT
<1> HIDE DEF q
<1>5. q = s
  BY <1>2, <1>3, <1>4
<1> QED BY <1>5 DEF q

(***************************************************************************)
(* The inductive invariant.                                                *)
(***************************************************************************)
\* The files are what a writer leaves: sorted keys, and each that has a value
\* word in the filter under the builder's salt; and a salt in use passed the
\* sampled validation.
FilesOK ==
  /\ Sorted
  /\ \A i \in 0 .. Pairs - 1 : Contains(keys[i], BuildSalt)
  /\ layout = "empty" => Pairs = 0
  /\ salt # NoSalt => \A i \in Sampled : Contains(keys[i], salt)

\* Where a thread is tells which index the file has.
PlaceOK(r) ==
  /\ pc[r] \in {"nodes", "parse", "upper", "probe"} => layout # "absent"
  /\ pc[r] = "scan" => layout = "absent"
PlacesOK == \A r \in Reader : PlaceOK(r)

\* A right answer for k: nothing but its value, and its value when k is one of
\* the keys no salt in use can hide.
Right(k, answer) ==
  /\ answer \in {NotFound, Answer(k)}
  /\ \A i \in 0 .. Reach - 1 : keys[i] = k /\ Trusted(i) => answer = Answer(k)

ReplyOK(r) == Right(key[r], reply[r])
RepliesOK == \A r \in Reader : pc[r] = "done" => ReplyOK(r)

\* Only a parse of the footer layout yields nodes.
NodesOK == nodes = "some" => layout = "footer"

IndInv == TypeOK /\ FilesOK /\ NodesOK /\ PlacesOK /\ SearchKeepsKey /\ RepliesOK

(***************************************************************************)
(* Facts about the files.                                                  *)
(***************************************************************************)
\* The numbers and keys the searches compare.
LEMMA Numbers ==
  ASSUME TypeOK
  PROVE  /\ count \in Nat
         /\ Pairs \in Nat /\ Pairs <= count
         /\ Reach \in {count, Pairs}
         /\ fanout \in Nat \ {0}
         /\ \A i \in 0 .. count - 1 : keys[i] \in Int
         /\ \A r \in Reader : key[r] \in Int /\ lo[r] \in Nat /\ hi[r] \in Nat
<1>1. count \in Nat /\ fanout \in Nat \ {0}
  BY BoundAssumption DEF TypeOK
<1>2. Pairs \in Nat /\ Pairs <= count
  <2>1. CASE odd
    <3>1. count > 0 /\ Pairs = count - 1
      BY <2>1 DEF TypeOK, Pairs
    <3> QED BY <1>1, <3>1
  <2>2. CASE ~ odd
    BY <1>1, <2>2 DEF Pairs
  <2> QED BY <2>1, <2>2
<1>3. \A i \in 0 .. count - 1 : keys[i] \in Key
  BY DEF TypeOK
<1>4. \A r \in Reader : key[r] \in Key /\ lo[r] \in Nat /\ hi[r] \in Nat
  BY DEF TypeOK
<1>5. Reach \in {count, Pairs}
  BY DEF Reach
<1> QED BY <1>1, <1>2, <1>3, <1>4, <1>5, KeyAssumption

\* The keys of the index are integers in strictly ascending order.
LEMMA PairsSorted ==
  ASSUME TypeOK, Sorted
  PROVE  /\ \A i \in 0 .. Pairs - 1 : i \in 0 .. count - 1 /\ keys[i] \in Int
         /\ \A i, j \in 0 .. Pairs - 1 : i < j => keys[i] < keys[j]
<1>1. \A i \in 0 .. Pairs - 1 : i \in 0 .. count - 1
  BY Numbers
<1> QED BY <1>1, Numbers DEF Sorted

\* There is a node for every M-th key of the index and for no other.
LEMMA NodeCountFact ==
  ASSUME TypeOK
  PROVE  /\ NodeCount \in Nat
         /\ \A j \in Nat : j < NodeCount => j * fanout \in 0 .. Pairs - 1
         /\ Pairs <= NodeCount * fanout
<1>1. Pairs \in Nat /\ fanout \in Nat \ {0}
  BY Numbers
<1>2. /\ NodeCount \in Nat
      /\ NodeCount * fanout <= Pairs + fanout - 1
      /\ Pairs + fanout - 1 < NodeCount * fanout + fanout
  <2>1. Pairs + fanout - 1 \in Nat
    BY <1>1
  <2> QED BY <1>1, <2>1, Division DEF NodeCount
<1>3. ASSUME NEW j \in Nat, j < NodeCount
      PROVE  j * fanout \in 0 .. Pairs - 1
  <2>1. j * fanout + fanout <= NodeCount * fanout
    BY <1>1, <1>2, <1>3, MultipleMonotone
  <2>2. j * fanout \in Nat /\ NodeCount * fanout \in Nat
    BY <1>1, <1>2, SMT
  <2> QED BY <1>1, <1>2, <2>1, <2>2
<1>4. NodeCount * fanout \in Nat
  BY <1>1, <1>2, SMT
<1> QED BY <1>1, <1>2, <1>3, <1>4

\* A file no larger than the sample is sampled in full.
LEMMA SampledInFull ==
  ASSUME TypeOK, Reach <= SampleCap
  PROVE  0 .. Reach - 1 \subseteq Sampled
<1>1. Reach \in Nat /\ SampleCap \in Nat
  BY Numbers, BoundAssumption
<1>2. (IF SampleCap < Reach THEN SampleCap ELSE Reach) = Reach
  BY <1>1
<1>3. \A s \in 0 .. Reach - 1 : (s * Reach) \div Reach = s
  <2> SUFFICES ASSUME NEW s \in 0 .. Reach - 1 PROVE (s * Reach) \div Reach = s
    OBVIOUS
  <2>1. s \in Nat /\ Reach \in Nat \ {0}
    BY <1>1
  <2> QED BY <2>1, DivideMultiple
<1> QED BY <1>2, <1>3 DEF Sampled

\* No salt in use excludes a key that is trusted under it.
LEMMA TrustedSaltKeepsKeys ==
  ASSUME TypeOK, FilesOK, salt # NoSalt,
         NEW i \in 0 .. Reach - 1, Trusted(i)
  PROVE  Contains(keys[i], salt)
<1>1. Reach \in Nat /\ Pairs \in Nat
  BY Numbers
<1>2. CASE salt = BuildSalt /\ i < Pairs
  <2>1. i \in 0 .. Pairs - 1
    BY <1>1, <1>2
  <2> QED BY <1>2, <2>1 DEF FilesOK
<1>3. CASE Reach <= SampleCap
  BY <1>3, SampledInFull DEF FilesOK
<1> QED BY <1>2, <1>3 DEF Trusted

\* The answer for the key at a position is the value at that position.
LEMMA AnswerAt ==
  ASSUME TypeOK, Sorted, NEW i \in 0 .. Reach - 1
  PROVE  /\ Present(keys[i])
         /\ Answer(keys[i]) = ValueAt(i)
         /\ ValueAt(i) \in Nat \cup {Empty}
<1>1. /\ count \in Nat /\ Reach \in Nat /\ Reach <= count
      /\ keys \in [0 .. count - 1 -> Key]
  BY Numbers DEF TypeOK
<1>2. Present(keys[i])
  BY DEF Present
<1> DEFINE j == CHOOSE h \in 0 .. Reach - 1 : keys[h] = keys[i]
<1>3. j \in 0 .. Reach - 1 /\ keys[j] = keys[i]
  OBVIOUS
<1> HIDE DEF j
<1>4. j = i
  <2>1. i \in 0 .. count - 1 /\ j \in 0 .. count - 1
    BY <1>1, <1>3
  <2>2. keys[i] \in Int /\ keys[j] \in Int
    BY <1>1, <2>1, KeyAssumption
  <2>3. ~ (j < i) /\ ~ (i < j)
    BY <1>3, <2>1, <2>2 DEF Sorted
  <2> QED BY <1>1, <2>1, <2>3
<1>5. Contents[keys[i]] = ValueAt(j)
  BY DEF Contents, j
<1> QED BY <1>1, <1>2, <1>4, <1>5 DEF Answer, ValueAt

\* The answer for a key no lookup comes to, and what is right to give for it.
LEMMA AnswerAbsent ==
  ASSUME NEW k, ~ Present(k)
  PROVE  Answer(k) = NotFound /\ Right(k, NotFound)
BY DEF Answer, Right, Present

\* The value at a key's own position is right.
LEMMA AnswerFound ==
  ASSUME TypeOK, Sorted, NEW i \in 0 .. Reach - 1
  PROVE  /\ Right(keys[i], ValueAt(i))
         /\ ValueAt(i) \in Nat \cup {Empty, NotFound}
BY AnswerAt DEF Right

\* The probe of a binary search lies inside its range.
LEMMA MidInRange ==
  ASSUME NEW a \in Nat, NEW b \in Nat, a < b
  PROVE  /\ a + (b - a) \div 2 \in Nat
         /\ a <= a + (b - a) \div 2
         /\ a + (b - a) \div 2 < b
BY SMT

(***************************************************************************)
(* The invariant holds initially.                                          *)
(***************************************************************************)
LEMMA InitInv == Init => IndInv
<1> SUFFICES ASSUME Init PROVE IndInv
  OBVIOUS
<1> USE DEF Init
<1>1. TypeOK
  BY BoundAssumption DEF TypeOK, Place
<1>2. FilesOK
  BY DEF FilesOK
<1>3. NodesOK /\ PlacesOK
  BY DEF NodesOK, PlacesOK, PlaceOK
<1>4. SearchKeepsKey
  BY DEF SearchKeepsKey, UpperOK, ProbeOK, ScanOK
<1>5. RepliesOK
  BY DEF RepliesOK
<1> QED BY <1>1, <1>2, <1>3, <1>4, <1>5 DEF IndInv

(***************************************************************************)
(* What a step that leaves the files and the salt alone keeps.             *)
(***************************************************************************)
LEMMA FilesKept ==
  ASSUME UNCHANGED <<fileVars, salt>>
  PROVE  /\ FilesOK => FilesOK'
         /\ NodeCount' = NodeCount
         /\ Pairs' = Pairs /\ Reach' = Reach /\ SaltTrusted' = SaltTrusted
         /\ \A i : Trusted(i)' = Trusted(i)
         /\ \A k : Answer(k)' = Answer(k)
<1>1. Pairs' = Pairs /\ Reach' = Reach
  BY DEF fileVars, Pairs, Reach
<1>2. \A i : Trusted(i)' = Trusted(i)
  BY <1>1 DEF Trusted
<1>3. \A k : Answer(k)' = Answer(k)
  BY <1>1 DEF fileVars, Answer, Present, Contents, ValueAt
<1>4. SaltTrusted' = SaltTrusted
  BY <1>1, <1>2 DEF SaltTrusted
<1>5. Sampled' = Sampled /\ NodeCount' = NodeCount
  BY <1>1 DEF fileVars, Sampled, NodeCount
<1>6. FilesOK => FilesOK'
  BY <1>1, <1>5 DEF fileVars, FilesOK, Sorted, Contains
<1> QED BY <1>1, <1>2, <1>3, <1>4, <1>5, <1>6

\* An answer stays right for the key it was given for.
LEMMA RightKept ==
  ASSUME NEW q \in Reader, UNCHANGED <<fileVars, salt>>,
         key'[q] = key[q], Right(key[q], reply'[q])
  PROVE  ReplyOK(q)'
<1>1. Answer(key[q])' = Answer(key[q])
  BY FilesKept DEF fileVars, Answer, Present, Contents, ValueAt
<1>2. Right(key[q], reply[q])'
  BY <1>1, FilesKept DEF fileVars, Right
<1> QED BY <1>2 DEF ReplyOK

\* A thread whose own variables a step leaves alone keeps its part of the
\* invariant, unless the step undoes the parsed nodes.
LEMMA OthersKept ==
  ASSUME NEW q \in Reader,
         UNCHANGED <<fileVars, salt>>,
         nodes = "some" => nodes' = "some",
         pc'[q] = pc[q], key'[q] = key[q], lo'[q] = lo[q], hi'[q] = hi[q],
         reply'[q] = reply[q]
  PROVE  /\ UpperOK(q) => UpperOK(q)'
         /\ ProbeOK(q) => ProbeOK(q)'
         /\ ScanOK(q) => ScanOK(q)'
         /\ ReplyOK(q) => ReplyOK(q)'
         /\ PlaceOK(q) => PlaceOK(q)'
<1>1. UpperOK(q) => UpperOK(q)'
  BY FilesKept DEF fileVars, UpperOK, NodeKey
<1>2. ProbeOK(q) => ProbeOK(q)'
  BY FilesKept DEF fileVars, ProbeOK
<1>3. ScanOK(q) => ScanOK(q)'
  BY DEF fileVars, ScanOK
<1>4. ReplyOK(q) => ReplyOK(q)'
  BY RightKept DEF ReplyOK
<1>5. PlaceOK(q) => PlaceOK(q)'
  BY DEF fileVars, PlaceOK
<1> QED BY <1>1, <1>2, <1>3, <1>4, <1>5

\* An answer given by thread r keeps the whole invariant when it is right.
LEMMA FinishKeeps ==
  ASSUME IndInv, NEW r \in Reader, NEW answer,
         Finish(r, answer),
         answer \in Nat \cup {Empty, NotFound},
         Right(key[r], answer)
  PROVE  IndInv'
<1> USE DEF Finish, Search, Goto
<1>1. TypeOK'
  BY DEF IndInv, TypeOK, Place, fileVars
<1>2. FilesOK'
  BY FilesKept DEF IndInv
<1>3. NodesOK'
  BY DEF IndInv, NodesOK, fileVars
<1>4. \A q \in Reader \ {r} :
        /\ pc'[q] = pc[q] /\ key'[q] = key[q] /\ lo'[q] = lo[q] /\ hi'[q] = hi[q]
        /\ reply'[q] = reply[q]
  BY DEF IndInv, TypeOK
<1>5. pc'[r] = "done" /\ key'[r] = key[r] /\ reply'[r] = answer
  BY DEF IndInv, TypeOK
<1>6. SearchKeepsKey'
  <2>1. UpperOK(r)' /\ ProbeOK(r)' /\ ScanOK(r)'
    BY <1>5 DEF UpperOK, ProbeOK, ScanOK
  <2>2. \A q \in Reader \ {r} : UpperOK(q)' /\ ProbeOK(q)' /\ ScanOK(q)'
    BY <1>4, OthersKept DEF IndInv, SearchKeepsKey
  <2> QED BY <2>1, <2>2 DEF SearchKeepsKey
<1>7. RepliesOK'
  <2>1. ReplyOK(r)'
    BY <1>5, RightKept
  <2>2. \A q \in Reader \ {r} : pc[q] = "done" => ReplyOK(q)'
    BY <1>4, OthersKept DEF IndInv, RepliesOK
  <2> QED BY <1>4, <2>1, <2>2 DEF RepliesOK
<1>8. PlacesOK'
  <2>1. PlaceOK(r)'
    BY <1>5 DEF PlaceOK
  <2> QED BY <1>4, <2>1, OthersKept DEF IndInv, PlacesOK
<1> QED BY <1>1, <1>2, <1>3, <1>6, <1>7, <1>8 DEF IndInv

\* A step inside get keeps the whole invariant when it keeps the types, the parsed
\* nodes and thread r's own place and search right.
LEMMA MoveKeeps ==
  ASSUME IndInv, NEW r \in Reader,
         UNCHANGED <<fileVars, salt>>,
         TypeOK', NodesOK', PlaceOK(r)',
         nodes = "some" => nodes' = "some",
         \A q \in Reader \ {r} :
           /\ pc'[q] = pc[q] /\ key'[q] = key[q] /\ lo'[q] = lo[q]
           /\ hi'[q] = hi[q] /\ reply'[q] = reply[q],
         pc'[r] # "done",
         UpperOK(r)', ProbeOK(r)', ScanOK(r)'
  PROVE  IndInv'
<1>1. FilesOK'
  BY FilesKept DEF IndInv
<1>2. SearchKeepsKey'
  BY OthersKept DEF IndInv, SearchKeepsKey
<1>3. RepliesOK'
  <2>1. \A q \in Reader \ {r} : pc[q] = "done" => ReplyOK(q)'
    BY OthersKept DEF IndInv, RepliesOK
  <2> QED BY <2>1 DEF RepliesOK
<1>4. PlacesOK'
  BY OthersKept DEF IndInv, PlacesOK
<1> QED BY <1>1, <1>2, <1>3, <1>4 DEF IndInv

(***************************************************************************)
(* Each step of a thread keeps the invariant.                              *)
(***************************************************************************)
LEMMA FilterSteps ==
  ASSUME IndInv, NEW r \in Reader, FastNegative(r) \/ Dispatch(r)
  PROVE  IndInv'
<1>1. CASE FastNegative(r)
  <2>1. Right(key[r], NotFound)
    <3>1. CASE layout = "empty"
      <4>1. Reach = 0
        BY <3>1 DEF IndInv, FilesOK, Reach
      <4> QED BY <4>1, AnswerAbsent DEF Present
    <3>2. CASE Excluded(r)
      <4>1. ASSUME NEW i \in 0 .. Reach - 1, keys[i] = key[r], Trusted(i)
            PROVE  FALSE
        <5>1. salt # NoSalt /\ ~ Contains(key[r], salt)
          BY <3>2 DEF Excluded
        <5>2. Contains(keys[i], salt)
          BY <4>1, <5>1, TrustedSaltKeepsKeys DEF IndInv
        <5> QED BY <4>1, <5>1, <5>2
      <4> QED BY <4>1 DEF Right
    <3> QED BY <1>1, <3>1, <3>2 DEF FastNegative
  <2> QED BY <1>1, <2>1, FinishKeeps DEF FastNegative
<1>2. CASE Dispatch(r)
  <2> USE <1>2 DEF Dispatch, Goto, Search
  <2>1. TypeOK'
    BY DEF IndInv, TypeOK, fileVars, Place
  <2>2. NodesOK' /\ PlaceOK(r)'
    BY DEF IndInv, TypeOK, NodesOK, PlacesOK, PlaceOK, fileVars
  <2>3. pc'[r] \in {"scan", "nodes"} /\ lo'[r] = 0
    BY DEF IndInv, TypeOK
  <2>4. UpperOK(r)' /\ ProbeOK(r)' /\ ScanOK(r)'
    <3> HIDE <1>2 DEF Dispatch, Search, Goto
    <3>1. count' \in Nat
      BY <1>2, Numbers DEF IndInv, fileVars, Dispatch
    <3>2. UpperOK(r)' /\ ProbeOK(r)'
      BY <2>3 DEF UpperOK, ProbeOK
    <3>3. lo'[r] <= count'
      BY <2>3, <3>1
    <3>4. ASSUME NEW i \in 0 .. count' - 1, i < lo'[r] PROVE FALSE
      BY <2>3, <3>1, <3>4
    <3> QED BY <3>2, <3>3, <3>4 DEF ScanOK
  <2> QED BY <2>1, <2>2, <2>3, <2>4, MoveKeeps DEF IndInv, TypeOK
<1> QED BY <1>1, <1>2

LEMMA NodesSteps ==
  ASSUME IndInv, NEW r \in Reader,
         StartParse(r) \/ Parse(r) \/ NarrowWithNodes(r) \/ NoNarrowing(r)
  PROVE  IndInv'
<1>1. CASE StartParse(r)
  <2> USE <1>1 DEF StartParse, Goto
  <2>1. TypeOK'
    BY DEF IndInv, TypeOK, fileVars, Place
  <2>2. NodesOK' /\ PlaceOK(r)'
    BY DEF IndInv, TypeOK, NodesOK, PlacesOK, PlaceOK, fileVars
  <2>3. pc'[r] = "parse"
    BY DEF IndInv, TypeOK
  <2>4. UpperOK(r)' /\ ProbeOK(r)' /\ ScanOK(r)'
    BY <2>3 DEF UpperOK, ProbeOK, ScanOK
  <2> QED BY <2>1, <2>2, <2>3, <2>4, MoveKeeps DEF IndInv, TypeOK
<1>2. CASE Parse(r)
  <2> USE <1>2 DEF Parse, Goto
  <2>1. TypeOK'
    BY DEF IndInv, TypeOK, fileVars, Place
  <2>2. NodesOK' /\ PlaceOK(r)' /\ (nodes = "some" => nodes' = "some")
    BY DEF IndInv, TypeOK, NodesOK, PlacesOK, PlaceOK, fileVars
  <2>3. pc'[r] = "nodes"
    BY DEF IndInv, TypeOK
  <2>4. UpperOK(r)' /\ ProbeOK(r)' /\ ScanOK(r)'
    BY <2>3 DEF UpperOK, ProbeOK, ScanOK
  <2> QED BY <2>1, <2>2, <2>3, <2>4, MoveKeeps DEF IndInv, TypeOK
<1>3. CASE NarrowWithNodes(r)
  <2> USE <1>3 DEF NarrowWithNodes, Search, Goto
  <2>1. NodeCount \in Nat
    BY NodeCountFact DEF IndInv
  <2>2. TypeOK'
    BY <2>1 DEF IndInv, TypeOK, fileVars, Place
  <2>3. NodesOK' /\ PlaceOK(r)'
    BY DEF IndInv, TypeOK, NodesOK, PlacesOK, PlaceOK, fileVars
  <2>4. pc'[r] = "upper" /\ lo'[r] = 0 /\ hi'[r] = NodeCount
    BY DEF IndInv, TypeOK
  <2>5. UpperOK(r)' /\ ProbeOK(r)' /\ ScanOK(r)'
    BY <2>1, <2>4, FilesKept DEF UpperOK, ProbeOK, ScanOK
  <2> QED BY <2>2, <2>3, <2>4, <2>5, MoveKeeps DEF IndInv, TypeOK
<1>4. CASE NoNarrowing(r)
  <2> USE <1>4 DEF NoNarrowing, Search, Goto
  <2>1. Pairs \in Nat /\ Pairs' = Pairs
    BY Numbers, FilesKept DEF IndInv
  <2>2. TypeOK'
    BY <2>1 DEF IndInv, TypeOK, fileVars, Place
  <2>3. NodesOK' /\ PlaceOK(r)'
    BY DEF IndInv, TypeOK, NodesOK, PlacesOK, PlaceOK, fileVars
  <2>4. pc'[r] = "probe" /\ lo'[r] = 0 /\ hi'[r] = Pairs
    BY DEF IndInv, TypeOK
  <2>5. UpperOK(r)' /\ ProbeOK(r)' /\ ScanOK(r)'
    BY <2>1, <2>4 DEF UpperOK, ProbeOK, ScanOK
  <2> QED BY <2>2, <2>3, <2>4, <2>5, MoveKeeps DEF IndInv, TypeOK
<1> QED BY <1>1, <1>2, <1>3, <1>4

\* The search of the node keys, and the block it ends in.  A key that lies before
\* the block's first key or not before the next node cannot be the one sought.
LEMMA UpperSteps ==
  ASSUME IndInv, NEW r \in Reader, UpperStep(r) \/ Narrow(r)
  PROVE  IndInv'
<1> DEFINE N == NodeCount
<1>1. /\ Pairs \in Nat /\ fanout \in Nat \ {0} /\ key[r] \in Int
      /\ \A i \in 0 .. Pairs - 1 : keys[i] \in Int
      /\ lo[r] \in Nat /\ hi[r] \in Nat
  BY Numbers, PairsSorted DEF IndInv, FilesOK
<1>2. /\ N \in Nat
      /\ \A j \in Nat : j < N => j * fanout \in 0 .. Pairs - 1
      /\ Pairs <= N * fanout
  BY NodeCountFact DEF IndInv
<1>3. /\ nodes = "some"
      /\ lo[r] <= hi[r] /\ hi[r] <= N
      /\ \A j \in 0 .. N - 1 : j < lo[r] => keys[j * fanout] <= key[r]
      /\ \A j \in 0 .. N - 1 : j >= hi[r] => keys[j * fanout] > key[r]
  BY DEF IndInv, SearchKeepsKey, UpperOK, UpperStep, Narrow, NodeKey
<1>4. \A i, j \in 0 .. Pairs - 1 : i < j => keys[i] < keys[j]
  BY PairsSorted DEF IndInv, FilesOK
<1>5. keys' = keys /\ fanout' = fanout /\ Pairs' = Pairs /\ NodeCount' = N
  BY FilesKept DEF UpperStep, Narrow, fileVars
<1> HIDE DEF N
<1>6. CASE UpperStep(r)
  <2> USE <1>6 DEF UpperStep
  <2>1. Mid(r) \in Nat /\ lo[r] <= Mid(r) /\ Mid(r) < hi[r]
    BY <1>1, MidInRange DEF Mid
  <2>2. TypeOK'
    <3>1. (odd \in BOOLEAN /\ (odd => count > 0))'
      BY DEF IndInv, TypeOK, fileVars
    <3>2. lo' \in [Reader -> Nat] /\ hi' \in [Reader -> Nat]
      BY <2>1 DEF IndInv, TypeOK
    <3> QED BY <3>1, <3>2 DEF IndInv, TypeOK, fileVars
  <2>3. NodesOK' /\ PlaceOK(r)'
    BY DEF IndInv, NodesOK, PlacesOK, PlaceOK, fileVars
  <2>4. key'[r] = key[r] /\ pc'[r] = "upper" /\ nodes' = "some"
    BY <1>3
  <2>5. UpperOK(r)'
    <3> HIDE DEF UpperStep
    <3>1. \A i, j \in 0 .. N - 1 : i < j => keys[i * fanout] < keys[j * fanout]
      <4> SUFFICES ASSUME NEW i \in 0 .. N - 1, NEW j \in 0 .. N - 1, i < j
                   PROVE  keys[i * fanout] < keys[j * fanout]
        OBVIOUS
      <4>1. i * fanout + fanout <= j * fanout
        BY <1>1, <1>2, MultipleMonotone
      <4>2. i * fanout \in 0 .. Pairs - 1 /\ j * fanout \in 0 .. Pairs - 1
        BY <1>2
      <4>3. i * fanout < j * fanout
        BY <1>1, <4>1, <4>2
      <4> QED BY <1>4, <4>2, <4>3
    <3>2. \A j \in 0 .. N - 1 : keys[j * fanout] \in Int
      BY <1>1, <1>2
    <3>3. Mid(r) \in 0 .. N - 1
      BY <1>1, <1>2, <1>3, <2>1
    <3>4. CASE keys[Mid(r) * fanout] <= key[r]
      <4>1. lo'[r] = Mid(r) + 1 /\ hi'[r] = hi[r]
        BY <3>4 DEF IndInv, TypeOK, NodeKey, UpperStep
      <4>2. \A j \in 0 .. N - 1 : j < Mid(r) + 1 => keys[j * fanout] <= key[r]
        BY <1>1, <2>1, <3>1, <3>2, <3>3, <3>4
      <4> QED BY <1>1, <1>2, <1>3, <1>5, <2>1, <2>4, <4>1, <4>2 DEF UpperOK, NodeKey
    <3>5. CASE ~ (keys[Mid(r) * fanout] <= key[r])
      <4>1. lo'[r] = lo[r] /\ hi'[r] = Mid(r)
        BY <3>5 DEF IndInv, TypeOK, NodeKey, UpperStep
      <4>2. \A j \in 0 .. N - 1 : j >= Mid(r) => keys[j * fanout] > key[r]
        BY <1>1, <2>1, <3>1, <3>2, <3>3, <3>5
      <4> QED BY <1>1, <1>2, <1>3, <1>5, <2>1, <2>4, <4>1, <4>2 DEF UpperOK, NodeKey
    <3> QED BY <3>4, <3>5
  <2>6. ProbeOK(r)' /\ ScanOK(r)'
    BY <2>4 DEF ProbeOK, ScanOK
  <2> QED BY <2>2, <2>3, <2>4, <2>5, <2>6, MoveKeeps DEF IndInv, TypeOK
<1>7. CASE Narrow(r)
  <2>1. lo[r] = hi[r]
    BY <1>1, <1>3, <1>7 DEF Narrow
  <2> DEFINE from == IF lo[r] = 0 THEN 0 ELSE BlockStart(lo[r])
             to == IF lo[r] = 0 THEN 0 ELSE BlockEnd(lo[r])
  <2>a. pc' = [pc EXCEPT ![r] = "probe"] /\ UNCHANGED <<fileVars, salt, nodes, key, reply>>
    BY <1>7 DEF Narrow, Search, Goto
  <2>b. lo' = [lo EXCEPT ![r] = from] /\ hi' = [hi EXCEPT ![r] = to]
    BY <1>7 DEF Narrow, Search, Goto
  <2>2. key'[r] = key[r] /\ pc'[r] = "probe" /\ pc[r] = "upper"
    BY <1>7, <2>a DEF IndInv, TypeOK, Narrow
  <2>3. NodesOK' /\ PlaceOK(r)'
    BY <2>2, <2>a DEF IndInv, TypeOK, NodesOK, PlacesOK, PlaceOK, fileVars
  <2>c. ASSUME from \in Nat, to \in Nat PROVE TypeOK'
    BY <2>a, <2>b, <2>c DEF IndInv, TypeOK, fileVars, Place
  <2>d. lo'[r] = from /\ hi'[r] = to
    BY <2>b DEF IndInv, TypeOK
  <2>e. \A q \in Reader \ {r} :
          /\ pc'[q] = pc[q] /\ key'[q] = key[q] /\ lo'[q] = lo[q]
          /\ hi'[q] = hi[q] /\ reply'[q] = reply[q]
    BY <2>a, <2>b DEF IndInv, TypeOK
  <2>4. CASE lo[r] = 0
    <3>1. lo'[r] = 0 /\ hi'[r] = 0
      BY <2>4, <2>d
    <3>2. TypeOK'
      BY <2>4, <2>c
    <3>3. \A i \in 0 .. Pairs - 1 : keys[i] > key[r]
      <4> SUFFICES ASSUME NEW i \in 0 .. Pairs - 1 PROVE keys[i] > key[r]
        OBVIOUS
      <4>1. N > 0
        <5>1. N # 0
          BY <1>1, <1>2, SMT
        <5> QED BY <1>2, <5>1
      <4>2. keys[0] > key[r]
        <5>1. 0 * fanout = 0
          BY <1>1, SMT
        <5> QED BY <1>2, <1>3, <2>1, <2>4, <4>1, <5>1
      <4> QED BY <1>1, <1>4, <4>2
    <3>4. ProbeOK(r)'
      BY <1>1, <1>5, <2>2, <3>1, <3>3 DEF ProbeOK
    <3>5. UpperOK(r)' /\ ScanOK(r)'
      BY <2>2 DEF UpperOK, ScanOK
    <3> QED BY <2>2, <2>3, <2>a, <2>e, <3>2, <3>4, <3>5, MoveKeeps
  <2>5. CASE lo[r] # 0
    <3> DEFINE j == lo[r] - 1
    <3>1. j \in 0 .. N - 1 /\ BlockStart(lo[r]) = j * fanout
      BY <1>1, <1>2, <1>3, <2>5 DEF BlockStart
    <3>2. j * fanout \in 0 .. Pairs - 1 /\ keys[j * fanout] <= key[r]
      <4>1. j \in 0 .. N - 1 /\ j < lo[r]
        BY <1>1, <3>1
      <4> HIDE DEF j
      <4> QED BY <1>2, <1>3, <4>1
    <3>3. lo[r] * fanout \in Nat /\ BlockEnd(lo[r]) \in Nat /\ BlockEnd(lo[r]) <= Pairs
      <4>1. lo[r] * fanout \in Nat
        BY <1>1, SMT
      <4> QED BY <1>1, <4>1 DEF BlockEnd
    <3>4. lo'[r] = j * fanout /\ hi'[r] = BlockEnd(lo[r])
      BY <2>5, <2>d, <3>1
    <3>5. TypeOK'
      BY <2>5, <2>c, <3>1, <3>2, <3>3
    <3> HIDE DEF j
    <3>6. \A i \in 0 .. Pairs - 1 : i < j * fanout => keys[i] < key[r]
      BY <1>1, <1>4, <3>2
    <3>7. \A i \in 0 .. Pairs - 1 : i >= BlockEnd(lo[r]) => keys[i] > key[r]
      <4> SUFFICES ASSUME NEW i \in 0 .. Pairs - 1, i >= BlockEnd(lo[r])
                   PROVE  keys[i] > key[r]
        OBVIOUS
      <4>1. lo[r] * fanout < Pairs /\ lo[r] * fanout <= i
        BY <1>1, <3>3 DEF BlockEnd
      <4>2. lo[r] < N
        <5>1. lo[r] # N
          BY <1>2, <4>1, <1>1, <3>3
        <5> QED BY <1>1, <1>2, <1>3, <5>1
      <4>3. keys[lo[r] * fanout] > key[r]
        BY <1>1, <1>2, <1>3, <2>1, <4>2
      <4> QED BY <1>1, <1>4, <3>3, <4>1, <4>3
    <3>8. ProbeOK(r)'
      BY <1>1, <1>5, <2>2, <3>3, <3>4, <3>6, <3>7 DEF ProbeOK
    <3>9. UpperOK(r)' /\ ScanOK(r)'
      BY <2>2 DEF UpperOK, ScanOK
    <3> QED BY <2>2, <2>3, <2>a, <2>e, <3>5, <3>8, <3>9, MoveKeeps
  <2> QED BY <2>4, <2>5
<1> QED BY <1>6, <1>7

\* The binary search of the .kv.
LEMMA ProbeSteps ==
  ASSUME IndInv, NEW r \in Reader, ProbeStep(r) \/ ProbeHit(r) \/ ProbeMiss(r)
  PROVE  IndInv'
<1>1. /\ Pairs \in Nat /\ key[r] \in Int /\ lo[r] \in Nat /\ hi[r] \in Nat
      /\ \A i \in 0 .. Pairs - 1 : keys[i] \in Int
  BY Numbers, PairsSorted DEF IndInv, FilesOK
<1>2. /\ pc[r] = "probe"
      /\ hi[r] <= Pairs
      /\ \A i \in 0 .. Pairs - 1 : i < lo[r] => keys[i] < key[r]
      /\ \A i \in 0 .. Pairs - 1 : i >= hi[r] => keys[i] > key[r]
  BY DEF IndInv, SearchKeepsKey, ProbeOK, ProbeStep, ProbeHit, ProbeMiss
<1>3. \A i, j \in 0 .. Pairs - 1 : i < j => keys[i] < keys[j]
  BY PairsSorted DEF IndInv, FilesOK
<1>4. lo[r] < hi[r] => Mid(r) \in 0 .. Pairs - 1 /\ lo[r] <= Mid(r) /\ Mid(r) < hi[r]
  BY <1>1, <1>2, MidInRange DEF Mid
<1>8. Reach = Pairs
  BY <1>2 DEF IndInv, PlacesOK, PlaceOK, Reach
<1>5. CASE ProbeStep(r)
  <2>1. /\ UNCHANGED <<fileVars, salt, nodes, pc, key, reply>>
        /\ lo[r] < hi[r] /\ keys[Mid(r)] # key[r]
        /\ \/ keys[Mid(r)] < key[r] /\ lo' = [lo EXCEPT ![r] = Mid(r) + 1] /\ hi' = hi
           \/ ~ (keys[Mid(r)] < key[r]) /\ hi' = [hi EXCEPT ![r] = Mid(r)] /\ lo' = lo
    BY <1>5 DEF ProbeStep
  <2>2. Mid(r) \in Nat
    BY <1>1, <1>4, <2>1
  <2>3. TypeOK'
    <3>1. (odd \in BOOLEAN /\ (odd => count > 0))'
      BY <2>1 DEF IndInv, TypeOK, fileVars
    <3>2. Mid(r) + 1 \in Nat
      BY <2>2
    <3>3. lo' \in [Reader -> Nat] /\ hi' \in [Reader -> Nat]
      BY <2>1, <2>2, <3>2 DEF IndInv, TypeOK
    <3> QED BY <2>1, <3>1, <3>3 DEF IndInv, TypeOK, fileVars
  <2>4. NodesOK' /\ PlaceOK(r)'
    BY <2>1 DEF IndInv, NodesOK, PlacesOK, PlaceOK, fileVars
  <2>5. \A q \in Reader \ {r} : lo'[q] = lo[q] /\ hi'[q] = hi[q]
    BY <2>1 DEF IndInv, TypeOK
  <2>6. keys' = keys /\ Pairs' = Pairs /\ key' = key /\ pc' = pc
    BY <2>1, FilesKept DEF fileVars
  <2>7. ProbeOK(r)'
    <3>1. CASE keys[Mid(r)] < key[r]
      <4>1. lo'[r] = Mid(r) + 1 /\ hi'[r] = hi[r]
        BY <2>1, <3>1 DEF IndInv, TypeOK
      <4>2. \A i \in 0 .. Pairs - 1 : i < Mid(r) + 1 => keys[i] < key[r]
        BY <1>1, <1>3, <1>4, <2>1, <3>1
      <4> QED BY <1>2, <2>6, <4>1, <4>2 DEF ProbeOK
    <3>2. CASE ~ (keys[Mid(r)] < key[r])
      <4>1. lo'[r] = lo[r] /\ hi'[r] = Mid(r)
        BY <2>1, <3>2 DEF IndInv, TypeOK
      <4>2. \A i \in 0 .. Pairs - 1 : i >= Mid(r) => keys[i] > key[r]
        <5>1. keys[Mid(r)] > key[r]
          BY <1>1, <1>4, <2>1, <3>2
        <5> QED BY <1>1, <1>3, <1>4, <2>1, <5>1
      <4>3. Mid(r) <= Pairs
        BY <1>1, <1>4, <2>1
      <4> QED BY <1>2, <2>6, <4>1, <4>2, <4>3 DEF ProbeOK
    <3> QED BY <3>1, <3>2
  <2>8. UpperOK(r)' /\ ScanOK(r)'
    BY <1>2, <2>6 DEF UpperOK, ScanOK
  <2> QED BY <1>2, <2>1, <2>3, <2>4, <2>5, <2>6, <2>7, <2>8, MoveKeeps
<1>6. CASE ProbeHit(r)
  <2>1. lo[r] < hi[r] /\ keys[Mid(r)] = key[r] /\ Finish(r, ValueAt(Mid(r)))
    BY <1>6 DEF ProbeHit
  <2>2. Mid(r) \in 0 .. Reach - 1
    BY <1>4, <1>8, <2>1
  <2>3. Right(key[r], ValueAt(Mid(r))) /\ ValueAt(Mid(r)) \in Nat \cup {Empty, NotFound}
    BY <2>1, <2>2, AnswerFound DEF IndInv, FilesOK
  <2> QED BY <2>1, <2>3, FinishKeeps
<1>7. CASE ProbeMiss(r)
  <2>1. lo[r] >= hi[r] /\ Finish(r, NotFound)
    BY <1>7 DEF ProbeMiss
  <2>2. ~ Present(key[r])
    <3>1. ASSUME NEW i \in 0 .. Pairs - 1 PROVE keys[i] # key[r]
      <4>1. i < lo[r] \/ i >= hi[r]
        BY <1>1, <2>1
      <4> QED BY <1>1, <1>2, <4>1
    <3> QED BY <1>8, <3>1 DEF Present
  <2> QED BY <2>1, <2>2, AnswerAbsent, FinishKeeps
<1> QED BY <1>5, <1>6, <1>7

\* The ordered scan.
LEMMA ScanSteps ==
  ASSUME IndInv, NEW r \in Reader, ScanStep(r) \/ ScanHit(r) \/ ScanMiss(r)
  PROVE  IndInv'
<1>1. /\ count \in Nat /\ key[r] \in Int /\ lo[r] \in Nat
      /\ \A i \in 0 .. count - 1 : keys[i] \in Int
  BY Numbers DEF IndInv
<1>2. /\ pc[r] = "scan"
      /\ lo[r] <= count
      /\ \A i \in 0 .. count - 1 : i < lo[r] => keys[i] < key[r]
  BY DEF IndInv, SearchKeepsKey, ScanOK, ScanStep, ScanHit, ScanMiss
<1>3. \A i, j \in 0 .. count - 1 : i < j => keys[i] < keys[j]
  BY DEF IndInv, FilesOK, Sorted
<1>7. Reach = count
  BY <1>2 DEF IndInv, PlacesOK, PlaceOK, Reach
<1>4. CASE ScanStep(r)
  <2>1. /\ UNCHANGED <<fileVars, salt, nodes, pc, key, hi, reply>>
        /\ lo[r] < count /\ keys[lo[r]] < key[r]
        /\ lo' = [lo EXCEPT ![r] = lo[r] + 1]
    BY <1>4 DEF ScanStep
  <2>2. TypeOK'
    BY <1>1, <2>1 DEF IndInv, TypeOK, fileVars
  <2>3. NodesOK' /\ PlaceOK(r)'
    BY <2>1 DEF IndInv, NodesOK, PlacesOK, PlaceOK, fileVars
  <2>4. lo'[r] = lo[r] + 1 /\ \A q \in Reader \ {r} : lo'[q] = lo[q]
    BY <2>1 DEF IndInv, TypeOK
  <2>5. keys' = keys /\ count' = count /\ key' = key /\ pc' = pc /\ hi' = hi
    BY <2>1 DEF fileVars
  <2>6. ScanOK(r)'
    <3>1. \A i \in 0 .. count - 1 : i < lo[r] + 1 => keys[i] < key[r]
      BY <1>1, <1>2, <2>1
    <3>2. lo[r] + 1 <= count
      BY <1>1, <2>1
    <3> QED BY <2>4, <2>5, <3>1, <3>2 DEF ScanOK
  <2>7. UpperOK(r)' /\ ProbeOK(r)'
    BY <1>2, <2>5 DEF UpperOK, ProbeOK
  <2> QED BY <1>2, <2>1, <2>2, <2>3, <2>4, <2>5, <2>6, <2>7, MoveKeeps
<1>5. CASE ScanHit(r)
  <2>1. lo[r] \in 0 .. count - 1 /\ keys[lo[r]] = key[r] /\ Finish(r, ValueAt(lo[r]))
    BY <1>1, <1>5 DEF ScanHit
  <2>2. Right(key[r], ValueAt(lo[r])) /\ ValueAt(lo[r]) \in Nat \cup {Empty, NotFound}
    BY <1>7, <2>1, AnswerFound DEF IndInv, FilesOK
  <2> QED BY <2>1, <2>2, FinishKeeps
<1>6. CASE ScanMiss(r)
  <2>1. (lo[r] < count => keys[lo[r]] > key[r]) /\ Finish(r, NotFound)
    BY <1>6 DEF ScanMiss
  <2>2. ~ Present(key[r])
    <3>1. ASSUME NEW i \in 0 .. count - 1 PROVE keys[i] # key[r]
      <4>1. CASE i < lo[r]
        BY <1>1, <1>2, <4>1
      <4>2. CASE i >= lo[r]
        <5>1. lo[r] \in 0 .. count - 1 /\ keys[lo[r]] > key[r]
          BY <1>1, <2>1, <4>2
        <5>2. i # lo[r] => keys[lo[r]] < keys[i]
          BY <1>1, <1>3, <4>2, <5>1
        <5> QED BY <1>1, <5>1, <5>2
      <4> QED BY <1>1, <4>1, <4>2
    <3> QED BY <1>7, <3>1 DEF Present
  <2> QED BY <2>1, <2>2, AnswerAbsent, FinishKeeps
<1> QED BY <1>4, <1>5, <1>6

\* A get starts, and a get returns.
LEMMA CallSteps ==
  ASSUME IndInv, NEW r \in Reader, (\E k \in Key : Get(r, k)) \/ Return(r)
  PROVE  IndInv'
<1>1. CASE Return(r)
  <2>1. pc[r] = "done" /\ pc' = [pc EXCEPT ![r] = "idle"]
        /\ UNCHANGED <<fileVars, salt, nodes, key, lo, hi, reply>>
    BY <1>1 DEF Return, Goto
  <2>2. TypeOK'
    BY <2>1 DEF IndInv, TypeOK, fileVars, Place
  <2>3. NodesOK' /\ PlaceOK(r)'
    BY <2>1 DEF IndInv, TypeOK, NodesOK, PlacesOK, PlaceOK, fileVars
  <2>4. pc'[r] = "idle" /\ \A q \in Reader \ {r} : pc'[q] = pc[q]
    BY <2>1 DEF IndInv, TypeOK
  <2>5. UpperOK(r)' /\ ProbeOK(r)' /\ ScanOK(r)'
    BY <2>4 DEF UpperOK, ProbeOK, ScanOK
  <2> QED BY <2>1, <2>2, <2>3, <2>4, <2>5, MoveKeeps
<1>2. CASE \E k \in Key : Get(r, k)
  <2>1. PICK k \in Key : Get(r, k)
    BY <1>2
  <2>2. /\ pc[r] = "idle" /\ pc' = [pc EXCEPT ![r] = "filter"]
        /\ key' = [key EXCEPT ![r] = k] /\ reply' = [reply EXCEPT ![r] = NotFound]
        /\ UNCHANGED <<fileVars, salt, nodes, lo, hi>>
    BY <2>1 DEF Get, Goto
  <2>3. TypeOK'
    BY <2>2 DEF IndInv, TypeOK, fileVars, Place
  <2>4. NodesOK' /\ PlaceOK(r)'
    BY <2>2 DEF IndInv, TypeOK, NodesOK, PlacesOK, PlaceOK, fileVars
  <2>5. /\ pc'[r] = "filter"
        /\ \A q \in Reader \ {r} :
             pc'[q] = pc[q] /\ key'[q] = key[q] /\ reply'[q] = reply[q]
    BY <2>2 DEF IndInv, TypeOK
  <2>6. UpperOK(r)' /\ ProbeOK(r)' /\ ScanOK(r)'
    BY <2>5 DEF UpperOK, ProbeOK, ScanOK
  <2> QED BY <2>2, <2>3, <2>4, <2>5, <2>6, MoveKeeps
<1> QED BY <1>1, <1>2

\* Taking a filter into use: nobody is inside get, and the samples passed.
LEMMA EnableStep ==
  ASSUME IndInv, NEW s \in OfferedSalt, EnableBloom(s)
  PROVE  IndInv'
<1> USE DEF EnableBloom
<1>1. TypeOK'
  BY DEF IndInv, TypeOK, fileVars
<1>2. FilesOK'
  BY DEF IndInv, FilesOK, fileVars, Sorted, Contains, Sampled, Pairs, Reach
<1>3. NodesOK' /\ PlacesOK'
  BY DEF IndInv, NodesOK, PlacesOK, PlaceOK, fileVars
<1>4. SearchKeepsKey' /\ RepliesOK'
  BY DEF SearchKeepsKey, UpperOK, ProbeOK, ScanOK, RepliesOK
<1> QED BY <1>1, <1>2, <1>3, <1>4 DEF IndInv

(***************************************************************************)
(* The theorems.                                                           *)
(***************************************************************************)
LEMMA StepInv == IndInv /\ [Next]_vars => IndInv'
<1> SUFFICES ASSUME IndInv, [Next]_vars PROVE IndInv'
  OBVIOUS
<1>1. CASE UNCHANGED vars
  <2>1. UNCHANGED <<fileVars, salt, nodes, pc, key, lo, hi, reply>>
    BY <1>1 DEF vars
  <2>2. TypeOK'
    BY <2>1 DEF IndInv, TypeOK, fileVars
  <2>3. FilesOK' /\ NodesOK'
    BY <2>1, FilesKept DEF IndInv, NodesOK, fileVars
  <2>4. SearchKeepsKey' /\ RepliesOK' /\ PlacesOK'
    BY <2>1, OthersKept DEF IndInv, SearchKeepsKey, RepliesOK, PlacesOK
  <2> QED BY <2>2, <2>3, <2>4 DEF IndInv
<1>2. CASE \E s \in OfferedSalt : EnableBloom(s)
  BY <1>2, EnableStep
<1>3. CASE \E r \in Reader, k \in Key : Get(r, k)
  BY <1>3, CallSteps
<1>4. CASE \E r \in Reader : Run(r)
  BY <1>4, FilterSteps, NodesSteps, UpperSteps, ProbeSteps, ScanSteps, CallSteps DEF Run
<1> QED BY <1>1, <1>2, <1>3, <1>4 DEF Next

\* The inductive invariant holds in every reachable state.
THEOREM Invariance == Spec => []IndInv
<1>1. Init => IndInv
  BY InitInv
<1>2. IndInv /\ [Next]_vars => IndInv'
  BY StepInv
<1> QED BY <1>1, <1>2, PTL DEF Spec

\* Every variable keeps its type: ranges stay natural numbers, nothing underflows.
THEOREM TypeCorrect == Spec => []TypeOK
<1>1. IndInv => TypeOK
  BY DEF IndInv
<1> QED BY <1>1, Invariance, PTL

\* The bounds of the three searches never leave the key behind.
THEOREM SearchCorrect == Spec => []SearchKeepsKey
<1>1. IndInv => SearchKeepsKey
  BY DEF IndInv
<1> QED BY <1>1, Invariance, PTL

\* get never yields a value the file does not hold for the key.
THEOREM NoAlienValue == Spec => []NeverAnotherValue
<1>1. IndInv => NeverAnotherValue
  BY DEF IndInv, RepliesOK, ReplyOK, Right, NeverAnotherValue
<1> QED BY <1>1, Invariance, PTL

\* get finds every key it can come to that no salt in use can hide: all the pairs
\* of the file under the builder's salt.
THEOREM NoMiss == Spec => []NeverMissed
<1>1. ASSUME IndInv PROVE NeverMissed
  <2> SUFFICES ASSUME NEW r \in Reader, pc[r] = "done",
                      NEW i \in 0 .. Reach - 1, keys[i] = key[r], Trusted(i)
               PROVE  reply[r] # NotFound
    BY DEF NeverMissed
  <2>1. Answer(key[r]) \in Nat \cup {Empty}
    BY <1>1, AnswerAt DEF IndInv, FilesOK
  <2>2. reply[r] = Answer(key[r])
    BY <1>1 DEF IndInv, RepliesOK, ReplyOK, Right
  <2> QED BY <2>1, <2>2, NullAssumption
<1> QED BY <1>1, Invariance, PTL

(***************************************************************************)
(* While the salt is trusted, a reader implements the abstract lookup: the *)
(* step that ends a search is the abstract Answer, and every other step    *)
(* inside get is a stutter.                                                *)
(***************************************************************************)
LEMMA AnswerIsLookup ==
  ASSUME TypeOK, Sorted
  PROVE  \A k : PL!Lookup(k) = Answer(k)
<1>1. DOMAIN Contents = {keys[i] : i \in 0 .. Reach - 1}
  BY DEF Contents
<1>2. \A k : k \in DOMAIN Contents <=> Present(k)
  BY <1>1 DEF Present
<1> QED BY <1>2 DEF PL!Lookup, Answer

LEMMA StepRefines ==
  ASSUME IndInv, IndInv', SaltTrusted, [Next]_vars
  PROVE  [PL!Next]_PL!vars
<1> DEFINE ph == [r \in Reader |-> Phase(r)]
<1>1. Contents' = Contents
  <2>1. ASSUME NEW r \in Reader, Run(r) PROVE UNCHANGED fileVars
    <3>1. CASE FastNegative(r) \/ ProbeHit(r) \/ ProbeMiss(r) \/ ScanHit(r) \/ ScanMiss(r)
      BY <3>1 DEF FastNegative, ProbeHit, ProbeMiss, ScanHit, ScanMiss, Finish
    <3>2. CASE Dispatch(r) \/ StartParse(r) \/ Parse(r) \/ NarrowWithNodes(r) \/ NoNarrowing(r)
      BY <3>2 DEF Dispatch, StartParse, Parse, NarrowWithNodes, NoNarrowing
    <3>3. CASE UpperStep(r) \/ Narrow(r) \/ ProbeStep(r) \/ ScanStep(r) \/ Return(r)
      BY <3>3 DEF UpperStep, Narrow, ProbeStep, ScanStep, Return
    <3> QED BY <2>1, <3>1, <3>2, <3>3 DEF Run
  <2>2. UNCHANGED fileVars
    BY <2>1 DEF Next, EnableBloom, Get, vars
  <2> QED BY <2>2 DEF fileVars, Contents, ValueAt, Reach, Pairs
<1>2. ASSUME UNCHANGED <<pc, key, reply>>
      PROVE  UNCHANGED PL!vars
  BY <1>1, <1>2 DEF PL!vars, Phase
<1>3. ASSUME NEW r \in Reader, NEW k \in Key, Get(r, k)
      PROVE  PL!Next
  <2>1. /\ pc[r] = "idle" /\ pc' = [pc EXCEPT ![r] = "filter"]
        /\ key' = [key EXCEPT ![r] = k] /\ reply' = [reply EXCEPT ![r] = NotFound]
    BY <1>3 DEF Get, Goto
  <2>2. ph[r] = "idle" /\ ph' = [ph EXCEPT ![r] = "asked"]
    BY <2>1 DEF IndInv, TypeOK, Phase
  <2>3. \A d \in Reader \ {r} : key'[d] = key[d] /\ reply'[d] = reply[d]
    BY <2>1 DEF IndInv, TypeOK
  <2>4. PL!Ask(r)
    BY <1>1, <2>2, <2>3 DEF PL!Ask
  <2> QED BY <2>4 DEF PL!Next
<1>4. ASSUME NEW r \in Reader, NEW answer, Finish(r, answer),
             pc[r] \notin {"idle", "done"}
      PROVE  PL!Next
  <2>1. /\ pc' = [pc EXCEPT ![r] = "done"]
        /\ reply' = [reply EXCEPT ![r] = answer]
        /\ key' = key
    BY <1>4 DEF Finish, Search, Goto
  <2>2. ph[r] = "asked" /\ ph' = [ph EXCEPT ![r] = "answered"]
    BY <1>4, <2>1 DEF IndInv, TypeOK, Phase
  <2>3. answer = Answer(key[r])
    <3>1. pc'[r] = "done" /\ reply'[r] = answer /\ key'[r] = key[r]
      BY <2>1 DEF IndInv, TypeOK
    <3>2. SaltTrusted' /\ Answer(key[r])' = Answer(key[r])
      BY <1>4, FilesKept, <2>1 DEF Finish, fileVars, Answer, Present, Contents, ValueAt
    <3>3. reply'[r] = Answer(key[r])'
      <4>1. Right(key[r], reply[r])'
        BY <3>1 DEF IndInv, RepliesOK, ReplyOK
      <4>2. CASE Present(key[r])'
        BY <3>2, <4>1, <4>2 DEF Right, Present, SaltTrusted
      <4>3. CASE ~ Present(key[r])'
        BY <4>1, <4>3 DEF Right, Answer
      <4> QED BY <4>2, <4>3
    <3> QED BY <3>1, <3>2, <3>3
  <2>4. PL!Lookup(key[r]) = answer
    BY <2>3, AnswerIsLookup DEF IndInv, FilesOK
  <2>5. PL!Answer(r)
    BY <1>1, <2>1, <2>2, <2>4 DEF PL!Answer
  <2> QED BY <2>5 DEF PL!Next
<1>5. ASSUME NEW r \in Reader, Return(r)
      PROVE  PL!Next
  <2>1. /\ pc[r] = "done" /\ pc' = [pc EXCEPT ![r] = "idle"]
        /\ key' = key /\ reply' = reply
    BY <1>5 DEF Return, Goto
  <2>2. ph[r] = "answered" /\ ph' = [ph EXCEPT ![r] = "idle"]
    BY <2>1 DEF IndInv, TypeOK, Phase
  <2>3. PL!Return(r)
    BY <1>1, <2>1, <2>2 DEF PL!Return
  <2> QED BY <2>3 DEF PL!Next
<1>6. ASSUME NEW r \in Reader, NEW place, place \notin {"idle", "done"},
             pc[r] \notin {"idle", "done"}, Goto(r, place), UNCHANGED <<key, reply>>
      PROVE  UNCHANGED PL!vars
  <2>1. ph' = ph
    BY <1>6 DEF IndInv, TypeOK, Phase, Goto
  <2> QED BY <1>1, <1>6, <2>1 DEF PL!vars
<1>7. ASSUME NEW r \in Reader, Run(r)
      PROVE  PL!Next \/ UNCHANGED PL!vars
  <2>1. CASE FastNegative(r) \/ ProbeHit(r) \/ ProbeMiss(r) \/ ScanHit(r) \/ ScanMiss(r)
    BY <1>4, <2>1 DEF FastNegative, ProbeHit, ProbeMiss, ScanHit, ScanMiss
  <2>2. CASE Dispatch(r) \/ StartParse(r) \/ Parse(r) \/ NarrowWithNodes(r) \/ NoNarrowing(r)
    BY <1>6, <2>2 DEF Dispatch, StartParse, Parse, NarrowWithNodes, NoNarrowing, Search
  <2>3. CASE Narrow(r)
    BY <1>6, <2>3 DEF Narrow, Search
  <2>4. CASE UpperStep(r) \/ ProbeStep(r) \/ ScanStep(r)
    BY <1>2, <2>4 DEF UpperStep, ProbeStep, ScanStep
  <2>5. CASE Return(r)
    BY <1>5, <2>5
  <2> QED BY <1>7, <2>1, <2>2, <2>3, <2>4, <2>5 DEF Run
<1>8. CASE UNCHANGED vars
  BY <1>2, <1>8 DEF vars
<1>9. CASE \E s \in OfferedSalt : EnableBloom(s)
  BY <1>2, <1>9 DEF EnableBloom
<1> QED BY <1>3, <1>7, <1>8, <1>9 DEF Next

\* A KvReader whose salt is trusted answers every get as PointLookup does.
THEOREM Refinement == Spec /\ []SaltTrusted => PL!Init /\ [][PL!Next]_PL!vars
<1>1. Init => PL!Init
  BY DEF Init, PL!Init, Phase
<1>2. IndInv /\ IndInv' /\ SaltTrusted /\ [Next]_vars => [PL!Next]_PL!vars
  BY StepRefines
<1> QED BY <1>1, <1>2, Invariance, PTL DEF Spec
=============================================================================
