----------------------------- MODULE MergeProofs -----------------------------
(***************************************************************************)
(* Proofs about Merge, for every number of inputs, every choice of files   *)
(* and every set of keys.                                                  *)
(***************************************************************************)
EXTENDS Merge, WellFoundedInduction, TLAPS

(***************************************************************************)
(* The inductive invariant, in named parts.                                *)
(***************************************************************************)
\* A cursor reads ascending: the key in hand is below the keys not yet read.
CursorsOK ==
  \A i \in Input :
    /\ rest[i] \subseteq DOMAIN file[i]
    /\ head[i] # NoKey =>
         head[i] \in DOMAIN file[i] /\ \A k \in rest[i] : head[i] < k

\* Only an input that is to be read on in, or is exhausted, has nothing in hand.
HandsOK ==
  /\ \A i \in advance : head[i] = NoKey
  /\ \A i \in Input \ advance : head[i] = NoKey => rest[i] = {}
  /\ pc \in {"pick", "done", "rejected"} => advance = {}

\* Input i still holds key k: in hand or not yet read.
Pending(i, k) == k \in rest[i] \/ head[i] = k

\* A key is pending unless its round is over, or has taken it from its input.
PendingOK ==
  \A i \in Input : \A k \in DOMAIN file[i] :
    Pending(i, k) <=>
      \/ cur = NoKey
      \/ k > cur
      \/ pc = "gather" /\ k = cur /\ i \notin advance

\* The winner of the round.
BestOK ==
  /\ pc = "gather" =>
       /\ cur # NoKey /\ best \in advance
       /\ \A i \in advance : i <= best /\ cur \in DOMAIN file[i]
  /\ pc = "refill" => cur # NoKey /\ Newest(cur, best)
  /\ pc = "load" => cur = NoKey

\* What has been written: the merge up to the last finished round.
Over(k) == cur # NoKey /\ (k < cur \/ (k = cur /\ pc \notin {"gather", "refill"}))

OutputOK ==
  /\ \A k \in DOMAIN out : k \in DOMAIN Merged /\ out[k] = Merged[k]
  /\ pc # "rejected" => \A k \in DOMAIN Merged : Over(k) => k \in DOMAIN out
  /\ last # NoKey => Over(last)
  /\ \A k \in DOMAIN out : last # NoKey /\ k <= last

IndInv ==
  /\ TypeOK /\ HeadsMatchHeap /\ NeverRejected
  /\ CursorsOK /\ HandsOK /\ PendingOK /\ BestOK /\ OutputOK
  /\ pc = "done" => heap = {}

(***************************************************************************)
(* Facts about the heap and the newest holder of a key.                    *)
(***************************************************************************)
\* A nonempty set of natural numbers has a least element.
LEMMA LeastNat ==
  ASSUME NEW S, S \subseteq Nat, S # {}
  PROVE  \E n \in S : \A m \in S : n <= m
<1> DEFINE R == {ss \in Nat \X Nat : ss[1] < ss[2]}
<1>1. IsWellFoundedOn(R, Nat)
  BY NatLessThanWellFounded DEF OpToRel
<1> HIDE DEF R
<1>2. PICK n \in S : \A m \in S : ~ (<<m, n>> \in R)
  BY <1>1, WFMin
<1>3. \A m \in S : ~ (m < n)
  BY <1>2 DEF R
<1> QED BY <1>3

\* Files are functions from keys to values.
LEMMA FileFacts ==
  ASSUME NEW f \in Files
  PROVE  /\ DOMAIN f \subseteq Key /\ f = [k \in DOMAIN f |-> f[k]]
         /\ \A k \in DOMAIN f : f[k] \in Value
<1>1. PICK ks \in SUBSET Key : f \in [ks -> Value]
  BY DEF Files
<1> QED BY <1>1

\* If the smallest key in the heap is not k, and no key below k is there, k is not.
LEMMA TopIsLeast ==
  ASSUME TypeOK, NEW k \in Key,
         \A e \in heap : k <= e[1],
         \A e \in heap : First(e) => e[1] # k
  PROVE  \A i \in Input : <<k, i>> \notin heap
<1> SUFFICES ASSUME NEW i \in Input, <<k, i>> \in heap PROVE FALSE
  OBVIOUS
<1> DEFINE S == {j \in Input : <<k, j>> \in heap}
<1>1. S \subseteq Nat /\ S # {}
  BY InputAssumption
<1>2. PICK j \in S : \A m \in S : j <= m
  BY <1>1, LeastNat
<1>3. First(<<k, j>>)
  <2>1. ASSUME NEW f \in heap
        PROVE  k < f[1] \/ (k = f[1] /\ j <= f[2])
    <3>1. f[1] \in Key /\ f[2] \in Input /\ f = <<f[1], f[2]>>
      BY DEF TypeOK
    <3>2. k <= f[1] /\ k \in Int /\ f[1] \in Int
      BY <3>1, KeyAssumption
    <3>3. CASE f[1] = k
      BY <1>2, <3>1, <3>3
    <3> QED BY <3>2, <3>3
  <2> QED BY <1>2, <2>1 DEF First
<1> QED BY <1>2, <1>3

\* A key has one newest holder, whose value the merge takes.
LEMMA NewestUnique ==
  ASSUME NEW k, NEW i, Newest(k, i)
  PROVE  NewestValue(k) = file[i][k]
<1> DEFINE j == CHOOSE h \in Input : Newest(k, h)
<1>1. i \in Input /\ j \in Input /\ Newest(k, j)
  BY DEF Newest, Holder
<1> HIDE DEF j
<1>2. i <= j /\ j <= i
  BY <1>1 DEF Newest
<1>3. i = j
  BY <1>1, <1>2, InputAssumption
<1> QED BY <1>3 DEF NewestValue, j

\* A key is in the merge iff an input holds it and it is not dropped.
LEMMA MergedFacts ==
  /\ \A k : k \in DOMAIN Merged <=> (\E i \in Input : k \in DOMAIN file[i]) /\ Kept(k)
  /\ \A k \in DOMAIN Merged : Merged[k] = NewestValue(k)
BY DEF Merged, Keys

\* What only depends on the inputs stays as it is when they do.
LEMMA InputsKept ==
  ASSUME UNCHANGED <<file, dropDeleted, rangeFrom>>
  PROVE  Merged' = Merged /\ \A k, i : Newest(k, i)' <=> Newest(k, i)
BY DEF Merged, Keys, Kept, NewestValue, Newest, Holder

(***************************************************************************)
(* The invariant holds initially.                                          *)
(***************************************************************************)
LEMMA InitInv == Init => IndInv
<1> SUFFICES ASSUME Init PROVE IndInv
  OBVIOUS
<1> USE DEF Init
<1>1. TypeOK
  <2>1. \A i \in Input : DOMAIN file[i] \subseteq Key
    BY FileFacts
  <2>2. best \in Input
    BY InputAssumption
  <2>4. out \in Files
    <3>1. out \in [{} -> Value]
      OBVIOUS
    <3>2. {} \in SUBSET Key
      OBVIOUS
    <3> QED BY <3>1, <3>2 DEF Files
  <2> QED BY <2>1, <2>2, <2>4 DEF TypeOK
<1>2. HeadsMatchHeap
  BY KeyAssumption DEF HeadsMatchHeap
<1>3. NeverRejected /\ CursorsOK /\ HandsOK /\ PendingOK
  BY DEF NeverRejected, CursorsOK, HandsOK, PendingOK, Pending
<1>4. BestOK
  BY DEF BestOK
<1>5. OutputOK
  BY DEF OutputOK, Over
<1> QED BY <1>1, <1>2, <1>3, <1>4, <1>5 DEF IndInv

(***************************************************************************)
(* Each step keeps the invariant.                                          *)
(***************************************************************************)
\* What has been written stays right while the rounds that are over are the same.
LEMMA OutputKept ==
  ASSUME OutputOK, UNCHANGED <<file, dropDeleted, rangeFrom, last, out>>,
         pc # "rejected",
         \A k \in DOMAIN Merged : Over(k)' => Over(k),
         last # NoKey /\ Over(last) => Over(last)'
  PROVE  OutputOK'
<1>1. Merged' = Merged
  BY InputsKept
<1>2. last # NoKey => Over(last)'
  BY DEF OutputOK
<1>3. \A k \in DOMAIN Merged : Over(k)' => k \in DOMAIN out
  BY DEF OutputOK
<1> QED BY <1>1, <1>2, <1>3 DEF OutputOK

LEMMA ReadStep ==
  ASSUME IndInv, NEW i \in Input, ReadPair(i)
  PROVE  IndInv'
<1>1. PICK k \in rest[i] :
        /\ Least(k, rest[i])
        /\ rest' = [rest EXCEPT ![i] = @ \ {k}]
        /\ head' = [head EXCEPT ![i] = k]
        /\ heap' = heap \cup {<<k, i>>}
  BY DEF ReadPair
<1>2. /\ pc \in {"load", "refill"} /\ i \in advance /\ advance' = advance \ {i}
      /\ UNCHANGED <<file, dropDeleted, rangeFrom, pc, cur, best, last, out>>
  BY DEF ReadPair
<1>3. /\ rest'[i] = rest[i] \ {k} /\ head'[i] = k /\ head[i] = NoKey
      /\ \A j \in Input \ {i} : rest'[j] = rest[j] /\ head'[j] = head[j]
      /\ k \in Key /\ k # NoKey /\ k \in DOMAIN file[i]
  BY <1>1, <1>2, KeyAssumption DEF IndInv, TypeOK, HandsOK, CursorsOK
<1>4. TypeOK'
  BY <1>1, <1>2, <1>3 DEF IndInv, TypeOK
<1>5. HeadsMatchHeap'
  BY <1>1, <1>2, <1>3, KeyAssumption DEF IndInv, HeadsMatchHeap
<1>6. CursorsOK'
  <2>1. \A l \in rest[i] \ {k} : k < l
    BY <1>1, <1>3, KeyAssumption DEF Least, IndInv, TypeOK
  <2> QED BY <1>2, <1>3, <2>1 DEF IndInv, CursorsOK
<1>7. HandsOK'
  <2>1. \A j \in advance' : j \in Input \ {i} /\ j \in advance
    BY <1>2 DEF IndInv, TypeOK
  <2>2. \A j \in advance' : head'[j] = NoKey
    BY <1>3, <2>1 DEF IndInv, HandsOK
  <2>3. \A j \in Input \ advance' : head'[j] = NoKey => rest'[j] = {}
    BY <1>2, <1>3 DEF IndInv, HandsOK
  <2> QED BY <1>2, <2>2, <2>3 DEF HandsOK
<1>8. PendingOK'
  <2>1. \A j \in Input, l \in Key : Pending(j, l)' <=> Pending(j, l)
    BY <1>1, <1>3, KeyAssumption DEF Pending
  <2>2. \A j \in Input : DOMAIN file[j] \subseteq Key
    BY FileFacts DEF IndInv, TypeOK
  <2> QED BY <1>2, <2>1, <2>2 DEF IndInv, PendingOK
<1>9. BestOK'
  BY <1>2, InputsKept DEF IndInv, BestOK
<1>10. OutputOK'
  BY <1>2, OutputKept DEF IndInv, Over
<1> QED BY <1>2, <1>4, <1>5, <1>6, <1>7, <1>8, <1>9, <1>10 DEF IndInv, NeverRejected

LEMMA ExhaustedStep ==
  ASSUME IndInv, NEW i \in Input, Exhausted(i)
  PROVE  IndInv'
<1>1. /\ pc \in {"load", "refill"} /\ i \in advance /\ advance' = advance \ {i}
      /\ rest[i] = {}
      /\ UNCHANGED <<file, dropDeleted, rangeFrom, rest, head, heap, pc, cur, best, last, out>>
  BY DEF Exhausted
<1>2. TypeOK' /\ HeadsMatchHeap' /\ CursorsOK'
  BY <1>1 DEF IndInv, TypeOK, HeadsMatchHeap, CursorsOK
<1>3. HandsOK'
  BY <1>1 DEF IndInv, HandsOK
<1>4. PendingOK'
  BY <1>1 DEF IndInv, PendingOK, Pending
<1>5. BestOK'
  BY <1>1, InputsKept DEF IndInv, BestOK
<1>6. OutputOK'
  BY <1>1, OutputKept DEF IndInv, Over
<1> QED BY <1>1, <1>2, <1>3, <1>4, <1>5, <1>6 DEF IndInv, NeverRejected

LEMMA LoadedStep ==
  ASSUME IndInv, Loaded
  PROVE  IndInv'
<1>1. /\ pc = "load" /\ pc' = "pick" /\ advance = {}
      /\ UNCHANGED <<file, dropDeleted, rangeFrom, rest, head, heap, cur, best, advance,
                     last, out>>
  BY DEF Loaded
<1>2. TypeOK' /\ HeadsMatchHeap' /\ CursorsOK' /\ HandsOK'
  BY <1>1 DEF IndInv, TypeOK, HeadsMatchHeap, CursorsOK, HandsOK
<1>3. PendingOK'
  BY <1>1 DEF IndInv, PendingOK, Pending
<1>4. BestOK'
  BY <1>1 DEF IndInv, BestOK
<1>5. OutputOK'
  BY <1>1, OutputKept DEF IndInv, BestOK, Over
<1> QED BY <1>1, <1>2, <1>3, <1>4, <1>5 DEF IndInv, NeverRejected

\* The first heap entry holds the smallest key any input still has.
LEMMA FirstIsSmallest ==
  ASSUME IndInv, NEW e \in heap, First(e), advance = {},
         NEW i \in Input, NEW k \in DOMAIN file[i], Pending(i, k)
  PROVE  e[1] <= k
<1>1. k \in Key /\ k # NoKey
  BY FileFacts, KeyAssumption DEF IndInv, TypeOK
<1>2. head[i] # NoKey /\ head[i] \in Key
  BY <1>1 DEF IndInv, TypeOK, HandsOK, Pending
<1>3. <<head[i], i>> \in heap
  BY <1>2 DEF IndInv, HeadsMatchHeap
<1>4. e[1] <= head[i]
  <2>1. e[1] < head[i] \/ e[1] = head[i]
    BY <1>3 DEF First
  <2>2. e[1] \in Int /\ head[i] \in Int
    BY <1>2, KeyAssumption DEF IndInv, TypeOK
  <2> QED BY <2>1, <2>2
<1>5. head[i] < k \/ head[i] = k
  BY <1>2 DEF IndInv, CursorsOK, Pending
<1>6. e[1] \in Int /\ head[i] \in Int /\ k \in Int
  BY <1>1, <1>2, KeyAssumption DEF IndInv, TypeOK
<1> QED BY <1>4, <1>5, <1>6

LEMMA PickStep ==
  ASSUME IndInv, NEW e \in heap, Pick(e)
  PROVE  IndInv'
<1> DEFINE i == e[2]
           k == e[1]
<1>1. /\ pc = "pick" /\ pc' = "gather" /\ First(e) /\ cur' = k /\ best' = i
      /\ advance' = {i} /\ heap' = heap \ {e} /\ head' = [head EXCEPT ![i] = NoKey]
      /\ UNCHANGED <<file, dropDeleted, rangeFrom, rest, last, out>>
  BY DEF Pick, Pop
<1>2. i \in Input /\ k \in Key /\ e = <<k, i>> /\ k # NoKey /\ k \in Int
  <2>1. e[1] \in Key /\ e[2] \in Input /\ e = <<e[1], e[2]>>
    BY DEF IndInv, TypeOK
  <2>2. \A l \in Key : l \in Int /\ l # NoKey
    BY KeyAssumption
  <2> QED BY <2>1, <2>2
<1>3. head[i] = k /\ k \in DOMAIN file[i] /\ advance = {} /\ k \notin rest[i]
  <2>1. head[i] = k
    BY <1>2 DEF IndInv, HeadsMatchHeap
  <2>2. k \in DOMAIN file[i] /\ \A l \in rest[i] : k < l
    BY <1>2, <2>1 DEF IndInv, CursorsOK
  <2> QED BY <1>1, <1>2, <2>1, <2>2 DEF IndInv, HandsOK
<1>4. head'[i] = NoKey /\ \A j \in Input \ {i} : head'[j] = head[j]
  BY <1>1, <1>2 DEF IndInv, TypeOK
<1>5. \A j \in Input : \A l \in DOMAIN file[j] : Pending(j, l) => k <= l
  BY <1>1, <1>3, FirstIsSmallest
<1>6. cur # NoKey => cur < k
  BY <1>1, <1>2, <1>3 DEF IndInv, PendingOK, Pending
<1>7. \A j \in Input : DOMAIN file[j] \subseteq Key
  BY FileFacts DEF IndInv, TypeOK
<1> HIDE DEF i, k
<1>8. TypeOK'
  BY <1>1, <1>2 DEF IndInv, TypeOK
<1>9. HeadsMatchHeap'
  BY <1>1, <1>2, <1>3, <1>4, KeyAssumption DEF IndInv, HeadsMatchHeap
<1>10. CursorsOK' /\ HandsOK'
  <2>1. CursorsOK'
    BY <1>1, <1>4 DEF IndInv, CursorsOK
  <2>2. HandsOK'
    BY <1>1, <1>2, <1>3, <1>4 DEF IndInv, HandsOK
  <2> QED BY <2>1, <2>2
<1>11. PendingOK'
  <2> SUFFICES ASSUME NEW j \in Input, NEW l \in DOMAIN file[j]
               PROVE  Pending(j, l)' <=> l > k \/ (l = k /\ j # i)
    BY <1>1, <1>2 DEF PendingOK
  <2>1. l \in Key /\ l \in Int /\ l # NoKey
    BY <1>7, KeyAssumption
  <2>2. Pending(j, l)' <=> Pending(j, l) /\ ~ (j = i /\ l = k)
    <3>1. CASE j = i
      BY <1>1, <1>3, <1>4, <2>1, <3>1 DEF Pending
    <3>2. CASE j # i
      BY <1>1, <1>4, <3>2 DEF Pending
    <3> QED BY <3>1, <3>2
  <2>3. Pending(j, l) <=> cur = NoKey \/ l > cur
    BY <1>1 DEF IndInv, PendingOK
  <2>4. Pending(j, l) => k <= l
    BY <1>5
  <2>5. l >= k => Pending(j, l)
    <3>1. cur # NoKey => cur \in Int
      BY KeyAssumption DEF IndInv, TypeOK
    <3> QED BY <1>2, <1>6, <2>1, <2>3, <3>1
  <2> QED BY <1>2, <2>1, <2>2, <2>4, <2>5
<1>12. BestOK'
  <2>1. i <= i
    BY <1>2, InputAssumption
  <2> QED BY <1>1, <1>2, <1>3, <2>1 DEF BestOK
<1>13. OutputOK'
  <2>1. \A l \in DOMAIN Merged : Over(l)' => Over(l)
    <3> SUFFICES ASSUME NEW l \in DOMAIN Merged, Over(l)' PROVE Over(l)
      OBVIOUS
    <3>1. l < k
      BY <1>1 DEF Over
    <3>2. PICK j \in Input : l \in DOMAIN file[j]
      BY MergedFacts
    <3>3. l \in Int /\ ~ Pending(j, l)
      <4>1. l \in Int
        BY <1>7, <3>2, KeyAssumption
      <4> QED BY <1>2, <1>5, <3>1, <3>2, <4>1
    <3>4. cur # NoKey /\ ~ (l > cur)
      BY <3>2, <3>3 DEF IndInv, PendingOK
    <3>5. cur \in Int
      BY <3>4, KeyAssumption DEF IndInv, TypeOK
    <3> QED BY <1>1, <3>3, <3>4, <3>5 DEF Over
  <2>2. last # NoKey /\ Over(last) => Over(last)'
    <3> SUFFICES ASSUME last # NoKey, Over(last) PROVE last < k
      BY <1>1, <1>2 DEF Over
    <3>1. cur # NoKey /\ (last < cur \/ last = cur)
      BY DEF Over
    <3>2. cur \in Int /\ last \in Int
      BY <3>1, KeyAssumption DEF IndInv, TypeOK
    <3> QED BY <1>2, <1>6, <3>1, <3>2
  <2> QED BY <1>1, <2>1, <2>2, OutputKept DEF IndInv
<1> QED BY <1>1, <1>8, <1>9, <1>10, <1>11, <1>12, <1>13 DEF IndInv, NeverRejected

LEMMA GatherSameStep ==
  ASSUME IndInv, NEW e \in heap, GatherSame(e)
  PROVE  IndInv'
<1> DEFINE i == e[2]
<1>1. /\ pc = "gather" /\ pc' = pc /\ e[1] = cur /\ cur' = cur
      /\ best' = (IF i > best THEN i ELSE best)
      /\ advance' = advance \cup {i}
      /\ heap' = heap \ {e} /\ head' = [head EXCEPT ![i] = NoKey]
      /\ UNCHANGED <<file, dropDeleted, rangeFrom, rest, last, out>>
  BY DEF GatherSame, Pop
<1>2. i \in Input /\ e = <<cur, i>> /\ cur \in Key /\ cur # NoKey
  <2>1. e[1] \in Key /\ e[2] \in Input /\ e = <<e[1], e[2]>>
    BY DEF IndInv, TypeOK
  <2>2. \A l \in Key : l # NoKey
    BY KeyAssumption
  <2> QED BY <1>1, <2>1, <2>2
<1> HIDE DEF i
<1>3. head[i] = cur /\ cur \in DOMAIN file[i] /\ cur \notin rest[i]
  <2>1. head[i] = cur
    BY <1>2 DEF IndInv, HeadsMatchHeap
  <2>2. cur \in DOMAIN file[i] /\ \A l \in rest[i] : cur < l
    BY <1>2, <2>1 DEF IndInv, CursorsOK
  <2> QED BY <1>2, <2>1, <2>2, KeyAssumption
<1>4. head'[i] = NoKey /\ \A j \in Input \ {i} : head'[j] = head[j]
  BY <1>1, <1>2 DEF IndInv, TypeOK
<1>5. TypeOK'
  BY <1>1, <1>2 DEF IndInv, TypeOK
<1>6. HeadsMatchHeap'
  <2> SUFFICES ASSUME NEW j \in Input, NEW k \in Key
               PROVE  <<k, j>> \in heap \ {e} <=> head'[j] = k
    BY <1>1 DEF HeadsMatchHeap
  <2>1. (<<k, j>> \in heap <=> head[j] = k) /\ k # NoKey
    BY KeyAssumption DEF IndInv, HeadsMatchHeap
  <2>2. CASE j = i
    BY <1>2, <1>3, <1>4, <2>1, <2>2
  <2>3. CASE j # i
    BY <1>2, <1>4, <2>1, <2>3
  <2> QED BY <2>2, <2>3
<1>7. CursorsOK'
  BY <1>1, <1>4 DEF IndInv, CursorsOK
<1>8. HandsOK'
  <2>1. advance \subseteq Input
    BY DEF IndInv, TypeOK
  <2> QED BY <1>1, <1>2, <1>4, <2>1 DEF IndInv, HandsOK
<1>9. PendingOK'
  <2> SUFFICES ASSUME NEW j \in Input, NEW l \in DOMAIN file[j]
               PROVE  Pending(j, l)' <=> l > cur \/ (l = cur /\ j \notin advance')
    BY <1>1, <1>2 DEF PendingOK
  <2>1. l # NoKey
    BY FileFacts, KeyAssumption DEF IndInv, TypeOK
  <2>2. Pending(j, l)' <=> Pending(j, l) /\ ~ (j = i /\ l = cur)
    <3>1. CASE j = i
      BY <1>1, <1>3, <1>4, <2>1, <3>1 DEF Pending
    <3>2. CASE j # i
      BY <1>1, <1>4, <3>2 DEF Pending
    <3> QED BY <3>1, <3>2
  <2>3. Pending(j, l) <=> l > cur \/ (l = cur /\ j \notin advance)
    BY <1>1, <1>2 DEF IndInv, PendingOK
  <2>4. l \in Int /\ cur \in Int
    BY <1>2, FileFacts, KeyAssumption DEF IndInv, TypeOK
  <2> QED BY <1>1, <2>2, <2>3, <2>4
<1>10. BestOK'
  <2>1. best \in advance /\ \A j \in advance : j <= best /\ cur \in DOMAIN file[j]
    BY <1>1 DEF IndInv, BestOK
  <2>2. i \in Nat /\ best \in Nat /\ \A j \in advance : j \in Nat
    BY <1>2, InputAssumption DEF IndInv, TypeOK
  <2>3. best' \in advance' /\ \A j \in advance' : j <= best'
    BY <1>1, <2>1, <2>2
  <2>4. \A j \in advance' : cur \in DOMAIN file[j]
    BY <1>1, <1>3, <2>1
  <2> QED BY <1>1, <1>2, <2>3, <2>4 DEF BestOK
<1>11. OutputOK'
  BY <1>1, OutputKept DEF IndInv, Over
<1> QED BY <1>1, <1>5, <1>6, <1>7, <1>8, <1>9, <1>10, <1>11 DEF IndInv, NeverRejected

\* When nothing on top of the heap has the round's key, every holder of that key
\* has been taken from, and the best of them is its newest holder.
LEMMA GatheredStep ==
  ASSUME IndInv, Gathered
  PROVE  IndInv'
<1>1. /\ pc = "gather" /\ pc' = "refill"
      /\ \A e \in heap : First(e) => e[1] # cur
      /\ UNCHANGED <<file, dropDeleted, rangeFrom, rest, head, heap, cur, best, advance,
                     last, out>>
  BY DEF Gathered
<1>2. cur # NoKey /\ cur \in Key /\ cur \in Int
  BY <1>1, KeyAssumption DEF IndInv, TypeOK, BestOK
<1>3. \A i \in Input : \A k \in DOMAIN file[i] :
        Pending(i, k) <=> k > cur \/ (k = cur /\ i \notin advance)
  BY <1>1, <1>2 DEF IndInv, PendingOK
<1>4. \A i \in Input : DOMAIN file[i] \subseteq Int
  BY FileFacts, KeyAssumption DEF IndInv, TypeOK
<1>5. \A e \in heap : cur <= e[1]
  <2> SUFFICES ASSUME NEW e \in heap PROVE cur <= e[1]
    OBVIOUS
  <2>1. e[1] \in Key /\ e[2] \in Input /\ e = <<e[1], e[2]>>
    BY DEF IndInv, TypeOK
  <2>2. head[e[2]] = e[1] /\ e[1] # NoKey
    BY <2>1, KeyAssumption DEF IndInv, HeadsMatchHeap
  <2>3. e[1] \in DOMAIN file[e[2]] /\ Pending(e[2], e[1])
    BY <2>1, <2>2 DEF IndInv, CursorsOK, Pending
  <2>4. e[1] > cur \/ e[1] = cur
    BY <1>3, <2>1, <2>3
  <2>5. e[1] \in Int
    BY <2>1, KeyAssumption
  <2> QED BY <1>2, <2>4, <2>5
<1>6. \A i \in Input : head[i] # cur
  <2>1. \A i \in Input : <<cur, i>> \notin heap
    BY <1>1, <1>2, <1>5, TopIsLeast DEF IndInv
  <2> QED BY <1>2, <2>1 DEF IndInv, HeadsMatchHeap
<1>7. \A i \in Input : ~ Pending(i, cur)
  <2> SUFFICES ASSUME NEW i \in Input, Pending(i, cur) PROVE FALSE
    OBVIOUS
  <2>1. cur \in rest[i]
    BY <1>6 DEF Pending
  <2>2. head[i] = NoKey \/ (head[i] \in DOMAIN file[i] /\ head[i] < cur /\ head[i] \in Int)
    BY <1>4, <2>1 DEF IndInv, CursorsOK
  <2>3. CASE head[i] = NoKey
    <3>1. i \in advance
      BY <2>1, <2>3 DEF IndInv, HandsOK
    <3>2. cur \in DOMAIN file[i]
      BY <2>1 DEF IndInv, CursorsOK
    <3> QED BY <1>2, <1>3, <2>1, <3>1, <3>2 DEF Pending
  <2>4. CASE head[i] # NoKey
    <3>1. head[i] > cur \/ head[i] = cur
      BY <1>3, <2>2, <2>4 DEF Pending
    <3> QED BY <1>2, <2>2, <2>4, <3>1
  <2> QED BY <2>3, <2>4
<1>8. Newest(cur, best)
  <2>1. best \in Input /\ best \in advance /\ advance \subseteq Input
        /\ \A j \in advance : j <= best /\ cur \in DOMAIN file[j]
    BY <1>1 DEF IndInv, TypeOK, BestOK
  <2>2. \A j \in Holder(cur) : j \in advance
    BY <1>3, <1>7 DEF Holder
  <2> QED BY <2>1, <2>2 DEF Newest, Holder
<1>9. TypeOK' /\ HeadsMatchHeap' /\ CursorsOK' /\ HandsOK'
  BY <1>1 DEF IndInv, TypeOK, HeadsMatchHeap, CursorsOK, HandsOK
<1>10. PendingOK'
  <2>1. \A i \in Input : \A k \in DOMAIN file[i] : Pending(i, k) <=> k > cur
    BY <1>2, <1>3, <1>4, <1>7
  <2> QED BY <1>1, <1>2, <2>1 DEF PendingOK, Pending
<1>11. BestOK'
  BY <1>1, <1>2, <1>8, InputsKept DEF BestOK
<1>12. OutputOK'
  BY <1>1, OutputKept DEF IndInv, Over
<1> QED BY <1>1, <1>9, <1>10, <1>11, <1>12 DEF IndInv, NeverRejected

\* A deletion is dropped: the key is not in the merge, so nothing is missing.
LEMMA DropStep ==
  ASSUME IndInv, Drop
  PROVE  IndInv'
<1>1. /\ pc = "refill" /\ pc' = "pick" /\ advance = {} /\ Deleted
      /\ UNCHANGED <<file, dropDeleted, rangeFrom, rest, head, heap, cur, best, advance,
                     last, out>>
  BY DEF Drop
<1>2. cur # NoKey /\ Newest(cur, best)
  BY <1>1 DEF IndInv, BestOK
<1>3. ~ Kept(cur)
  BY <1>1, <1>2, NewestUnique DEF Deleted, DropAtZero, Kept
<1>4. TypeOK' /\ HeadsMatchHeap' /\ CursorsOK' /\ HandsOK'
  BY <1>1 DEF IndInv, TypeOK, HeadsMatchHeap, CursorsOK, HandsOK
<1>5. PendingOK'
  BY <1>1 DEF IndInv, PendingOK, Pending
<1>6. BestOK'
  BY <1>1 DEF BestOK
<1>7. OutputOK'
  <2>1. \A k \in DOMAIN Merged : Over(k)' => Over(k)
    BY <1>1, <1>3, MergedFacts DEF Over
  <2>2. last # NoKey /\ Over(last) => Over(last)'
    BY <1>1 DEF Over
  <2> QED BY <1>1, <2>1, <2>2, OutputKept DEF IndInv
<1> QED BY <1>1, <1>4, <1>5, <1>6, <1>7 DEF IndInv, NeverRejected

\* The winner is written: the key is above everything written before.
LEMMA EmitStep ==
  ASSUME IndInv, Emit
  PROVE  IndInv'
<1>1. /\ pc = "refill" /\ advance = {} /\ ~ Deleted
      /\ UNCHANGED <<file, dropDeleted, rangeFrom, rest, head, heap, cur, best, advance>>
  BY DEF Emit
<1>2. cur # NoKey /\ cur \in Key /\ cur \in Int /\ Newest(cur, best)
  BY <1>1, KeyAssumption DEF IndInv, TypeOK, BestOK
<1>3. last # NoKey => last \in Int /\ last < cur
  <2>1. last # NoKey => Over(last) /\ last \in Int
    BY KeyAssumption DEF IndInv, TypeOK, OutputOK
  <2> QED BY <1>1, <2>1 DEF Over
<1>4. /\ pc' = "pick" /\ last' = cur
      /\ out' = [k \in DOMAIN out \cup {cur} |->
                   IF k = cur THEN file[best][cur] ELSE out[k]]
  BY <1>3 DEF Emit
<1>5. best \in Input /\ cur \in DOMAIN file[best] /\ NewestValue(cur) = file[best][cur]
  BY <1>2, NewestUnique DEF Newest, Holder
<1>6. Kept(cur) /\ cur \in DOMAIN Merged /\ Merged[cur] = file[best][cur]
  <2>1. Kept(cur)
    BY <1>1, <1>5 DEF Deleted, DropAtZero, Kept
  <2> QED BY <1>5, <2>1, MergedFacts
<1>7. TypeOK'
  <2>1. out' \in Files
    <3>1. DOMAIN out \subseteq Key /\ \A k \in DOMAIN out : out[k] \in Value
      BY FileFacts DEF IndInv, TypeOK
    <3>2. file[best][cur] \in Value
      BY <1>5, FileFacts DEF IndInv, TypeOK
    <3>3. out' \in [DOMAIN out \cup {cur} -> Value]
      BY <1>4, <3>1, <3>2
    <3>4. DOMAIN out \cup {cur} \in SUBSET Key
      BY <1>2, <3>1
    <3> QED BY <3>3, <3>4 DEF Files
  <2> QED BY <1>1, <1>2, <1>4, <2>1 DEF IndInv, TypeOK
<1>8. HeadsMatchHeap' /\ CursorsOK' /\ HandsOK'
  BY <1>1, <1>4 DEF IndInv, HeadsMatchHeap, CursorsOK, HandsOK
<1>9. PendingOK'
  BY <1>1, <1>4 DEF IndInv, PendingOK, Pending
<1>10. BestOK'
  BY <1>4 DEF BestOK
<1>11. OutputOK'
  <2>1. Merged' = Merged
    BY <1>1, InputsKept
  <2>2. DOMAIN out' = DOMAIN out \cup {cur}
    BY <1>4
  <2>3. \A k \in DOMAIN out' : k \in DOMAIN Merged /\ out'[k] = Merged[k]
    BY <1>4, <1>6, <2>2 DEF IndInv, OutputOK
  <2>4. \A k \in DOMAIN Merged : Over(k)' => k \in DOMAIN out'
    <3>1. \A k \in DOMAIN Merged : Over(k)' => Over(k) \/ k = cur
      BY <1>1, <1>4 DEF Over
    <3> QED BY <1>1, <2>2, <3>1 DEF IndInv, OutputOK
  <2>5. Over(last)'
    BY <1>1, <1>2, <1>4 DEF Over
  <2>6. \A k \in DOMAIN out' : last' # NoKey /\ k <= last'
    <3>1. \A k \in DOMAIN out : last # NoKey /\ k <= last /\ k \in Int
      BY FileFacts, KeyAssumption DEF IndInv, TypeOK, OutputOK
    <3> QED BY <1>2, <1>3, <1>4, <2>2, <3>1
  <2> QED BY <2>1, <2>3, <2>4, <2>5, <2>6 DEF OutputOK
<1> QED BY <1>4, <1>7, <1>8, <1>9, <1>10, <1>11 DEF IndInv, NeverRejected

LEMMA FinishStep ==
  ASSUME IndInv, Finish
  PROVE  IndInv'
<1>1. /\ pc = "pick" /\ pc' = "done" /\ heap = {}
      /\ UNCHANGED <<file, dropDeleted, rangeFrom, rest, head, heap, cur, best, advance,
                     last, out>>
  BY DEF Finish
<1>2. TypeOK' /\ HeadsMatchHeap' /\ CursorsOK' /\ HandsOK'
  BY <1>1 DEF IndInv, TypeOK, HeadsMatchHeap, CursorsOK, HandsOK
<1>3. PendingOK' /\ BestOK'
  BY <1>1 DEF IndInv, PendingOK, Pending, BestOK
<1>4. OutputOK'
  BY <1>1, OutputKept DEF IndInv, Over
<1> QED BY <1>1, <1>2, <1>3, <1>4 DEF IndInv, NeverRejected

LEMMA StepInv == IndInv /\ [Next]_vars => IndInv'
<1> SUFFICES ASSUME IndInv, [Next]_vars PROVE IndInv'
  OBVIOUS
<1>1. CASE UNCHANGED vars
  <2>1. TypeOK' /\ HeadsMatchHeap' /\ NeverRejected' /\ CursorsOK' /\ HandsOK'
    BY <1>1 DEF vars, IndInv, TypeOK, HeadsMatchHeap, NeverRejected, CursorsOK, HandsOK
  <2>2. PendingOK' /\ BestOK'
    BY <1>1, InputsKept DEF vars, IndInv, PendingOK, Pending, BestOK
  <2>3. OutputOK'
    BY <1>1, OutputKept DEF vars, IndInv, NeverRejected, Over
  <2> QED BY <1>1, <2>1, <2>2, <2>3 DEF vars, IndInv
<1>2. CASE Next
  BY <1>2, ReadStep, ExhaustedStep, LoadedStep, PickStep, GatherSameStep,
     GatheredStep, DropStep, EmitStep, FinishStep DEF Next
<1> QED BY <1>1, <1>2

(***************************************************************************)
(* The theorems.                                                           *)
(***************************************************************************)
\* The inductive invariant holds in every reachable state.
THEOREM Invariance == Spec => []IndInv
<1>1. Init => IndInv
  BY InitInv
<1>2. IndInv /\ [Next]_vars => IndInv'
  BY StepInv
<1> QED BY <1>1, <1>2, PTL DEF Spec

\* Every variable has a value the code can give it: a cursor stays inside its input, the
\* heap inside the inputs, the output inside the keys (merge.rs:25-139).
THEOREM TypeCorrect == Spec => []TypeOK
<1>1. IndInv => TypeOK
  BY DEF IndInv
<1> QED BY <1>1, Invariance, PTL

\* A merge never meets a heap entry without its pair.
THEOREM NoPanic == Spec => []HeadsMatchHeap
<1>1. IndInv => HeadsMatchHeap
  BY DEF IndInv
<1> QED BY <1>1, Invariance, PTL

\* The writer never refuses a key of a merge.
THEOREM MergeIsSorted == Spec => []NeverRejected
<1>1. IndInv => NeverRejected
  BY DEF IndInv
<1> QED BY <1>1, Invariance, PTL

\* Between rounds the output is the merge of all keys up to the last round's.
THEOREM PrefixIsMerged == Spec => []PrefixMerged
<1>1. ASSUME IndInv PROVE PrefixMerged
  <2> SUFFICES ASSUME pc = "pick", NEW k \in DOMAIN Merged, cur # NoKey, ~ (k > cur)
               PROVE  k \in DOMAIN out
    BY <1>1 DEF PrefixMerged, IndInv, OutputOK
  <2>1. cur \in Int
    BY <1>1, KeyAssumption DEF IndInv, TypeOK
  <2>2. k \in Int
    BY <1>1, MergedFacts, FileFacts, KeyAssumption DEF IndInv, TypeOK
  <2>3. Over(k)
    BY <2>1, <2>2 DEF Over
  <2> QED BY <1>1, <2>3 DEF IndInv, OutputOK
<1> QED BY <1>1, Invariance, PTL

\* A finished merge is the newest-wins merge of its inputs.
THEOREM MergeIsCorrect == Spec => []MergeCorrect
<1>1. ASSUME IndInv, pc = "done" PROVE out = Merged
  <2>1. \A i \in Input : head[i] = NoKey /\ rest[i] = {}
    BY <1>1 DEF IndInv, TypeOK, HeadsMatchHeap, HandsOK
  <2>2. \A k \in DOMAIN Merged : Over(k)
    <3> SUFFICES ASSUME NEW k \in DOMAIN Merged PROVE Over(k)
      OBVIOUS
    <3>1. PICK i \in Input : k \in DOMAIN file[i]
      BY MergedFacts
    <3>2. k \in Int /\ k # NoKey
      BY <1>1, <3>1, FileFacts, KeyAssumption DEF IndInv, TypeOK
    <3>3. ~ Pending(i, k)
      BY <2>1, <3>2 DEF Pending
    <3>4. cur # NoKey /\ ~ (k > cur)
      BY <1>1, <3>1, <3>3 DEF IndInv, PendingOK
    <3>5. cur \in Int
      BY <1>1, <3>4, KeyAssumption DEF IndInv, TypeOK
    <3> QED BY <1>1, <3>2, <3>4, <3>5 DEF Over
  <2>3. DOMAIN out = DOMAIN Merged /\ \A k \in DOMAIN out : out[k] = Merged[k]
    BY <1>1, <2>2 DEF IndInv, OutputOK
  <2>4. out = [k \in DOMAIN out |-> out[k]]
    BY <1>1, FileFacts DEF IndInv, TypeOK
  <2>5. Merged = [k \in DOMAIN Merged |-> Merged[k]]
    BY DEF Merged
  <2> QED BY <2>3, <2>4, <2>5
<1> QED BY <1>1, Invariance, PTL DEF MergeCorrect
=============================================================================
