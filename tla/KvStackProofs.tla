---------------------------- MODULE KvStackProofs ----------------------------
(***************************************************************************)
(* Proofs about a stack of readers: KvStack, for any number of files,      *)
(* keys, values, lookups and compactions, as long as the ranges of the     *)
(* files opened first are successive; and Memlock, the pinning of its      *)
(* files, for any number of threads, readers and calls, any sizes and any  *)
(* limits.                                                                 *)
(***************************************************************************)
EXTENDS KvStack, Memlock, FiniteSetTheorems, SequenceTheorems, TLAPS

(***************************************************************************)
(* Ranges.  files is a sequence of records with a field range.             *)
(***************************************************************************)
\* Every file has a range, and a longer one than none.
Ranged(files) ==
  \A i \in DOMAIN files :
    files[i].range \in Nat \X Nat /\ files[i].range[1] < files[i].range[2]

\* No two ranges overlap.
Apart(files) ==
  \A i, j \in DOMAIN files : i # j =>
    files[i].range[2] <= files[j].range[1] \/ files[j].range[2] <= files[i].range[1]

\* Each range ends before, or where, the next one starts.
Ascending(files) ==
  \A i, j \in DOMAIN files : i < j => files[i].range[2] <= files[j].range[1]

\* What erigon names its files: ranges that do not overlap.
SuccessiveRanges ==
  \A l \in RangeLists : LET files == [i \in DOMAIN l |-> [range |-> l[i]]]
                        IN  Ranged(files) /\ Apart(files)

(***************************************************************************)
(* Sorting.                                                                *)
(***************************************************************************)
\* The rank of the i-th of n numbers among themselves.
Below(start, n, i) == {j \in 1 .. n : start[j] < start[i]}
Rank(start, n) == [i \in 1 .. n |-> Cardinality(Below(start, n, i))]

\* What is below a number is a part of the n.
LEMMA BelowFacts ==
  ASSUME NEW n \in Nat, NEW start \in [1 .. n -> Nat], NEW i \in 1 .. n
  PROVE  /\ Below(start, n, i) \in SUBSET (1 .. n) /\ i \notin Below(start, n, i)
         /\ IsFiniteSet(Below(start, n, i))
         /\ Rank(start, n)[i] = Cardinality(Below(start, n, i))
         /\ Rank(start, n)[i] \in 0 .. n - 1
<1>1. IsFiniteSet(1 .. n) /\ Cardinality(1 .. n) = n
  BY FS_Interval
<1>2. Below(start, n, i) \in SUBSET (1 .. n) /\ i \notin Below(start, n, i)
  BY DEF Below
<1>3. IsFiniteSet(Below(start, n, i)) /\ Cardinality(Below(start, n, i)) \in Nat
  BY <1>1, <1>2, FS_Subset, FS_CardinalityType
<1>4. Cardinality(Below(start, n, i)) <= n /\ Cardinality(Below(start, n, i)) # n
  BY <1>1, <1>2, FS_Subset
<1>5. Rank(start, n)[i] = Cardinality(Below(start, n, i))
  BY DEF Rank
<1> QED BY <1>2, <1>3, <1>4, <1>5

\* A smaller number has a smaller rank.
LEMMA RankGrows ==
  ASSUME NEW n \in Nat, NEW start \in [1 .. n -> Nat], NEW i \in 1 .. n, NEW j \in 1 .. n,
         start[i] < start[j]
  PROVE  Rank(start, n)[i] < Rank(start, n)[j]
<1>1. Below(start, n, i) \cup {i} \in SUBSET Below(start, n, j)
  BY DEF Below
<1>2. Cardinality(Below(start, n, i) \cup {i}) = Cardinality(Below(start, n, i)) + 1
  BY BelowFacts, FS_AddElement
<1>3. Cardinality(Below(start, n, i) \cup {i}) <= Cardinality(Below(start, n, j))
  BY <1>1, BelowFacts, FS_Subset
<1>4. /\ Rank(start, n)[i] = Cardinality(Below(start, n, i)) /\ Rank(start, n)[i] \in 0 .. n - 1
      /\ Rank(start, n)[j] = Cardinality(Below(start, n, j)) /\ Rank(start, n)[j] \in 0 .. n - 1
  BY BelowFacts
<1> QED BY <1>2, <1>3, <1>4

\* Different numbers have different ranks, from 0 up.
LEMMA Ranks ==
  ASSUME NEW n \in Nat, NEW start \in [1 .. n -> Nat],
         \A i, j \in 1 .. n : i # j => start[i] # start[j]
  PROVE  /\ \A i, j \in 1 .. n : Rank(start, n)[i] = Rank(start, n)[j] => i = j
         /\ \A p \in 1 .. n : \E i \in 1 .. n : Rank(start, n)[i] = p - 1
<1> DEFINE rank == Rank(start, n)
<1>1. \A i \in 1 .. n : rank[i] \in 0 .. n - 1
  BY BelowFacts
<1>2. \A i, j \in 1 .. n : rank[i] = rank[j] => i = j
  <2> SUFFICES ASSUME NEW i \in 1 .. n, NEW j \in 1 .. n, i # j PROVE rank[i] # rank[j]
    OBVIOUS
  <2>1. rank[i] \in Nat /\ rank[j] \in Nat
    BY <1>1
  <2>2. CASE start[i] < start[j]
    <3>1. rank[i] < rank[j]
      BY <2>2, RankGrows
    <3> QED BY <2>1, <3>1
  <2>3. CASE start[j] < start[i]
    <3>1. rank[j] < rank[i]
      BY <2>3, RankGrows
    <3> QED BY <2>1, <3>1
  <2> QED BY <2>2, <2>3
<1>3. rank \in [1 .. n -> 0 .. n - 1]
  <2>1. rank = [i \in 1 .. n |-> rank[i]]
    BY DEF Rank
  <2> HIDE DEF rank
  <2> QED BY <1>1, <2>1
<1>4. rank \in Injection(1 .. n, 0 .. n - 1)
  BY <1>2, <1>3 DEF Injection, IsInjective
<1>5. IsFiniteSet(1 .. n) /\ Cardinality(1 .. n) = n
  BY FS_Interval
<1>6. IsFiniteSet(0 .. n - 1) /\ Cardinality(0 .. n - 1) = n
  <2>1. 0 \in Int /\ n - 1 \in Int
    OBVIOUS
  <2>2. /\ IsFiniteSet(0 .. n - 1)
        /\ Cardinality(0 .. n - 1) = IF 0 > n - 1 THEN 0 ELSE (n - 1) - 0 + 1
    BY <2>1, FS_Interval
  <2> QED BY <2>2
<1> HIDE DEF rank
<1>7. rank \in Surjection(1 .. n, 0 .. n - 1)
  BY <1>4, <1>5, <1>6, FS_Injection
<1>8. \A p \in 1 .. n : p - 1 \in 0 .. n - 1
  OBVIOUS
<1>9. \A p \in 1 .. n : \E i \in 1 .. n : rank[i] = p - 1
  BY <1>7, <1>8 DEF Surjection
<1> QED BY <1>2, <1>9 DEF rank

\* Files whose ranges do not overlap are sorted by where they start.
LEMMA SortsByStart ==
  ASSUME NEW files, DOMAIN files \subseteq Nat, Ranged(files), Apart(files),
         NEW i \in DOMAIN files, NEW j \in DOMAIN files
  PROVE  /\ SortsBefore(files, i, j) <=> files[i].range[1] < files[j].range[1]
         /\ files[i].range[1] < files[j].range[1] => files[i].range[2] <= files[j].range[1]
         /\ i # j => files[i].range[1] # files[j].range[1]
<1>1. /\ files[i].range \in Nat \X Nat /\ files[i].range[1] < files[i].range[2]
      /\ files[j].range \in Nat \X Nat /\ files[j].range[1] < files[j].range[2]
  BY DEF Ranged
<1>2. StepKey(files[i].range) = files[i].range /\ StepKey(files[j].range) = files[j].range
  BY <1>1, RangeAssumption DEF StepKey
<1>3. i # j => files[i].range[2] <= files[j].range[1] \/ files[j].range[2] <= files[i].range[1]
  BY DEF Apart
<1>4. i # j => files[i].range[1] # files[j].range[1]
  BY <1>1, <1>3
<1>5. files[i].range[1] < files[j].range[1] => files[i].range[2] <= files[j].range[1]
  BY <1>1, <1>3
<1>6. SortsBefore(files, i, j) <=> files[i].range[1] < files[j].range[1]
  <2>1. CASE i = j
    BY <1>1, <1>2, <2>1 DEF SortsBefore
  <2>2. CASE i # j
    BY <1>1, <1>2, <1>4, <2>2 DEF SortsBefore
  <2> QED BY <2>1, <2>2
<1> QED BY <1>4, <1>5, <1>6

\* The i-th file comes before as many as start before it.
Starts(files) == [i \in 1 .. Len(files) |-> files[i].range[1]]
RankOf(files, i) == Cardinality({j \in DOMAIN files : SortsBefore(files, j, i)})

LEMMA FileRanks ==
  ASSUME NEW S, NEW files \in Seq(S), Ranged(files), Apart(files)
  PROVE  /\ \A p \in DOMAIN files : \E i \in DOMAIN files : RankOf(files, i) = p - 1
         /\ \A i \in DOMAIN files : RankOf(files, i) \in 0 .. Len(files) - 1
         /\ \A i, j \in DOMAIN files : RankOf(files, i) = RankOf(files, j) => i = j
         /\ \A i, j \in DOMAIN files : RankOf(files, i) < RankOf(files, j) =>
              files[i].range[2] <= files[j].range[1]
<1> DEFINE n == Len(files)
           start == Starts(files)
<1>1. n \in Nat /\ DOMAIN files = 1 .. n
  OBVIOUS
<1>2. \A i \in 1 .. n : start[i] = files[i].range[1] /\ start[i] \in Nat
  BY <1>1 DEF Starts, Ranged
<1>3. start \in [1 .. n -> Nat]
  BY <1>1, <1>2 DEF Starts
<1>4. \A i, j \in 1 .. n : i # j => start[i] # start[j]
  BY <1>1, <1>2, SortsByStart
<1>5. \A i \in 1 .. n : {j \in DOMAIN files : SortsBefore(files, j, i)} = Below(start, n, i)
  <2> TAKE i \in 1 .. n
  <2>1. \A j \in 1 .. n : SortsBefore(files, j, i) <=> start[j] < start[i]
    BY <1>1, <1>2, SortsByStart
  <2> QED BY <1>1, <2>1 DEF Below
<1> HIDE DEF n, start
<1>a. n \in Nat
  BY <1>1 DEF n
<1>6. ASSUME NEW i \in 1 .. n
      PROVE  RankOf(files, i) = Rank(start, n)[i] /\ RankOf(files, i) \in 0 .. n - 1
  <2>1. RankOf(files, i) = Cardinality(Below(start, n, i))
    BY <1>5 DEF RankOf
  <2> QED BY <1>a, <1>3, <2>1, BelowFacts
<1>7. /\ \A i, j \in 1 .. n : RankOf(files, i) = RankOf(files, j) => i = j
      /\ \A p \in 1 .. n : \E i \in 1 .. n : RankOf(files, i) = p - 1
  <2>1. /\ \A i, j \in 1 .. n : Rank(start, n)[i] = Rank(start, n)[j] => i = j
        /\ \A p \in 1 .. n : \E i \in 1 .. n : Rank(start, n)[i] = p - 1
    BY <1>a, <1>3, <1>4, Ranks
  <2> QED BY <1>6, <2>1
<1>8. ASSUME NEW i \in 1 .. n, NEW j \in 1 .. n, RankOf(files, i) < RankOf(files, j)
      PROVE  files[i].range[2] <= files[j].range[1]
  <2>1. RankOf(files, i) \in Nat /\ RankOf(files, j) \in Nat
    BY <1>6
  <2>2. i # j
    BY <1>8, <2>1
  <2>3. ~(start[j] < start[i])
    <3>1. ASSUME start[j] < start[i] PROVE FALSE
      <4>1. RankOf(files, j) < RankOf(files, i)
        BY <1>1, <1>3, <1>6, <3>1, RankGrows
      <4> QED BY <1>8, <2>1, <4>1
    <3> QED BY <3>1
  <2>4. start[i] < start[j]
    BY <1>2, <1>4, <2>2, <2>3
  <2>5. DOMAIN files \subseteq Nat /\ i \in DOMAIN files /\ j \in DOMAIN files
    BY <1>1
  <2>6. files[i].range[1] < files[j].range[1] => files[i].range[2] <= files[j].range[1]
    BY <2>5, SortsByStart
  <2> QED BY <1>2, <2>4, <2>6
<1> QED BY <1>1, <1>6, <1>7, <1>8 DEF n

\* They come out in ascending order, each of them once.
LEMMA SortedAscends ==
  ASSUME NEW S, NEW files \in Seq(S), Ranged(files), Apart(files)
  PROVE  /\ Sorted(files) \in Seq(S) /\ Len(Sorted(files)) = Len(files)
         /\ Ranged(Sorted(files)) /\ Ascending(Sorted(files))
         /\ \A i \in DOMAIN files : \E p \in DOMAIN Sorted(files) : Sorted(files)[p] = files[i]
         /\ \A p \in DOMAIN Sorted(files) : \E i \in DOMAIN files : Sorted(files)[p] = files[i]
<1> DEFINE n == Len(files)
           Place(p) == CHOOSE i \in DOMAIN files : RankOf(files, i) = p - 1
<1>1. n \in Nat /\ DOMAIN files = 1 .. n /\ files \in [1 .. n -> S]
  OBVIOUS
<1>2. \A p \in 1 .. n : Place(p) \in 1 .. n /\ RankOf(files, Place(p)) = p - 1
  BY <1>1, FileRanks
<1>3. Sorted(files) = [p \in 1 .. n |-> files[Place(p)]]
  BY <1>1 DEF Sorted, RankOf
<1> HIDE DEF Place, n
<1>4. \A p \in 1 .. n : Sorted(files)[p] = files[Place(p)]
  BY <1>3
<1>5. Sorted(files) \in [1 .. n -> S]
  BY <1>1, <1>2, <1>3
<1>6. Sorted(files) \in Seq(S) /\ Len(Sorted(files)) = n /\ DOMAIN Sorted(files) = 1 .. n
  BY <1>1, <1>5
<1>7. ASSUME NEW i \in 1 .. n
      PROVE  \E p \in 1 .. n : Sorted(files)[p] = files[i]
  <2>1. RankOf(files, i) \in 0 .. n - 1
    BY <1>1, FileRanks DEF n
  <2> DEFINE p == RankOf(files, i) + 1
  <2>2. p \in 1 .. n /\ p - 1 = RankOf(files, i)
    BY <1>1, <2>1
  <2>3. RankOf(files, Place(p)) = RankOf(files, i) /\ Place(p) \in 1 .. n
    BY <1>2, <2>2
  <2>4. Place(p) = i
    BY <1>1, <2>3, FileRanks
  <2> QED BY <1>4, <2>2, <2>4
<1>8. Ranged(Sorted(files))
  BY <1>1, <1>2, <1>4, <1>6 DEF Ranged
<1>9. ASSUME NEW p \in 1 .. n, NEW q \in 1 .. n, p < q
      PROVE  Sorted(files)[p].range[2] <= Sorted(files)[q].range[1]
  <2>1. RankOf(files, Place(p)) < RankOf(files, Place(q))
    BY <1>2, <1>9
  <2>2. Place(p) \in DOMAIN files /\ Place(q) \in DOMAIN files
    BY <1>1, <1>2
  <2>3. files[Place(p)].range[2] <= files[Place(q)].range[1]
    BY <2>1, <2>2, FileRanks
  <2> QED BY <1>4, <2>3
<1>10. Ascending(Sorted(files))
  BY <1>6, <1>9 DEF Ascending
<1>11. \A p \in 1 .. n : \E i \in 1 .. n : Sorted(files)[p] = files[i]
  BY <1>2, <1>4
<1> QED BY <1>1, <1>6, <1>7, <1>8, <1>10, <1>11 DEF n

(***************************************************************************)
(* Stacks, and the newest file of a stack that holds a key.                *)
(***************************************************************************)
Files ==
  [range : Nat \X Nat, pairs : Pairs, filter : BOOLEAN, lost : SUBSET Key, active : BOOLEAN]

\* The ranges are successive, oldest first.
StackOK(stack) == stack \in Seq(Files) /\ Ranged(stack) /\ Ascending(stack)

\* Pairs are functions from keys to values.
LEMMA PairsFacts ==
  ASSUME NEW f \in Files
  PROVE  DOMAIN f.pairs \subseteq Key /\ \A k \in DOMAIN f.pairs : f.pairs[k] \in Value
<1>1. f.pairs \in Pairs
  BY DEF Files
<1>2. PICK ks \in SUBSET Key : f.pairs \in [ks -> Value]
  BY <1>1 DEF Pairs
<1> QED BY <1>2

\* What a stack is made of.
LEMMA StackFacts ==
  ASSUME NEW stack, StackOK(stack)
  PROVE  /\ Len(stack) \in Nat /\ DOMAIN stack = 1 .. Len(stack)
         /\ \A i \in DOMAIN stack :
              /\ stack[i] \in Files
              /\ stack[i].range \in Nat \X Nat /\ stack[i].range # NoRange
              /\ stack[i].range[1] \in Nat /\ stack[i].range[2] \in Nat
              /\ stack[i].range[1] < stack[i].range[2]
<1>1. Len(stack) \in Nat /\ DOMAIN stack = 1 .. Len(stack)
  BY DEF StackOK
<1>2. \A i \in DOMAIN stack : stack[i] \in Files
  BY DEF StackOK
<1>3. \A i \in DOMAIN stack :
        stack[i].range \in Nat \X Nat /\ stack[i].range[1] < stack[i].range[2]
  BY DEF StackOK, Ranged
<1>4. \A i \in DOMAIN stack : stack[i].range # NoRange
  BY <1>3, RangeAssumption
<1> QED BY <1>1, <1>2, <1>3, <1>4

\* The files of a stack start one after the other.
LEMMA StartsAscend ==
  ASSUME NEW stack, StackOK(stack), NEW i \in DOMAIN stack, NEW j \in DOMAIN stack
  PROVE  /\ i < j <=> stack[i].range[1] < stack[j].range[1]
         /\ i = j <=> stack[i].range[1] = stack[j].range[1]
         /\ i <= j => stack[i].range[2] <= stack[j].range[2]
<1>1. /\ stack[i].range[1] \in Nat /\ stack[i].range[2] \in Nat
      /\ stack[j].range[1] \in Nat /\ stack[j].range[2] \in Nat
      /\ stack[i].range[1] < stack[i].range[2] /\ stack[j].range[1] < stack[j].range[2]
      /\ i \in Nat /\ j \in Nat
  BY StackFacts
<1>2. /\ i < j => stack[i].range[2] <= stack[j].range[1]
      /\ j < i => stack[j].range[2] <= stack[i].range[1]
  BY DEF StackOK, Ascending
<1>3. CASE i < j
  BY <1>1, <1>2, <1>3
<1>4. CASE j < i
  BY <1>1, <1>2, <1>4
<1>5. CASE i = j
  BY <1>1, <1>5
<1> QED BY <1>1, <1>3, <1>4, <1>5

\* A nonempty set of numbers up to n has a greatest one.
LEMMA Greatest ==
  ASSUME NEW n \in Nat, NEW S \in SUBSET (1 .. n), S # {}
  PROVE  Max(S) \in S /\ \A m \in S : m <= Max(S)
<1> DEFINE R == {ss \in Nat \X Nat : ss[1] < ss[2]}
           T == {b \in Nat : \A m \in S : m <= b}
<1>1. IsWellFoundedOn(R, Nat)
  BY NatLessThanWellFounded DEF OpToRel
<1>2. n \in T /\ T \subseteq Nat
  OBVIOUS
<1> HIDE DEF R
<1>3. PICK b \in T : \A c \in T : ~ (<<c, b>> \in R)
  BY <1>1, <1>2, WFMin
<1>4. \A c \in T : ~ (c < b)
  BY <1>2, <1>3 DEF R
<1>5. b \in S
  <2>1. ASSUME b \notin S PROVE FALSE
    <3>1. \A m \in S : m <= b /\ m # b /\ m \in Nat /\ m > 0
      BY <2>1
    <3>2. PICK m \in S : TRUE
      OBVIOUS
    <3>3. b - 1 \in Nat /\ \A c \in S : c <= b - 1
      BY <3>1, <3>2
    <3>4. b - 1 \in T
      BY <3>3
    <3> QED BY <1>4, <3>3, <3>4
  <2> QED BY <2>1
<1>6. \A m \in S : b >= m
  OBVIOUS
<1> HIDE DEF T
<1>7. Max(S) \in S /\ \A m \in S : Max(S) >= m
  BY <1>5, <1>6 DEF Max
<1> QED BY <1>7

\* The value of the last file that holds a key is the newest one.
LEMMA NewestIs ==
  ASSUME NEW stack, DOMAIN stack \subseteq Nat, NEW k,
         NEW n \in Holders(stack, k), \A j \in Holders(stack, k) : j <= n
  PROVE  Max(Holders(stack, k)) = n /\ Newest(stack, k) = stack[n].pairs[k]
<1>1. Holders(stack, k) \subseteq Nat
  BY DEF Holders
<1>2. Max(Holders(stack, k)) \in Holders(stack, k) /\ Max(Holders(stack, k)) >= n
  BY <1>1 DEF Max
<1>3. Max(Holders(stack, k)) = n
  BY <1>1, <1>2
<1> QED BY <1>3 DEF Newest

\* There is such a file if any holds the key.
LEMMA HasNewest ==
  ASSUME NEW stack, StackOK(stack), NEW k, Holders(stack, k) # {}
  PROVE  /\ Max(Holders(stack, k)) \in Holders(stack, k)
         /\ \A j \in Holders(stack, k) : j <= Max(Holders(stack, k))
<1>1. Holders(stack, k) \in SUBSET (1 .. Len(stack)) /\ Len(stack) \in Nat
  BY StackFacts DEF Holders
<1> QED BY <1>1, Greatest

\* What the file that starts last among those that hold a key says, is the newest.
LEMMA NewestStarts ==
  ASSUME NEW stack, StackOK(stack), NEW k, NEW n \in Holders(stack, k),
         \A j \in Holders(stack, k) : stack[j].range[1] <= stack[n].range[1]
  PROVE  Newest(stack, k) = stack[n].pairs[k]
<1>1. Holders(stack, k) \subseteq DOMAIN stack /\ DOMAIN stack \subseteq Nat
  BY StackFacts DEF Holders
<1>2. \A j \in Holders(stack, k) : j <= n
  <2> TAKE j \in Holders(stack, k)
  <2>1. n < j <=> stack[n].range[1] < stack[j].range[1]
    BY <1>1, StartsAscend
  <2>2. /\ stack[n].range[1] \in Nat /\ stack[j].range[1] \in Nat /\ n \in Nat /\ j \in Nat
        /\ stack[j].range[1] <= stack[n].range[1]
    BY <1>1, StackFacts
  <2> QED BY <2>1, <2>2
<1> QED BY <1>1, <1>2, NewestIs

(***************************************************************************)
(* A block of a stack, the files beside it, and the stack with the merge.  *)
(***************************************************************************)
Block(stack, lo, hi) == SubSeq(stack, lo, hi)
OtherFiles(stack, lo, hi) ==
  SubSeq(stack, 1, lo - 1) \o SubSeq(stack, hi + 1, Len(stack))

\* The place in the stack that the i-th of the other files comes from.
From(lo, hi, i) == IF i < lo THEN i ELSE i + (hi - lo + 1)

LEMMA BlockFacts ==
  ASSUME NEW stack, StackOK(stack), NEW lo \in DOMAIN stack, NEW hi \in DOMAIN stack, lo < hi
  PROVE  /\ Block(stack, lo, hi) \in Seq(Files)
         /\ DOMAIN Block(stack, lo, hi) = 1 .. hi - lo + 1
         /\ \A i \in 1 .. hi - lo + 1 :
              /\ lo + i - 1 \in DOMAIN stack /\ lo + i - 1 \in lo .. hi
              /\ Block(stack, lo, hi)[i] = stack[lo + i - 1]
<1>1. /\ Len(stack) \in Nat /\ DOMAIN stack = 1 .. Len(stack)
      /\ \A i \in DOMAIN stack : stack[i] \in Files
  BY StackFacts
<1>2. /\ lo \in Int /\ hi \in Int
      /\ \A i \in lo .. hi : i \in DOMAIN stack /\ stack[i] \in Files
  BY <1>1
<1>3. /\ SubSeq(stack, lo, hi) \in Seq(Files)
      /\ Len(SubSeq(stack, lo, hi)) = IF lo <= hi THEN hi - lo + 1 ELSE 0
      /\ \A i \in 1 .. hi - lo + 1 : SubSeq(stack, lo, hi)[i] = stack[lo + i - 1]
  BY <1>2, SubSeqProperties
<1>4. \A i \in 1 .. hi - lo + 1 : lo + i - 1 \in lo .. hi
  BY <1>2
<1> QED BY <1>2, <1>3, <1>4 DEF Block

\* A part of a sequence of files.
InFiles(stack, a, b) == \A i \in a .. b : stack[i] \in Files

LEMMA PartFacts ==
  ASSUME NEW stack, NEW a \in Int, NEW b \in Int, InFiles(stack, a, b)
  PROVE  /\ SubSeq(stack, a, b) \in Seq(Files)
         /\ Len(SubSeq(stack, a, b)) = IF a <= b THEN b - a + 1 ELSE 0
         /\ \A i \in 1 .. b - a + 1 : SubSeq(stack, a, b)[i] = stack[a + i - 1]
<1>1. \A i \in a .. b : stack[i] \in Files
  BY DEF InFiles
<1> QED BY <1>1, SubSeqProperties

LEMMA OtherFilesFacts ==
  ASSUME NEW stack, StackOK(stack), NEW lo \in DOMAIN stack, NEW hi \in DOMAIN stack, lo < hi
  PROVE  /\ OtherFiles(stack, lo, hi) \in Seq(Files)
         /\ DOMAIN OtherFiles(stack, lo, hi) = 1 .. Len(stack) - (hi - lo + 1)
         /\ \A i \in DOMAIN OtherFiles(stack, lo, hi) :
              /\ From(lo, hi, i) \in DOMAIN stack
              /\ From(lo, hi, i) \notin lo .. hi
              /\ OtherFiles(stack, lo, hi)[i] = stack[From(lo, hi, i)]
<1> DEFINE n == Len(stack)
           below == SubSeq(stack, 1, lo - 1)
           above == SubSeq(stack, hi + 1, n)
<1>1. /\ n \in Nat /\ DOMAIN stack = 1 .. n
      /\ \A i \in DOMAIN stack : stack[i] \in Files
  BY StackFacts
<1>2. /\ lo \in 1 .. n /\ hi \in 1 .. n /\ lo - 1 \in Int /\ hi + 1 \in Int /\ n \in Int
      /\ 1 \in Int
  BY <1>1
<1>3. InFiles(stack, 1, lo - 1) /\ InFiles(stack, hi + 1, n)
  BY <1>1, <1>2 DEF InFiles
<1>4. /\ below \in Seq(Files)
      /\ Len(below) = IF 1 <= lo - 1 THEN (lo - 1) - 1 + 1 ELSE 0
      /\ \A i \in 1 .. (lo - 1) - 1 + 1 : below[i] = stack[1 + i - 1]
  BY <1>2, <1>3, PartFacts
<1>5. /\ above \in Seq(Files)
      /\ Len(above) = IF hi + 1 <= n THEN n - (hi + 1) + 1 ELSE 0
      /\ \A i \in 1 .. n - (hi + 1) + 1 : above[i] = stack[(hi + 1) + i - 1]
  BY <1>2, <1>3, PartFacts
<1>6. /\ Len(below) = lo - 1 /\ Len(above) = n - hi
      /\ \A i \in 1 .. lo - 1 : below[i] = stack[i]
      /\ \A i \in 1 .. n - hi : above[i] = stack[hi + i]
  <2>1. Len(below) = lo - 1 /\ Len(above) = n - hi
    BY <1>2, <1>4, <1>5
  <2>2. ASSUME NEW i \in 1 .. lo - 1 PROVE below[i] = stack[i]
    <3>1. i \in 1 .. (lo - 1) - 1 + 1 /\ 1 + i - 1 = i
      BY <1>2
    <3>2. below[i] = stack[1 + i - 1]
      BY <1>4, <3>1
    <3> QED BY <3>1, <3>2
  <2>3. ASSUME NEW i \in 1 .. n - hi PROVE above[i] = stack[hi + i]
    <3>1. i \in 1 .. n - (hi + 1) + 1 /\ (hi + 1) + i - 1 = hi + i
      BY <1>2
    <3>2. above[i] = stack[(hi + 1) + i - 1]
      BY <1>5, <3>1
    <3> QED BY <3>1, <3>2
  <2> QED BY <2>1, <2>2, <2>3
<1> HIDE DEF below, above, n
<1>7. /\ below \o above \in Seq(Files)
      /\ Len(below \o above) = Len(below) + Len(above)
      /\ \A i \in 1 .. Len(below) + Len(above) :
           (below \o above)[i] = IF i <= Len(below) THEN below[i] ELSE above[i - Len(below)]
  BY <1>4, <1>5, ConcatProperties
<1>8. DOMAIN (below \o above) = 1 .. n - (hi - lo + 1)
  <2>1. Len(below \o above) = n - (hi - lo + 1)
    <3>1. lo \in Nat /\ hi \in Nat /\ n \in Nat
      BY <1>1, <1>2
    <3>2. (lo - 1) + (n - hi) = n - (hi - lo + 1)
      BY <3>1
    <3> QED BY <1>6, <1>7, <3>2
  <2>2. DOMAIN (below \o above) = 1 .. Len(below \o above)
    BY <1>7
  <2> QED BY <2>1, <2>2
<1>9. ASSUME NEW i \in 1 .. n - (hi - lo + 1)
      PROVE  /\ From(lo, hi, i) \in 1 .. n /\ From(lo, hi, i) \notin lo .. hi
             /\ (below \o above)[i] = stack[From(lo, hi, i)]
  <2>1. (below \o above)[i] = IF i <= lo - 1 THEN below[i] ELSE above[i - (lo - 1)]
    <3>1. i \in 1 .. Len(below) + Len(above) /\ Len(below) = lo - 1
      BY <1>2, <1>6
    <3>2. (below \o above)[i] = IF i <= Len(below) THEN below[i] ELSE above[i - Len(below)]
      BY <1>7, <3>1
    <3> QED BY <3>1, <3>2
  <2>2. CASE i < lo
    <3>1. i <= lo - 1 /\ i \in 1 .. lo - 1 /\ i \in 1 .. n /\ i \notin lo .. hi
      BY <1>2, <2>2
    <3> QED BY <1>6, <2>1, <2>2, <3>1 DEF From
  <2>3. CASE ~(i < lo)
    <3>1. /\ ~(i <= lo - 1) /\ i - (lo - 1) \in 1 .. n - hi
          /\ hi + (i - (lo - 1)) = i + (hi - lo + 1)
          /\ i + (hi - lo + 1) \in 1 .. n /\ i + (hi - lo + 1) \notin lo .. hi
      BY <1>2, <2>3
    <3>2. above[i - (lo - 1)] = stack[hi + (i - (lo - 1))]
      BY <1>6, <3>1
    <3> QED BY <2>1, <2>3, <3>1, <3>2 DEF From
  <2> QED BY <2>2, <2>3
<1>10. OtherFiles(stack, lo, hi) = below \o above
  BY DEF OtherFiles, below, above, n
<1> QED BY <1>1, <1>7, <1>8, <1>9, <1>10 DEF n

\* The merge of a block starts where its first file does and ends where its last does.
LEMMA SpanIs ==
  ASSUME NEW stack, StackOK(stack), NEW lo \in DOMAIN stack, NEW hi \in DOMAIN stack, lo < hi
  PROVE  Span(Block(stack, lo, hi)) = <<stack[lo].range[1], stack[hi].range[2]>>
<1> DEFINE block == Block(stack, lo, hi)
           starts == {block[i].range[1] : i \in DOMAIN block}
           ends == {block[i].range[2] : i \in DOMAIN block}
<1>1. /\ lo \in Nat /\ hi \in Nat
      /\ \A j \in lo .. hi : /\ j \in DOMAIN stack
                             /\ stack[j].range[1] \in Nat /\ stack[j].range[2] \in Nat
  BY StackFacts
<1>2. /\ DOMAIN block = 1 .. hi - lo + 1
      /\ \A i \in 1 .. hi - lo + 1 : lo + i - 1 \in lo .. hi /\ block[i] = stack[lo + i - 1]
  BY BlockFacts
<1>3. \A j \in lo .. hi : j - lo + 1 \in 1 .. hi - lo + 1 /\ lo + (j - lo + 1) - 1 = j
  BY <1>1
<1> HIDE DEF block
<1>4. \A j \in lo .. hi : stack[j].range[1] \in starts /\ stack[j].range[2] \in ends
  <2> TAKE j \in lo .. hi
  <2>1. j - lo + 1 \in DOMAIN block /\ block[j - lo + 1] = stack[j]
    BY <1>2, <1>3
  <2> QED BY <2>1
<1>5. /\ \A x \in starts : \E j \in lo .. hi : x = stack[j].range[1]
      /\ \A x \in ends : \E j \in lo .. hi : x = stack[j].range[2]
  BY <1>2
<1>6. ASSUME NEW j \in lo .. hi
      PROVE  stack[lo].range[1] <= stack[j].range[1] /\ stack[j].range[2] <= stack[hi].range[2]
  <2>1. j \in DOMAIN stack /\ lo <= j /\ j <= hi /\ j \in Nat
    BY <1>1
  <2>2. stack[j].range[2] <= stack[hi].range[2]
    BY <2>1, StartsAscend
  <2>3. /\ lo < j <=> stack[lo].range[1] < stack[j].range[1]
        /\ lo = j <=> stack[lo].range[1] = stack[j].range[1]
    BY <2>1, StartsAscend
  <2>4. stack[lo].range[1] \in Nat /\ stack[j].range[1] \in Nat
    BY StackFacts, <2>1
  <2> QED BY <1>1, <2>1, <2>2, <2>3, <2>4
<1>7. lo \in lo .. hi /\ hi \in lo .. hi
  BY <1>1
<1> HIDE DEF starts, ends
<1>8. /\ stack[lo].range[1] \in starts /\ \A x \in starts : stack[lo].range[1] <= x
      /\ starts \subseteq Nat
  BY <1>1, <1>4, <1>5, <1>6, <1>7
<1>9. /\ stack[hi].range[2] \in ends /\ \A x \in ends : x <= stack[hi].range[2]
      /\ ends \subseteq Nat
  BY <1>1, <1>4, <1>5, <1>6, <1>7
<1>10. Min(starts) = stack[lo].range[1]
  <2>1. Min(starts) \in starts /\ \A x \in starts : Min(starts) <= x
    BY <1>8 DEF Min
  <2>2. /\ Min(starts) <= stack[lo].range[1] /\ stack[lo].range[1] <= Min(starts)
        /\ Min(starts) \in Nat /\ stack[lo].range[1] \in Nat
    BY <1>8, <2>1, Zenon
  <2> QED BY <2>2
<1>11. Max(ends) = stack[hi].range[2]
  <2>1. Max(ends) \in ends /\ \A x \in ends : Max(ends) >= x
    <3>1. stack[hi].range[2] \in ends /\ \A x \in ends : stack[hi].range[2] >= x
      BY <1>9
    <3> QED BY <3>1 DEF Max
  <2>2. /\ Max(ends) >= stack[hi].range[2] /\ Max(ends) <= stack[hi].range[2]
        /\ Max(ends) \in Nat /\ stack[hi].range[2] \in Nat
    BY <1>9, <2>1, Zenon
  <2> QED BY <2>2
<1> QED BY <1>10, <1>11 DEF Span, starts, ends, block

\* With the merge put in the place of the block, the stack is a stack again, of the merge
\* and the files beside the block.
LEMMA Replaced ==
  ASSUME NEW stack, StackOK(stack), NEW lo \in DOMAIN stack, NEW hi \in DOMAIN stack, lo < hi,
         NEW f \in Files, f.range = <<stack[lo].range[1], stack[hi].range[2]>>,
         NEW new, new = Sorted(<<f>> \o OtherFiles(stack, lo, hi))
  PROVE  /\ StackOK(new)
         /\ \E p \in DOMAIN new : new[p] = f
         /\ \A j \in DOMAIN stack : j \notin lo .. hi => \E p \in DOMAIN new : new[p] = stack[j]
         /\ \A p \in DOMAIN new :
              new[p] = f \/ \E j \in DOMAIN stack : j \notin lo .. hi /\ new[p] = stack[j]
<1> DEFINE others == OtherFiles(stack, lo, hi)
           files == <<f>> \o others
<1>1. /\ others \in Seq(Files) /\ DOMAIN others = 1 .. Len(others)
      /\ DOMAIN others = 1 .. Len(stack) - (hi - lo + 1)
      /\ \A i \in DOMAIN others : /\ From(lo, hi, i) \in DOMAIN stack
                                  /\ From(lo, hi, i) \notin lo .. hi
                                  /\ others[i] = stack[From(lo, hi, i)]
  BY OtherFilesFacts
<1>2. /\ Len(stack) \in Nat /\ DOMAIN stack = 1 .. Len(stack) /\ lo \in Nat /\ hi \in Nat
      /\ Len(others) \in Nat
  <2>1. Len(stack) \in Nat /\ DOMAIN stack = 1 .. Len(stack)
    BY StackFacts
  <2>2. Len(others) \in Nat
    BY <1>1
  <2> QED BY <2>1, <2>2
<1>3. <<f>> \in Seq(Files) /\ Len(<<f>>) = 1 /\ <<f>>[1] = f
  OBVIOUS
<1> HIDE DEF others
<1>4. /\ files \in Seq(Files) /\ DOMAIN files = 1 .. 1 + Len(others)
      /\ \A i \in 1 .. 1 + Len(others) : files[i] = IF i <= 1 THEN f ELSE others[i - 1]
  <2>1. /\ files \in Seq(Files) /\ Len(files) = 1 + Len(others)
        /\ \A i \in 1 .. 1 + Len(others) : files[i] = IF i <= 1 THEN <<f>>[i] ELSE others[i - 1]
    BY <1>1, <1>3, ConcatProperties
  <2> QED BY <1>3, <2>1
<1> HIDE DEF files
<1>5. /\ 1 \in DOMAIN files /\ files[1] = f
      /\ \A i \in DOMAIN files : i # 1 => i - 1 \in DOMAIN others /\ files[i] = others[i - 1]
      /\ \A i \in DOMAIN others : i + 1 \in DOMAIN files /\ files[i + 1] = others[i]
  <2>1. 1 \in DOMAIN files /\ files[1] = f
    BY <1>2, <1>4
  <2>2. ASSUME NEW i \in DOMAIN files, i # 1
        PROVE  i - 1 \in DOMAIN others /\ files[i] = others[i - 1]
    BY <1>1, <1>2, <1>4, <2>2
  <2>3. ASSUME NEW i \in DOMAIN others
        PROVE  i + 1 \in DOMAIN files /\ files[i + 1] = others[i]
    <3>1. i + 1 \in 1 .. 1 + Len(others) /\ ~(i + 1 <= 1) /\ (i + 1) - 1 = i
      BY <1>1, <1>2
    <3> QED BY <1>4, <3>1
  <2> QED BY <2>1, <2>2, <2>3
<1>6. \A j \in DOMAIN stack : j \notin lo .. hi => \E i \in DOMAIN others : From(lo, hi, i) = j
  <2> SUFFICES ASSUME NEW j \in DOMAIN stack, j \notin lo .. hi
               PROVE  \E i \in DOMAIN others : From(lo, hi, i) = j
    OBVIOUS
  <2>1. CASE j < lo
    BY <1>1, <1>2, <2>1 DEF From
  <2>2. CASE hi < j
    <3>1. j - (hi - lo + 1) \in DOMAIN others /\ ~(j - (hi - lo + 1) < lo)
      BY <1>1, <1>2, <2>2
    <3>2. From(lo, hi, j - (hi - lo + 1)) = j
      BY <1>2, <3>1 DEF From
    <3> QED BY <3>1, <3>2
  <2> QED BY <1>2, <2>1, <2>2
<1>7. \A i, j \in DOMAIN others : i # j => From(lo, hi, i) # From(lo, hi, j)
  BY <1>1, <1>2 DEF From
<1>8. /\ f.range \in Nat \X Nat /\ f.range[1] < f.range[2]
      /\ f.range[1] = stack[lo].range[1] /\ f.range[2] = stack[hi].range[2]
  <2>1. stack[lo].range[1] \in Nat /\ stack[hi].range[1] \in Nat /\ stack[hi].range[2] \in Nat
    BY StackFacts
  <2>2. stack[lo].range[1] < stack[hi].range[1] /\ stack[hi].range[1] < stack[hi].range[2]
    BY StackFacts, StartsAscend
  <2> QED BY <2>1, <2>2
<1>9. \A j \in DOMAIN stack : j \notin lo .. hi =>
        stack[j].range[2] <= f.range[1] \/ f.range[2] <= stack[j].range[1]
  <2> TAKE j \in DOMAIN stack
  <2>1. j < lo => stack[j].range[2] <= stack[lo].range[1]
    BY DEF StackOK, Ascending
  <2>2. hi < j => stack[hi].range[2] <= stack[j].range[1]
    BY DEF StackOK, Ascending
  <2> QED BY <1>2, <1>8, <2>1, <2>2
<1>10. Ranged(files)
  <2> SUFFICES ASSUME NEW i \in DOMAIN files
               PROVE  files[i].range \in Nat \X Nat /\ files[i].range[1] < files[i].range[2]
    BY DEF Ranged
  <2>1. CASE i = 1
    BY <1>5, <1>8, <2>1
  <2>2. CASE i # 1
    <3>1. /\ From(lo, hi, i - 1) \in DOMAIN stack /\ files[i] = stack[From(lo, hi, i - 1)]
      BY <1>1, <1>5, <2>2
    <3> QED BY <3>1, StackFacts
  <2> QED BY <2>1, <2>2
<1>11. Apart(files)
  <2> SUFFICES ASSUME NEW i \in DOMAIN files, NEW j \in DOMAIN files, i # j
               PROVE  \/ files[i].range[2] <= files[j].range[1]
                      \/ files[j].range[2] <= files[i].range[1]
    BY DEF Apart
  <2>1. CASE i = 1
    <3>1. /\ From(lo, hi, j - 1) \in DOMAIN stack /\ files[j] = stack[From(lo, hi, j - 1)]
          /\ From(lo, hi, j - 1) \notin lo .. hi
      BY <1>1, <1>5, <2>1
    <3> QED BY <1>5, <1>9, <2>1, <3>1
  <2>2. CASE j = 1
    <3>1. /\ From(lo, hi, i - 1) \in DOMAIN stack /\ files[i] = stack[From(lo, hi, i - 1)]
          /\ From(lo, hi, i - 1) \notin lo .. hi
      BY <1>1, <1>5, <2>2
    <3> QED BY <1>5, <1>9, <2>2, <3>1
  <2>3. CASE i # 1 /\ j # 1
    <3> DEFINE a == From(lo, hi, i - 1)
               b == From(lo, hi, j - 1)
    <3>1. /\ i - 1 \in DOMAIN others /\ j - 1 \in DOMAIN others /\ i - 1 # j - 1
          /\ files[i] = others[i - 1] /\ files[j] = others[j - 1]
      BY <1>2, <1>4, <1>5, <2>3
    <3>2. /\ a \in DOMAIN stack /\ files[i] = stack[a]
          /\ b \in DOMAIN stack /\ files[j] = stack[b] /\ a # b
      BY <1>1, <1>7, <3>1
    <3> HIDE DEF a, b
    <3>3. a < b \/ b < a
      BY <1>2, <3>2
    <3> QED BY <3>2, <3>3 DEF StackOK, Ascending
  <2> QED BY <2>1, <2>2, <2>3
<1>12. /\ Sorted(files) \in Seq(Files) /\ Ranged(Sorted(files)) /\ Ascending(Sorted(files))
       /\ \A i \in DOMAIN files : \E p \in DOMAIN Sorted(files) : Sorted(files)[p] = files[i]
       /\ \A p \in DOMAIN Sorted(files) : \E i \in DOMAIN files : Sorted(files)[p] = files[i]
  BY <1>4, <1>10, <1>11, SortedAscends
<1>13. new = Sorted(files)
  BY DEF files, others
<1>14. StackOK(new)
  BY <1>12, <1>13 DEF StackOK
<1>15. \E p \in DOMAIN new : new[p] = f
  BY <1>5, <1>12, <1>13
<1>16. ASSUME NEW j \in DOMAIN stack, j \notin lo .. hi
       PROVE  \E p \in DOMAIN new : new[p] = stack[j]
  <2>1. PICK i \in DOMAIN others : From(lo, hi, i) = j
    BY <1>6, <1>16
  <2>2. i + 1 \in DOMAIN files /\ files[i + 1] = stack[j]
    BY <1>1, <1>5, <2>1
  <2> QED BY <1>12, <1>13, <2>2
<1>17. ASSUME NEW p \in DOMAIN new
       PROVE  new[p] = f \/ \E j \in DOMAIN stack : j \notin lo .. hi /\ new[p] = stack[j]
  <2>1. PICK i \in DOMAIN files : new[p] = files[i]
    BY <1>12, <1>13
  <2>2. CASE i = 1
    BY <1>5, <2>1, <2>2
  <2>3. CASE i # 1
    <3>1. /\ From(lo, hi, i - 1) \in DOMAIN stack /\ From(lo, hi, i - 1) \notin lo .. hi
          /\ files[i] = stack[From(lo, hi, i - 1)]
      BY <1>1, <1>5, <2>3
    <3> QED BY <2>1, <3>1
  <2> QED BY <2>2, <2>3
<1> QED BY <1>14, <1>15, <1>16, <1>17

(***************************************************************************)
(* What a merge of a block takes from it.                                  *)
(***************************************************************************)
Listings(n) == {l \in [1 .. n -> 1 .. n] : \A i, j \in 1 .. n : l[i] = l[j] => i = j}
Inputs(stack, lo, hi, listing) ==
  [i \in 1 .. hi - lo + 1 |-> Block(stack, lo, hi)[listing[i]]]

\* File n of the block holds k, and no later one of the block does.
LastHolder(stack, lo, hi, k, n) ==
  /\ n \in lo .. hi /\ k \in DOMAIN stack[n].pairs
  /\ \A j \in lo .. hi : k \in DOMAIN stack[j].pairs => j <= n

\* The inputs are the files of the block, each listed once.
LEMMA InputsFacts ==
  ASSUME NEW stack, StackOK(stack), NEW lo \in DOMAIN stack, NEW hi \in DOMAIN stack, lo < hi,
         NEW listing \in Listings(hi - lo + 1), NEW inputs,
         inputs = Inputs(stack, lo, hi, listing)
  PROVE  /\ DOMAIN inputs = 1 .. hi - lo + 1
         /\ \A i \in DOMAIN inputs : /\ lo + listing[i] - 1 \in lo .. hi
                                     /\ inputs[i] = stack[lo + listing[i] - 1]
         /\ \A i, j \in DOMAIN inputs :
              lo + listing[i] - 1 = lo + listing[j] - 1 => i = j
         /\ \A n \in lo .. hi : \E i \in DOMAIN inputs : lo + listing[i] - 1 = n
<1> DEFINE m == hi - lo + 1
<1>1. lo \in Nat /\ hi \in Nat /\ m \in Nat
  BY StackFacts
<1>2. listing \in [1 .. m -> 1 .. m] /\ \A i, j \in 1 .. m : listing[i] = listing[j] => i = j
  BY DEF Listings
<1>3. listing \in Injection(1 .. m, 1 .. m)
  BY <1>2 DEF Injection, IsInjective
<1>4. IsFiniteSet(1 .. m) /\ Cardinality(1 .. m) = m
  BY <1>1, FS_Interval
<1>5. listing \in Surjection(1 .. m, 1 .. m)
  BY <1>3, <1>4, FS_Injection
<1>6. \A p \in 1 .. m : \E i \in 1 .. m : listing[i] = p
  BY <1>5 DEF Surjection
<1>7. \A p \in 1 .. m : lo + p - 1 \in lo .. hi /\ Block(stack, lo, hi)[p] = stack[lo + p - 1]
  BY BlockFacts
<1>8. DOMAIN inputs = 1 .. m /\ \A i \in 1 .. m : inputs[i] = Block(stack, lo, hi)[listing[i]]
  BY DEF Inputs
<1>9. \A n \in lo .. hi : n - lo + 1 \in 1 .. m /\ lo + (n - lo + 1) - 1 = n
  BY <1>1
<1> HIDE DEF m
<1>10. \A i, j \in 1 .. m : lo + listing[i] - 1 = lo + listing[j] - 1 => i = j
  <2>1. \A i \in 1 .. m : listing[i] \in Int
    BY <1>1, <1>2
  <2>2. \A i, j \in 1 .. m : lo + listing[i] - 1 = lo + listing[j] - 1 => listing[i] = listing[j]
    BY <1>1, <2>1
  <2> QED BY <1>2, <2>2
<1>11. \A n \in lo .. hi : \E i \in 1 .. m : lo + listing[i] - 1 = n
  <2> TAKE n \in lo .. hi
  <2>1. PICK i \in 1 .. m : listing[i] = n - lo + 1
    BY <1>6, <1>9
  <2> QED BY <1>9, <2>1
<1>12. \A i \in 1 .. m : /\ lo + listing[i] - 1 \in lo .. hi
                          /\ inputs[i] = stack[lo + listing[i] - 1]
  BY <1>2, <1>7, <1>8
<1> QED BY <1>8, <1>10, <1>11, <1>12 DEF m

\* The winner is the last file of the block that holds the key.
LEMMA WinnerIs ==
  ASSUME NEW stack, StackOK(stack), NEW lo \in DOMAIN stack, NEW hi \in DOMAIN stack, lo < hi,
         NEW listing \in Listings(hi - lo + 1), NEW inputs,
         inputs = Inputs(stack, lo, hi, listing),
         NEW k, NEW n, LastHolder(stack, lo, hi, k, n)
  PROVE  inputs[Winner(inputs, k)] = stack[n] /\ Winner(inputs, k) \in DOMAIN inputs
<1> DEFINE place(i) == lo + listing[i] - 1
<1>1. /\ DOMAIN inputs = 1 .. hi - lo + 1
      /\ \A i \in DOMAIN inputs : place(i) \in lo .. hi /\ inputs[i] = stack[place(i)]
      /\ \A i, j \in DOMAIN inputs : place(i) = place(j) => i = j
      /\ \A q \in lo .. hi : \E i \in DOMAIN inputs : place(i) = q
  BY InputsFacts
<1>2. lo \in Nat /\ hi \in Nat /\ \A q \in lo .. hi : q \in DOMAIN stack /\ q \in Nat
  BY StackFacts
<1>3. /\ n \in lo .. hi /\ k \in DOMAIN stack[n].pairs
      /\ \A j \in lo .. hi : k \in DOMAIN stack[j].pairs => j <= n
  BY DEF LastHolder
<1> HIDE DEF place
<1>4. PICK w \in DOMAIN inputs : place(w) = n
  BY <1>1, <1>3
<1>5. ASSUME NEW i \in DOMAIN inputs, NEW j \in DOMAIN inputs
      PROVE  /\ place(i) < place(j) => Older(inputs, i, j)
             /\ Older(inputs, i, j) => place(i) <= place(j)
  <2>1. /\ place(i) \in DOMAIN stack /\ place(j) \in DOMAIN stack
        /\ inputs[i] = stack[place(i)] /\ inputs[j] = stack[place(j)]
        /\ place(i) \in Nat /\ place(j) \in Nat
    BY <1>1, <1>2
  <2>2. /\ MergeFrom(inputs[i].range) = stack[place(i)].range[1]
        /\ MergeFrom(inputs[j].range) = stack[place(j)].range[1]
        /\ stack[place(i)].range[1] \in Nat /\ stack[place(j)].range[1] \in Nat
    BY <2>1, StackFacts DEF MergeFrom
  <2>3. /\ place(i) < place(j) <=> stack[place(i)].range[1] < stack[place(j)].range[1]
        /\ place(i) = place(j) <=> stack[place(i)].range[1] = stack[place(j)].range[1]
    BY <2>1, StartsAscend
  <2> QED BY <2>1, <2>2, <2>3 DEF Older
<1>6. /\ k \in DOMAIN inputs[w].pairs
      /\ \A j \in DOMAIN inputs : k \in DOMAIN inputs[j].pairs => j = w \/ Older(inputs, j, w)
  <2>1. k \in DOMAIN inputs[w].pairs
    BY <1>1, <1>3, <1>4
  <2>2. ASSUME NEW j \in DOMAIN inputs, k \in DOMAIN inputs[j].pairs, j # w
        PROVE  Older(inputs, j, w)
    <3>1. place(j) <= n /\ place(j) # n /\ place(j) \in Nat /\ n \in Nat
      BY <1>1, <1>2, <1>3, <1>4, <2>2
    <3>2. place(j) < place(w)
      BY <1>4, <3>1
    <3> QED BY <1>5, <3>2
  <2> QED BY <2>1, <2>2
<1>7. \A i \in DOMAIN inputs :
        /\ k \in DOMAIN inputs[i].pairs
        /\ \A j \in DOMAIN inputs : k \in DOMAIN inputs[j].pairs => j = i \/ Older(inputs, j, i)
        => i = w
  <2> SUFFICES ASSUME NEW i \in DOMAIN inputs, k \in DOMAIN inputs[i].pairs,
                      w # i => Older(inputs, w, i)
               PROVE  i = w
    BY <1>6
  <2>1. place(i) <= n
    BY <1>1, <1>3
  <2>2. w # i => n <= place(i)
    BY <1>4, <1>5
  <2>3. place(i) \in Nat /\ n \in Nat
    BY <1>1, <1>2, <1>3
  <2>4. w # i => place(i) = n
    BY <2>1, <2>2, <2>3
  <2> QED BY <1>1, <1>4, <2>4
<1>8. Winner(inputs, k) = w
  BY <1>6, <1>7 DEF Winner
<1> QED BY <1>1, <1>4, <1>8

\* The merge holds what the last holder in the block holds, unless it drops it.
LEMMA MergedFacts ==
  ASSUME NEW stack, StackOK(stack), NEW lo \in DOMAIN stack, NEW hi \in DOMAIN stack, lo < hi,
         NEW listing \in Listings(hi - lo + 1), NEW inputs,
         inputs = Inputs(stack, lo, hi, listing),
         NEW range, NEW merged, merged = MergedPairs(inputs, range)
  PROVE  /\ merged \in Pairs
         /\ \A k, n : LastHolder(stack, lo, hi, k, n) =>
              /\ k \in DOMAIN merged <=> ~(Drops(range) /\ stack[n].pairs[k] = Empty)
              /\ k \in DOMAIN merged => merged[k] = stack[n].pairs[k]
         /\ \A k \in DOMAIN merged : \E n \in lo .. hi : k \in DOMAIN stack[n].pairs
<1> DEFINE keys == UNION {DOMAIN inputs[i].pairs : i \in DOMAIN inputs}
           value(k) == inputs[Winner(inputs, k)].pairs[k]
           kept == {l \in keys : ~(Drops(range) /\ value(l) = Empty)}
<1>1. /\ \A i \in DOMAIN inputs : lo + listing[i] - 1 \in lo .. hi
                                  /\ inputs[i] = stack[lo + listing[i] - 1]
      /\ \A q \in lo .. hi : \E i \in DOMAIN inputs : lo + listing[i] - 1 = q
  BY InputsFacts
<1>2. \A k : k \in keys <=> \E n \in lo .. hi : k \in DOMAIN stack[n].pairs
  <2>1. ASSUME NEW k, k \in keys PROVE \E n \in lo .. hi : k \in DOMAIN stack[n].pairs
    <3>1. PICK i \in DOMAIN inputs : k \in DOMAIN inputs[i].pairs
      BY <2>1
    <3> QED BY <1>1, <3>1
  <2>2. ASSUME NEW k, NEW n \in lo .. hi, k \in DOMAIN stack[n].pairs PROVE k \in keys
    <3>1. PICK i \in DOMAIN inputs : lo + listing[i] - 1 = n
      BY <1>1
    <3>2. k \in DOMAIN inputs[i].pairs
      BY <1>1, <2>2, <3>1
    <3> QED BY <3>2
  <2> QED BY <2>1, <2>2
<1>3. merged = [k \in kept |-> value(k)]
  BY DEF MergedPairs
<1>4. /\ lo \in Nat /\ hi \in Nat /\ Len(stack) \in Nat /\ hi <= Len(stack)
      /\ \A q \in lo .. hi : q \in DOMAIN stack /\ q \in 1 .. Len(stack)
  BY StackFacts
<1> HIDE DEF keys
<1>5. \A k, n : LastHolder(stack, lo, hi, k, n) => k \in keys /\ value(k) = stack[n].pairs[k]
  <2> SUFFICES ASSUME NEW k, NEW n, LastHolder(stack, lo, hi, k, n)
               PROVE  k \in keys /\ value(k) = stack[n].pairs[k]
    OBVIOUS
  <2>1. inputs[Winner(inputs, k)] = stack[n]
    BY WinnerIs
  <2> QED BY <1>2, <2>1 DEF LastHolder
<1>6. ASSUME NEW k \in keys
      PROVE  \E n : LastHolder(stack, lo, hi, k, n)
  <2> DEFINE S == {j \in lo .. hi : k \in DOMAIN stack[j].pairs}
  <2>1. S # {} /\ S \in SUBSET (1 .. Len(stack))
    BY <1>2, <1>4
  <2>2. Max(S) \in S /\ \A j \in S : j <= Max(S)
    BY <1>4, <2>1, Greatest
  <2>3. LastHolder(stack, lo, hi, k, Max(S))
    BY <2>2 DEF LastHolder
  <2> QED BY <2>3
<1>7. ASSUME NEW k \in keys
      PROVE  k \in Key /\ value(k) \in Value
  <2>1. PICK n : LastHolder(stack, lo, hi, k, n)
    BY <1>6
  <2>2. stack[n] \in Files /\ k \in DOMAIN stack[n].pairs
    BY <1>4, <2>1, StackFacts DEF LastHolder
  <2>3. k \in Key /\ stack[n].pairs[k] \in Value
    BY <2>2, PairsFacts
  <2> QED BY <1>5, <2>1, <2>3
<1> HIDE DEF value
<1>8. kept \in SUBSET Key /\ merged \in [kept -> Value]
  BY <1>3, <1>7
<1>9. merged \in Pairs
  BY <1>8 DEF Pairs
<1>10. ASSUME NEW k, NEW n, LastHolder(stack, lo, hi, k, n)
       PROVE  /\ k \in DOMAIN merged <=> ~(Drops(range) /\ stack[n].pairs[k] = Empty)
              /\ k \in DOMAIN merged => merged[k] = stack[n].pairs[k]
  BY <1>3, <1>5, <1>10
<1>11. \A k \in DOMAIN merged : \E n \in lo .. hi : k \in DOMAIN stack[n].pairs
  BY <1>2, <1>3
<1> QED BY <1>9, <1>10, <1>11

(***************************************************************************)
(* One compaction changes no answer.                                       *)
(***************************************************************************)
\* Key k has the same newest value in both stacks, or was deleted and now is in no file
\* because of file f, a merge from step 0.
KeepsAnswer(stack, new, f, k) ==
  \/ Newest(new, k) = Newest(stack, k)
  \/ /\ Newest(stack, k) = Empty /\ Newest(new, k) = NotFound
     /\ f.range[1] = 0 /\ f.range[2] >= stack[Max(Holders(stack, k))].range[2]

LEMMA BlockReplaced ==
  ASSUME NEW stack, StackOK(stack), NEW lo \in DOMAIN stack, NEW hi \in DOMAIN stack, lo < hi,
         NEW listing \in Listings(hi - lo + 1), NEW inputs,
         inputs = Inputs(stack, lo, hi, listing),
         NEW f \in Files, f.range = Span(Block(stack, lo, hi)),
         f.pairs = MergedPairs(inputs, f.range),
         NEW new, new = Sorted(<<f>> \o OtherFiles(stack, lo, hi)),
         NEW k
  PROVE  KeepsAnswer(stack, new, f, k)
<1>1. f.range = <<stack[lo].range[1], stack[hi].range[2]>>
  BY SpanIs
<1>2. /\ StackOK(new)
      /\ \E p \in DOMAIN new : new[p] = f
      /\ \A j \in DOMAIN stack : j \notin lo .. hi => \E p \in DOMAIN new : new[p] = stack[j]
      /\ \A p \in DOMAIN new :
           new[p] = f \/ \E j \in DOMAIN stack : j \notin lo .. hi /\ new[p] = stack[j]
  BY <1>1, Replaced
<1>3. /\ \A n : LastHolder(stack, lo, hi, k, n) =>
           /\ k \in DOMAIN f.pairs <=> ~(Drops(f.range) /\ stack[n].pairs[k] = Empty)
           /\ k \in DOMAIN f.pairs => f.pairs[k] = stack[n].pairs[k]
      /\ k \in DOMAIN f.pairs => \E n \in lo .. hi : k \in DOMAIN stack[n].pairs
  BY MergedFacts
<1>4. /\ lo \in Nat /\ hi \in Nat /\ DOMAIN stack \subseteq Nat
      /\ \A j \in lo .. hi : j \in DOMAIN stack
  BY StackFacts
<1>5. ASSUME Holders(stack, k) = {}
      PROVE  Newest(new, k) = Newest(stack, k)
  <2>1. \A j \in DOMAIN stack : k \notin DOMAIN stack[j].pairs
    BY <1>5 DEF Holders
  <2>2. k \notin DOMAIN f.pairs
    BY <1>3, <1>4, <2>1
  <2>3. Holders(new, k) = {}
    BY <1>2, <2>1, <2>2 DEF Holders
  <2> QED BY <1>5, <2>3 DEF Newest
<1>6. ASSUME Holders(stack, k) # {}
      PROVE  KeepsAnswer(stack, new, f, k)
  <2> DEFINE n == Max(Holders(stack, k))
  <2>1. n \in Holders(stack, k) /\ \A j \in Holders(stack, k) : j <= n
    BY <1>6, HasNewest
  <2>2. Newest(stack, k) = stack[n].pairs[k]
    BY <1>6 DEF Newest
  <2>3. n \in DOMAIN stack /\ k \in DOMAIN stack[n].pairs /\ n \in Nat
    BY <1>4, <2>1 DEF Holders
  <2>4. \A j \in DOMAIN stack : k \in DOMAIN stack[j].pairs => j <= n
    BY <2>1 DEF Holders
  <2> HIDE DEF n
  <2>5. ASSUME NEW j \in DOMAIN stack, j <= n
        PROVE  stack[j].range[1] <= stack[n].range[1]
    <3>1. /\ j < n <=> stack[j].range[1] < stack[n].range[1]
          /\ j = n <=> stack[j].range[1] = stack[n].range[1]
      BY <2>3, StartsAscend
    <3>2. stack[j].range[1] \in Nat /\ stack[n].range[1] \in Nat /\ j \in Nat
      BY <1>4, <2>3, StackFacts
    <3> QED BY <2>3, <2>5, <3>1, <3>2
  <2>6. /\ f.range[1] = stack[lo].range[1] /\ f.range[2] = stack[hi].range[2]
        /\ stack[lo].range[1] \in Nat
    BY <1>1, StackFacts
  <2>7. \A q \in Holders(new, k) :
          \/ new[q] = f /\ k \in DOMAIN f.pairs
          \/ \E j \in DOMAIN stack : /\ j \notin lo .. hi /\ j <= n /\ new[q] = stack[j]
                                     /\ k \in DOMAIN stack[j].pairs
    BY <1>2, <2>4 DEF Holders
  <2>8. CASE n \notin lo .. hi /\ lo <= n
    <3>1. PICK p \in DOMAIN new : new[p] = stack[n]
      BY <1>2, <2>3, <2>8
    <3>2. p \in Holders(new, k)
      BY <2>3, <3>1 DEF Holders
    <3>3. stack[lo].range[1] <= stack[n].range[1]
      <4>1. /\ lo < n <=> stack[lo].range[1] < stack[n].range[1]
            /\ lo = n <=> stack[lo].range[1] = stack[n].range[1]
        BY <2>3, StartsAscend
      <4>2. stack[lo].range[1] \in Nat /\ stack[n].range[1] \in Nat
        BY <2>3, StackFacts
      <4> QED BY <1>4, <2>3, <2>8, <4>1, <4>2
    <3>4. \A q \in Holders(new, k) : new[q].range[1] <= new[p].range[1]
      BY <2>5, <2>6, <2>7, <3>1, <3>3
    <3>5. Newest(new, k) = new[p].pairs[k]
      BY <1>2, <3>2, <3>4, NewestStarts
    <3> QED BY <2>2, <3>1, <3>5 DEF KeepsAnswer
  <2>9. CASE n < lo
    <3>1. k \notin DOMAIN f.pairs
      BY <1>3, <1>4, <2>3, <2>4, <2>9
    <3>2. PICK p \in DOMAIN new : new[p] = stack[n]
      BY <1>2, <1>4, <2>3, <2>9
    <3>3. p \in Holders(new, k)
      BY <2>3, <3>2 DEF Holders
    <3>4. \A q \in Holders(new, k) : new[q].range[1] <= new[p].range[1]
      BY <2>5, <2>7, <3>1, <3>2
    <3>5. Newest(new, k) = new[p].pairs[k]
      BY <1>2, <3>3, <3>4, NewestStarts
    <3> QED BY <2>2, <3>2, <3>5 DEF KeepsAnswer
  <2>10. CASE n \in lo .. hi
    <3>1. LastHolder(stack, lo, hi, k, n)
      BY <1>4, <2>3, <2>4, <2>10 DEF LastHolder
    <3>2. \A q \in Holders(new, k) :
            \/ new[q] = f
            \/ \E j \in DOMAIN stack : j < lo /\ new[q] = stack[j]
      BY <1>4, <2>3, <2>7, <2>10
    <3>3. ASSUME NEW j \in DOMAIN stack, j < lo
          PROVE  stack[j].range[1] < f.range[1]
      BY <2>6, <3>3, StartsAscend
    <3>4. CASE k \in DOMAIN f.pairs
      <4>1. f.pairs[k] = stack[n].pairs[k]
        BY <1>3, <3>1, <3>4
      <4>2. PICK p \in DOMAIN new : new[p] = f
        BY <1>2
      <4>3. p \in Holders(new, k)
        BY <3>4, <4>2 DEF Holders
      <4>4. \A q \in Holders(new, k) : new[q].range[1] <= new[p].range[1]
        <5> TAKE q \in Holders(new, k)
        <5>1. CASE new[q] = f
          BY <2>6, <4>2, <5>1
        <5>2. CASE \E j \in DOMAIN stack : j < lo /\ new[q] = stack[j]
          <6>1. PICK j \in DOMAIN stack : j < lo /\ new[q] = stack[j]
            BY <5>2
          <6>2. stack[j].range[1] < f.range[1] /\ stack[j].range[1] \in Nat
            BY <3>3, <6>1, StackFacts
          <6> QED BY <2>6, <4>2, <6>1, <6>2
        <5> QED BY <3>2, <5>1, <5>2
      <4>5. Newest(new, k) = new[p].pairs[k]
        BY <1>2, <4>3, <4>4, NewestStarts
      <4> QED BY <2>2, <4>1, <4>2, <4>5 DEF KeepsAnswer
    <3>5. CASE k \notin DOMAIN f.pairs
      <4>1. Drops(f.range) /\ stack[n].pairs[k] = Empty
        BY <1>3, <3>1, <3>5
      <4>2. f.range[1] = 0
        BY <4>1 DEF Drops
      <4>3. \A j \in DOMAIN stack : ~(j < lo)
        <5> SUFFICES ASSUME NEW j \in DOMAIN stack, j < lo PROVE FALSE
          OBVIOUS
        <5>1. stack[j].range[1] < f.range[1] /\ stack[j].range[1] \in Nat
          BY <3>3, StackFacts
        <5> QED BY <4>2, <5>1
      <4>4. Holders(new, k) = {}
        BY <2>7, <3>2, <3>5, <4>3
      <4>5. stack[n].range[2] <= f.range[2]
        BY <1>4, <2>3, <2>6, <2>10, StartsAscend
      <4>6. stack[n].range[2] \in Nat /\ f.range[2] \in Nat
        BY <2>3, <2>6, StackFacts
      <4>7. Newest(new, k) = NotFound /\ Newest(stack, k) = Empty
        BY <2>2, <4>1, <4>4 DEF Newest
      <4> QED BY <4>2, <4>5, <4>6, <4>7 DEF KeepsAnswer, n
    <3> QED BY <3>4, <3>5
  <2> QED BY <1>4, <2>3, <2>8, <2>9, <2>10
<1> QED BY <1>5, <1>6 DEF KeepsAnswer

\* The stack is a stack again after a compaction, with the merge in it.
LEMMA CompactStep ==
  ASSUME StackOK(readers), NEW lo \in DOMAIN readers, NEW hi \in DOMAIN readers, lo < hi,
         Compact(lo, hi)
  PROVE  /\ StackOK(readers')
         /\ \A k : \E p \in DOMAIN readers' : KeepsAnswer(readers, readers', readers'[p], k)
<1> DEFINE block == Block(readers, lo, hi)
<1>1. DOMAIN block = 1 .. hi - lo + 1
  BY BlockFacts
<1>2. PICK listing \in Listings(hi - lo + 1) :
        \E f \in File(Span(block), {MergedPairs(Inputs(readers, lo, hi, listing), Span(block))}) :
          readers' = Sorted(<<f>> \o OtherFiles(readers, lo, hi))
  BY <1>1 DEF Compact, Listings, Inputs, Block, OtherFiles
<1> DEFINE inputs == Inputs(readers, lo, hi, listing)
           merged == MergedPairs(inputs, Span(block))
<1>3. PICK f \in File(Span(block), {merged}) :
        readers' = Sorted(<<f>> \o OtherFiles(readers, lo, hi))
  BY <1>2
<1>4. Span(block) = <<readers[lo].range[1], readers[hi].range[2]>>
  BY SpanIs
<1>5. readers[lo].range[1] \in Nat /\ readers[hi].range[2] \in Nat
  BY StackFacts
<1>6. merged \in Pairs
  BY MergedFacts
<1> HIDE DEF block, merged, inputs
<1>7. f \in Files /\ f.range = Span(block) /\ f.pairs = merged
  BY <1>4, <1>5, <1>6 DEF File, Files
<1>8. StackOK(readers') /\ \E p \in DOMAIN readers' : readers'[p] = f
  BY <1>3, <1>4, <1>7, Replaced
<1>9. \A k : KeepsAnswer(readers, readers', f, k)
  BY <1>3, <1>7, BlockReplaced DEF block, merged, inputs
<1> QED BY <1>8, <1>9

\* The files opened first are a stack.
LEMMA FirstStack ==
  ASSUME SuccessiveRanges, Init
  PROVE  StackOK(readers)
<1>1. PICK ranges \in RangeLists :
        \E files \in [DOMAIN ranges -> UNION {File(ranges[i], Pairs) : i \in DOMAIN ranges}] :
          /\ \A i \in DOMAIN ranges : files[i].range = ranges[i]
          /\ readers = Sorted(files)
  BY DEF Init
<1>2. PICK files \in [DOMAIN ranges -> UNION {File(ranges[i], Pairs) : i \in DOMAIN ranges}] :
        /\ \A i \in DOMAIN ranges : files[i].range = ranges[i]
        /\ readers = Sorted(files)
  BY <1>1
<1>3. ranges \in Seq({NoRange} \cup (Nat \X Nat))
  BY RangeAssumption
<1>4. Len(ranges) \in Nat /\ DOMAIN ranges = 1 .. Len(ranges) /\ DOMAIN files = DOMAIN ranges
  BY <1>3
<1> DEFINE named == [i \in DOMAIN ranges |-> [range |-> ranges[i]]]
<1>5. Ranged(named) /\ Apart(named)
  BY DEF SuccessiveRanges
<1>6. DOMAIN named = DOMAIN ranges /\ \A i \in DOMAIN ranges : named[i].range = files[i].range
  BY <1>2
<1> HIDE DEF named
<1>7. Ranged(files) /\ Apart(files)
  BY <1>4, <1>5, <1>6 DEF Ranged, Apart
<1>8. ASSUME NEW i \in DOMAIN ranges PROVE files[i] \in Files
  <2>1. PICK j \in DOMAIN ranges : files[i] \in File(ranges[j], Pairs)
    BY <1>2
  <2>2. files[i].range \in Nat \X Nat
    BY <1>4, <1>7 DEF Ranged
  <2>3. files[i] \in [range : {ranges[j]}, pairs : Pairs, filter : BOOLEAN,
                      lost : SUBSET Key, active : BOOLEAN]
    BY <2>1 DEF File
  <2> QED BY <2>2, <2>3 DEF Files
<1>9. files \in Seq(Files)
  BY <1>4, <1>8
<1>10. Sorted(files) \in Seq(Files) /\ Ranged(Sorted(files)) /\ Ascending(Sorted(files))
  BY <1>7, <1>9, SortedAscends
<1> QED BY <1>2, <1>10 DEF StackOK

\* The ranges of the stack stay successive.
LEMMA StackStays ==
  ASSUME SuccessiveRanges
  PROVE  Spec => []StackOK(readers)
<1>1. Init => StackOK(readers)
  BY FirstStack
<1>2. StackOK(readers) /\ [Next]_vars => StackOK(readers)'
  <2> SUFFICES ASSUME StackOK(readers), [Next]_vars PROVE StackOK(readers')
    BY DEF StackOK, Ranged, Ascending
  <2>1. CASE UNCHANGED readers
    BY <2>1
  <2>2. CASE \E lo, hi \in DOMAIN readers : lo < hi /\ Compact(lo, hi)
    BY <2>2, CompactStep
  <2>3. ASSUME NEW c \in Client,
               (\E k \in Key : Get(c, k)) \/ Consult(c) \/ NoneHasIt(c) \/ Return(c)
        PROVE  UNCHANGED readers
    BY <2>3 DEF Get, Consult, NoneHasIt, Return
  <2>4. UNCHANGED vars => UNCHANGED readers
    BY DEF vars
  <2> QED BY <2>1, <2>2, <2>3, <2>4 DEF Next
<1> QED BY <1>1, <1>2, PTL DEF Spec

\* What a step does to the answers.
LEMMA AnswersStep ==
  ASSUME StackOK(readers), [Next]_vars, NEW k
  PROVE  \/ Newest(readers', k) = Newest(readers, k)
         \/ \E p \in DOMAIN readers' : KeepsAnswer(readers, readers', readers'[p], k)
<1>1. CASE \E lo, hi \in DOMAIN readers : lo < hi /\ Compact(lo, hi)
  BY <1>1, CompactStep
<1>2. CASE UNCHANGED readers
  BY <1>2
<1>3. ASSUME NEW c \in Client,
             (\E l \in Key : Get(c, l)) \/ Consult(c) \/ NoneHasIt(c) \/ Return(c)
      PROVE  UNCHANGED readers
  BY <1>3 DEF Get, Consult, NoneHasIt, Return
<1>4. UNCHANGED vars => UNCHANGED readers
  BY DEF vars
<1> QED BY <1>1, <1>2, <1>3, <1>4 DEF Next

(***************************************************************************)
(* The theorems about compaction.                                          *)
(***************************************************************************)
\* With successive ranges no compaction changes what a lookup answers: merge and stack agree
\* on which file is newest (merge.rs:4-7), in whatever order the inputs are listed.
THEOREM CompactionIsInvisible ==
  ASSUME SuccessiveRanges
  PROVE  Spec => CompactionKeepsAnswers
<1>1. StackOK(readers) /\ [Next]_vars =>
        [\A k \in Key : Visible(Newest(readers', k)) = Visible(Newest(readers, k))]_vars
  <2> SUFFICES ASSUME StackOK(readers), [Next]_vars, NEW k \in Key
               PROVE  Visible(Newest(readers', k)) = Visible(Newest(readers, k))
    OBVIOUS
  <2>1. \/ Newest(readers', k) = Newest(readers, k)
        \/ Newest(readers, k) = Empty /\ Newest(readers', k) = NotFound
    BY AnswersStep DEF KeepsAnswer
  <2> QED BY <2>1 DEF Visible
<1>2. Spec => []StackOK(readers)
  BY StackStays
<1> QED BY <1>1, <1>2, PTL DEF Spec, CompactionKeepsAnswers

\* With successive ranges a deletion is only dropped by a merge from step 0 that covers it
\* (merge.rs:8-12).
THEOREM DeletionsAreKept ==
  ASSUME SuccessiveRanges
  PROVE  Spec => DeletionsKept
<1> DEFINE Kept(k) ==
             \/ Newest(readers', k) = Empty
             \/ /\ Newest(readers', k) = NotFound
                /\ \E i \in DOMAIN readers' :
                     /\ readers'[i].range[1] = 0
                     /\ readers'[i].range[2] >= readers[Max(Holders(readers, k))].range[2]
<1>1. StackOK(readers) /\ [Next]_vars =>
        [\A k \in Key : Newest(readers, k) = Empty => Kept(k)]_vars
  <2> SUFFICES ASSUME StackOK(readers), [Next]_vars, NEW k \in Key, Newest(readers, k) = Empty
               PROVE  Kept(k)
    OBVIOUS
  <2> QED BY AnswersStep DEF KeepsAnswer
<1>2. Spec => []StackOK(readers)
  BY StackStays
<1> QED BY <1>1, <1>2, PTL DEF Spec, DeletionsKept

(***************************************************************************)
(* The stack is one point lookup.                                          *)
(***************************************************************************)
\* No filter in use denies a key of its file: KveiFilterNeverLies for the builder's salt.
FiltersKeep ==
  \A i \in DOMAIN readers : \A k \in DOMAIN readers[i].pairs : ~Excludes(readers[i], k)

ClientsOK ==
  /\ pc \in [Client -> {"idle", "scan", "answered"}]
  /\ key \in [Client -> Key]
  /\ mine \in [Client -> Seq(Files)]
  /\ at \in [Client -> Nat]
  /\ DOMAIN reply = Client

\* A lookup of k in a stack that was, or is, open: no file after the place it has come to
\* holds k, the answer it will find is the answer now, and no filter denies it.
LookupOK(stack, place, k) ==
  /\ StackOK(stack) /\ place <= Len(stack)
  /\ \A j \in Holders(stack, k) : j <= place
  /\ \A j \in Holders(stack, k) : ~Excludes(stack[j], k)
  /\ Visible(Newest(stack, k)) = Visible(Newest(readers, k))

LookupsOK == \A c \in Client : pc[c] = "scan" => LookupOK(mine[c], at[c], key[c])

StackInv == StackOK(readers) /\ ClientsOK /\ LookupsOK

\* The contents answer what the stack answers.
LEMMA LookupIs ==
  ASSUME NEW k \in Key
  PROVE  PL!Lookup(k) = Visible(Newest(readers, k))
BY ValueAssumption DEF PL!Lookup, Contents, Visible

\* No compaction changes the contents.
LEMMA SameContents ==
  ASSUME \A k \in Key : Visible(Newest(readers', k)) = Visible(Newest(readers, k))
  PROVE  Contents' = Contents
<1>1. ASSUME NEW k \in Key, Visible(Newest(readers, k)) # NotFound
      PROVE  Newest(readers', k) = Newest(readers, k)
  BY <1>1 DEF Visible
<1> DEFINE old == {l \in Key : Visible(Newest(readers, l)) # NotFound}
           new == {l \in Key : Visible(Newest(readers', l)) # NotFound}
<1>2. old = new
  OBVIOUS
<1>3. /\ Contents = [k \in old |-> Newest(readers, k)]
      /\ Contents' = [k \in new |-> Newest(readers', k)]
  BY DEF Contents
<1>4. \A k \in old : Newest(readers', k) = Newest(readers, k)
  BY <1>1
<1> QED BY <1>2, <1>3, <1>4

\* At a file that holds k, not consulted yet and with none after it, the answer is its value.
LEMMA HitIsAnswer ==
  ASSUME NEW stack, NEW place \in Nat, NEW k \in Key, LookupOK(stack, place, k),
         place > 0, k \in DOMAIN stack[place].pairs
  PROVE  Visible(stack[place].pairs[k]) = PL!Lookup(k)
<1>1. /\ DOMAIN stack = 1 .. Len(stack) /\ Len(stack) \in Nat /\ DOMAIN stack \subseteq Nat
      /\ place <= Len(stack)
  BY StackFacts DEF LookupOK
<1>2. place \in Holders(stack, k) /\ \A j \in Holders(stack, k) : j <= place
  BY <1>1 DEF Holders, LookupOK
<1>3. Newest(stack, k) = stack[place].pairs[k]
  BY <1>1, <1>2, NewestIs
<1> QED BY <1>3, LookupIs DEF LookupOK

\* At the end of the stack there is no answer.
LEMMA NoneIsAnswer ==
  ASSUME NEW stack, NEW k \in Key, LookupOK(stack, 0, k)
  PROVE  NotFound = PL!Lookup(k)
<1>1. DOMAIN stack = 1 .. Len(stack) /\ Len(stack) \in Nat
  BY StackFacts DEF LookupOK
<1>2. Holders(stack, k) = {}
  BY <1>1 DEF LookupOK, Holders
<1>3. Newest(stack, k) = NotFound
  BY <1>2 DEF Newest
<1> QED BY <1>3, LookupIs, ValueAssumption DEF LookupOK, Visible

\* A file that is asked and does not answer does not hold the key.
LEMMA MissGoesOn ==
  ASSUME NEW stack, NEW place \in Nat, NEW k, LookupOK(stack, place, k),
         place > 0, ~Hit(stack[place], k)
  PROVE  LookupOK(stack, place - 1, k)
<1>1. DOMAIN stack = 1 .. Len(stack) /\ Len(stack) \in Nat /\ Holders(stack, k) \subseteq Nat
  BY StackFacts DEF LookupOK, Holders
<1>2. place \notin Holders(stack, k)
  BY DEF LookupOK, Hit, Holders
<1>3. place - 1 <= Len(stack) /\ \A j \in Holders(stack, k) : j <= place - 1
  BY <1>1, <1>2 DEF LookupOK
<1> QED BY <1>3 DEF LookupOK

LEMMA StackInvInit ==
  ASSUME SuccessiveRanges
  PROVE  Init => StackInv
<1> SUFFICES ASSUME Init PROVE StackInv
  OBVIOUS
<1>1. StackOK(readers)
  BY FirstStack
<1>2. ClientsOK
  BY DEF Init, ClientsOK
<1>3. LookupsOK
  BY DEF Init, LookupsOK
<1> QED BY <1>1, <1>2, <1>3 DEF StackInv

\* The answers of the step and the next, deletions and absence taken as one.
LEMMA SameAnswers ==
  ASSUME StackOK(readers), [Next]_vars
  PROVE  \A k \in Key : Visible(Newest(readers', k)) = Visible(Newest(readers, k))
<1> TAKE k \in Key
<1>1. \/ Newest(readers', k) = Newest(readers, k)
      \/ Newest(readers, k) = Empty /\ Newest(readers', k) = NotFound
  BY AnswersStep DEF KeepsAnswer
<1> QED BY <1>1 DEF Visible

LEMMA StackInvStep == StackInv /\ FiltersKeep /\ [Next]_vars => StackInv'
<1> SUFFICES ASSUME StackInv, FiltersKeep, [Next]_vars PROVE StackInv'
  OBVIOUS
<1>1. StackOK(readers) /\ ClientsOK /\ LookupsOK
  BY DEF StackInv
<1>2. \A k \in Key : Visible(Newest(readers', k)) = Visible(Newest(readers, k))
  BY <1>1, SameAnswers
<1>3. \A d \in Client : pc[d] = "scan" => LookupOK(mine[d], at[d], key[d]) /\ key[d] \in Key
  BY <1>1 DEF LookupsOK, ClientsOK
<1>4. /\ pc \in [Client -> {"idle", "scan", "answered"}] /\ key \in [Client -> Key]
      /\ mine \in [Client -> Seq(Files)] /\ at \in [Client -> Nat] /\ DOMAIN reply = Client
  BY <1>1 DEF ClientsOK
<1>5. StackOK(readers)' => (ClientsOK' /\ LookupsOK' => StackInv')
  BY DEF StackInv
<1>6. ASSUME UNCHANGED <<pc, key, mine, at, reply>> PROVE ClientsOK' /\ LookupsOK'
  <2>1. ClientsOK'
    BY <1>1, <1>6 DEF ClientsOK
  <2>2. ASSUME NEW d \in Client, pc'[d] = "scan"
        PROVE  LookupOK(mine[d], at[d], key[d])'
    <3>1. LookupOK(mine[d], at[d], key[d]) /\ key[d] \in Key
      BY <1>3, <1>6, <2>2
    <3>2. \A k \in Key : Visible(Newest(readers', k)) = Visible(Newest(readers, k))
      BY <1>2
    <3>3. Visible(Newest(mine[d], key[d])) = Visible(Newest(readers', key[d]))
      BY <3>1, <3>2 DEF LookupOK
    <3>4. mine'[d] = mine[d] /\ at'[d] = at[d] /\ key'[d] = key[d]
      BY <1>6
    <3> QED BY <3>1, <3>3, <3>4 DEF LookupOK
  <2> QED BY <2>1, <2>2 DEF LookupsOK
<1>7. ASSUME NEW lo \in DOMAIN readers, NEW hi \in DOMAIN readers, lo < hi, Compact(lo, hi)
      PROVE  StackInv'
  <2>1. StackOK(readers')
    BY <1>1, <1>7, CompactStep
  <2>2. UNCHANGED <<pc, key, mine, at, reply>>
    BY <1>7 DEF Compact
  <2> QED BY <1>6, <2>1, <2>2 DEF StackInv
<1>8. ASSUME NEW c \in Client,
             (\E k \in Key : Get(c, k)) \/ Consult(c) \/ NoneHasIt(c) \/ Return(c)
      PROVE  StackInv'
  <2>1. readers' = readers
    BY <1>8 DEF Get, Consult, NoneHasIt, Return
  <2>2. StackOK(readers')
    BY <1>1, <2>1
  <2>3. ASSUME NEW d \in Client, pc[d] = "scan",
               mine'[d] = mine[d], at'[d] = at[d], key'[d] = key[d]
        PROVE  LookupOK(mine[d], at[d], key[d])'
    <3>1. LookupOK(mine[d], at[d], key[d])
      BY <1>3, <2>3
    <3>2. Visible(Newest(mine[d], key[d])) = Visible(Newest(readers', key[d]))
      BY <2>1, <3>1 DEF LookupOK
    <3> QED BY <2>3, <3>1, <3>2 DEF LookupOK
  <2>4. ASSUME NEW k \in Key, Get(c, k) PROVE ClientsOK' /\ LookupsOK'
    <3>1. /\ pc[c] = "idle" /\ pc' = [pc EXCEPT ![c] = "scan"]
          /\ key' = [key EXCEPT ![c] = k] /\ mine' = [mine EXCEPT ![c] = readers]
          /\ at' = [at EXCEPT ![c] = Len(readers)] /\ reply' = reply
      BY <2>4 DEF Get
    <3>2. ClientsOK'
      BY <1>1, <1>4, <3>1, StackFacts DEF ClientsOK, StackOK
    <3>3. LookupOK(readers, Len(readers), k)
      BY <1>1, StackFacts DEF LookupOK, Holders, FiltersKeep
    <3>4. mine'[c] = readers /\ at'[c] = Len(readers) /\ key'[c] = k
      BY <1>4, <3>1
    <3>5. LookupOK(mine[c], at[c], key[c])'
      BY <2>1, <3>3, <3>4 DEF LookupOK
    <3>6. ASSUME NEW d \in Client, d # c, pc'[d] = "scan"
          PROVE  LookupOK(mine[d], at[d], key[d])'
      BY <1>4, <2>3, <3>1, <3>6
    <3> QED BY <3>2, <3>5, <3>6 DEF LookupsOK
  <2>5. ASSUME Consult(c) PROVE ClientsOK' /\ LookupsOK'
    <3>1. /\ pc[c] = "scan" /\ at[c] > 0 /\ key' = key /\ mine' = mine
      BY <2>5 DEF Consult
    <3>2. CASE Hit(mine[c][at[c]], key[c])
      <4>1. /\ reply' = [reply EXCEPT ![c] = mine[c][at[c]].pairs[key[c]]]
            /\ pc' = [pc EXCEPT ![c] = "answered"] /\ at' = at
        BY <2>5, <3>2 DEF Consult
      <4>2. ClientsOK'
        BY <1>4, <3>1, <4>1 DEF ClientsOK
      <4>3. ASSUME NEW d \in Client, pc'[d] = "scan" PROVE LookupOK(mine[d], at[d], key[d])'
        BY <1>4, <2>3, <3>1, <4>1, <4>3
      <4> QED BY <4>2, <4>3 DEF LookupsOK
    <3>3. CASE ~Hit(mine[c][at[c]], key[c])
      <4>1. at' = [at EXCEPT ![c] = @ - 1] /\ pc' = pc /\ reply' = reply
        BY <2>5, <3>3 DEF Consult
      <4>2. ClientsOK'
        BY <1>4, <3>1, <4>1 DEF ClientsOK
      <4>3. LookupOK(mine[c], at[c] - 1, key[c])
        BY <1>3, <1>4, <3>1, <3>3, MissGoesOn
      <4>4. mine'[c] = mine[c] /\ at'[c] = at[c] - 1 /\ key'[c] = key[c]
        BY <1>4, <3>1, <4>1
      <4>5. LookupOK(mine[c], at[c], key[c])'
        BY <2>1, <4>3, <4>4 DEF LookupOK
      <4>6. ASSUME NEW d \in Client, d # c, pc'[d] = "scan"
            PROVE  LookupOK(mine[d], at[d], key[d])'
        BY <1>4, <2>3, <3>1, <4>1, <4>6
      <4> QED BY <4>2, <4>5, <4>6 DEF LookupsOK
    <3> QED BY <3>2, <3>3
  <2>6. ASSUME NoneHasIt(c) PROVE ClientsOK' /\ LookupsOK'
    <3>1. /\ reply' = [reply EXCEPT ![c] = NotFound] /\ pc' = [pc EXCEPT ![c] = "answered"]
          /\ key' = key /\ mine' = mine /\ at' = at
      BY <2>6 DEF NoneHasIt
    <3>2. ClientsOK'
      BY <1>4, <3>1 DEF ClientsOK
    <3>3. ASSUME NEW d \in Client, pc'[d] = "scan" PROVE LookupOK(mine[d], at[d], key[d])'
      BY <1>4, <2>3, <3>1, <3>3
    <3> QED BY <3>2, <3>3 DEF LookupsOK
  <2>7. ASSUME Return(c) PROVE ClientsOK' /\ LookupsOK'
    <3>1. /\ pc' = [pc EXCEPT ![c] = "idle"] /\ mine' = [mine EXCEPT ![c] = <<>>]
          /\ at' = [at EXCEPT ![c] = 0] /\ key' = key /\ reply' = reply
      BY <2>7 DEF Return
    <3>2. ClientsOK'
      BY <1>4, <3>1 DEF ClientsOK
    <3>3. ASSUME NEW d \in Client, pc'[d] = "scan" PROVE LookupOK(mine[d], at[d], key[d])'
      <4>1. d # c /\ pc[d] = "scan" /\ mine'[d] = mine[d] /\ at'[d] = at[d] /\ key'[d] = key[d]
        BY <1>4, <3>1, <3>3
      <4> QED BY <2>3, <4>1
    <3> QED BY <3>2, <3>3 DEF LookupsOK
  <2> QED BY <1>8, <2>2, <2>4, <2>5, <2>6, <2>7 DEF StackInv
<1>9. ASSUME UNCHANGED vars PROVE StackInv'
  <2>1. readers' = readers /\ UNCHANGED <<pc, key, mine, at, reply>>
    BY <1>9 DEF vars
  <2> QED BY <1>1, <1>6, <2>1 DEF StackInv
<1> QED BY <1>7, <1>8, <1>9 DEF Next

\* Every step is a step of PointLookup, or one it does not see.
LEMMA StepIsPointLookup == StackInv /\ [Next]_vars => [PL!Next]_PL!vars
<1> SUFFICES ASSUME StackInv, [Next]_vars PROVE [PL!Next]_PL!vars
  OBVIOUS
<1> DEFINE phase == [c \in Client |-> IF pc[c] = "scan" THEN "asked" ELSE pc[c]]
           said == [c \in Client |-> Visible(reply[c])]
<1>1. StackOK(readers) /\ ClientsOK /\ LookupsOK
  BY DEF StackInv
<1>2. Contents' = Contents
  BY <1>1, SameAnswers, SameContents
<1>3. /\ pc \in [Client -> {"idle", "scan", "answered"}] /\ key \in [Client -> Key]
      /\ mine \in [Client -> Seq(Files)] /\ at \in [Client -> Nat] /\ DOMAIN reply = Client
  BY <1>1 DEF ClientsOK
<1>4. ASSUME pc' = pc, key' = key, reply' = reply PROVE UNCHANGED PL!vars
  BY <1>2, <1>4 DEF PL!vars
<1>5. ASSUME NEW c \in Client, NEW k \in Key, Get(c, k) PROVE PL!Ask(c)
  <2>1. /\ pc[c] = "idle" /\ pc' = [pc EXCEPT ![c] = "scan"]
        /\ key' = [key EXCEPT ![c] = k] /\ reply' = reply
    BY <1>5 DEF Get
  <2>2. phase[c] = "idle" /\ phase' = [phase EXCEPT ![c] = "asked"]
    BY <1>3, <2>1
  <2>3. \A d \in Client \ {c} : key'[d] = key[d] /\ said'[d] = said[d]
    BY <1>3, <2>1
  <2> QED BY <1>2, <2>2, <2>3 DEF PL!Ask
<1>6. ASSUME NEW c \in Client, NEW found, pc[c] = "scan", Visible(found) = PL!Lookup(key[c]),
             reply' = [reply EXCEPT ![c] = found], pc' = [pc EXCEPT ![c] = "answered"],
             key' = key
      PROVE  PL!Answer(c)
  <2>1. phase[c] = "asked" /\ phase' = [phase EXCEPT ![c] = "answered"]
    BY <1>3, <1>6
  <2>2. said' = [said EXCEPT ![c] = PL!Lookup(key[c])]
    BY <1>3, <1>6
  <2> QED BY <1>2, <1>6, <2>1, <2>2 DEF PL!Answer
<1>7. ASSUME NEW c \in Client, Consult(c) PROVE PL!Answer(c) \/ UNCHANGED PL!vars
  <2>1. pc[c] = "scan" /\ at[c] > 0 /\ key' = key /\ at[c] \in Nat /\ key[c] \in Key
    BY <1>3, <1>7 DEF Consult
  <2>2. LookupOK(mine[c], at[c], key[c])
    BY <1>1, <2>1 DEF LookupsOK
  <2>3. CASE Hit(mine[c][at[c]], key[c])
    <3>1. /\ reply' = [reply EXCEPT ![c] = mine[c][at[c]].pairs[key[c]]]
          /\ pc' = [pc EXCEPT ![c] = "answered"]
      BY <1>7, <2>3 DEF Consult
    <3>2. Visible(mine[c][at[c]].pairs[key[c]]) = PL!Lookup(key[c])
      BY <2>1, <2>2, <2>3, HitIsAnswer DEF Hit
    <3> QED BY <1>6, <2>1, <3>1, <3>2
  <2>4. CASE ~Hit(mine[c][at[c]], key[c])
    BY <1>4, <1>7, <2>4 DEF Consult
  <2> QED BY <2>3, <2>4
<1>8. ASSUME NEW c \in Client, NoneHasIt(c) PROVE PL!Answer(c)
  <2>1. /\ pc[c] = "scan" /\ at[c] = 0 /\ key' = key /\ key[c] \in Key
        /\ reply' = [reply EXCEPT ![c] = NotFound] /\ pc' = [pc EXCEPT ![c] = "answered"]
    BY <1>3, <1>8 DEF NoneHasIt
  <2>2. LookupOK(mine[c], 0, key[c])
    BY <1>1, <2>1 DEF LookupsOK
  <2>3. Visible(NotFound) = PL!Lookup(key[c])
    BY <2>1, <2>2, NoneIsAnswer, ValueAssumption DEF Visible
  <2> QED BY <1>6, <2>1, <2>3
<1>9. ASSUME NEW c \in Client, Return(c) PROVE PL!Return(c)
  <2>1. pc[c] = "answered" /\ pc' = [pc EXCEPT ![c] = "idle"] /\ key' = key /\ reply' = reply
    BY <1>9 DEF Return
  <2>2. phase[c] = "answered" /\ phase' = [phase EXCEPT ![c] = "idle"]
    BY <1>3, <2>1
  <2> QED BY <1>2, <2>1, <2>2 DEF PL!Return
<1>10. ASSUME NEW lo \in DOMAIN readers, NEW hi \in DOMAIN readers, Compact(lo, hi)
       PROVE  UNCHANGED PL!vars
  BY <1>4, <1>10 DEF Compact
<1>11. UNCHANGED vars => UNCHANGED PL!vars
  BY <1>4 DEF vars
<1> QED BY <1>5, <1>7, <1>8, <1>9, <1>10, <1>11 DEF Next, PL!Next

\* With successive ranges, and as long as no filter denies a key of its file, the stack and
\* all its compactions are one point lookup over contents that never change.
THEOREM StackIsPointLookup ==
  ASSUME SuccessiveRanges
  PROVE  Spec /\ []FiltersKeep => PL!Init /\ [][PL!Next]_PL!vars
<1>1. Init => PL!Init
  BY DEF Init, PL!Init
<1>2. Init => StackInv
  BY StackInvInit
<1> QED BY <1>1, <1>2, StackInvStep, StepIsPointLookup, PTL DEF Spec

(***************************************************************************)
(* The inductive invariant, in named parts.                                *)
(***************************************************************************)
\* One thread at most runs the closure of the OnceLock, which is done before any mlock.
OnceOK ==
  /\ \A t \in Thread : doing[t] \in {"once_read", "once_set"} =>
       once = "running" /\ \A u \in Thread \ {t} : doing[u] \notin {"once_read", "once_set"}
  /\ \A t \in Thread : doing[t] = "mlock" => once = "done"

\* Without the privilege the hard limit is what every thread has read of it, and none
\* asks for less.
HardOK ==
  ~privileged =>
    \A t \in Thread :
      /\ doing[t] \in {"once_set", "raise_soft", "raise_hard"} => seen[t][2] = hard
      /\ doing[t] = "raise_hard" => want[t] > hard

\* Once the closure is done the soft limit is the hard one.
LimitOK == once = "done" => soft = hard

\* A thread in a lock or unlock call.
Locking(t) == call[t] \in LockCalls
Unlocking(t) == call[t] \in UnlockCalls

\* What a call promises it has done, or has still to do.
DoingOK ==
  \A t \in Thread :
    /\ doing[t] \in {"next", "once_read", "once_set", "mlock"} =>
         /\ Locking(t) => promised[t] \subseteq pinned \cup todo[t]
         /\ Unlocking(t) => promised[t] \cap pinned \subseteq todo[t]
    /\ doing[t] \in {"once_read", "once_set", "mlock"} => Locking(t)
    /\ doing[t] = "next" => Locking(t) \/ Unlocking(t)

DoneOK ==
  \A t \in Thread : answer[t] = "ok" =>
    /\ doing[t] = "idle"
    /\ Locking(t) => promised[t] \subseteq pinned
    /\ Unlocking(t) => promised[t] \cap pinned = {}

\* No thread is about to undo what another one promises.
ApartOK ==
  \A t, u \in Thread :
    doing[u] # "idle" /\ ((Locking(t) /\ Unlocking(u)) \/ (Unlocking(t) /\ Locking(u))) =>
      promised[t] \cap todo[u] = {}

IndInv ==
  /\ ProcessTypes /\ ThreadTypes
  /\ OnceOK /\ HardOK /\ LimitOK /\ DoingOK /\ DoneOK /\ ApartOK

(***************************************************************************)
(* Facts about what the calls handle and promise.                          *)
(***************************************************************************)
\* A call promises what it handles.
LEMMA Promised ==
  ASSUME present \subseteq Mapping
  PROVE  /\ \A kind \in LockCalls : Locks(kind) = Promise(kind) /\ Promise(kind) \subseteq present
         /\ \A kind \in UnlockCalls : Unlocks(kind) = Promise(kind) /\ Promise(kind) \subseteq present
<1>1. \A m \in present : m[2] \in {Bt, Kvei, Kv}
  BY DEF Mapping
<1>2. Locks("lock_index") = Promise("lock_index") /\ Promise("lock_index") \subseteq present
  BY <1>1 DEF Locks, Promise, IndexToLock, Bt, Kvei, Kv
<1>3. Locks("lock_all") = Promise("lock_all") /\ Promise("lock_all") \subseteq present
  BY <1>1 DEF Locks, Promise, IndexToLock, AllToLock, Bt, Kvei, Kv
<1>4. Unlocks("unlock_index") = Promise("unlock_index") /\ Promise("unlock_index") \subseteq present
  BY <1>1 DEF Unlocks, Promise, IndexToUnlock, Bt, Kvei, Kv
<1>5. Unlocks("unlock_all") = Promise("unlock_all") /\ Promise("unlock_all") \subseteq present
  BY <1>1 DEF Unlocks, Promise, AllToUnlock
<1> QED BY <1>2, <1>3, <1>4, <1>5 DEF LockCalls, UnlockCalls

\* A kind of call is of one sort only.
LEMMA Kinds ==
  \A c : /\ ~(c \in LockCalls /\ c \in UnlockCalls)
         /\ c \in LockCalls \cup UnlockCalls => c \notin {"none", "raise"}
BY DEF LockCalls, UnlockCalls

\* Setting a limit makes both limits equal, or does nothing; without the privilege a
\* value that is not below the hard limit changes at most the soft one, upwards.
LEMMA SetLimitFacts ==
  ASSUME ProcessTypes, NEW h \in Nat, SetLimit(h)
  PROVE  /\ soft' \in Nat /\ hard' \in Nat /\ soft' <= hard'
         /\ soft = hard => soft' = hard'
         /\ privileged \/ h <= hard => soft' = hard'
         /\ ~privileged /\ h >= hard => hard' = hard /\ soft <= soft'
BY DEF ProcessTypes, SetLimit

(***************************************************************************)
(* The invariant holds initially, and each step keeps it.                  *)
(***************************************************************************)
LEMMA LockInitInv == LockInit => IndInv
<1> SUFFICES ASSUME LockInit PROVE IndInv
  OBVIOUS
<1> USE DEF LockInit
<1>1. ProcessTypes
  <2>1. present \subseteq Mapping
    BY DEF Mapping, Bt, Kvei, Kv
  <2>2. active \subseteq Reader
    OBVIOUS
  <2>3. soft \in Nat /\ hard \in Nat /\ soft <= hard
    BY LimitsAssumption
  <2>4. calls \in 0 .. MaxCalls /\ once = "new" /\ pinned = {}
    BY LimitsAssumption
  <2> HIDE DEF LockInit
  <2> QED BY <2>1, <2>2, <2>3, <2>4 DEF ProcessTypes
<1>2. ThreadTypes
  BY DEF ThreadTypes
<1>3. OnceOK /\ HardOK /\ LimitOK /\ DoingOK /\ DoneOK /\ ApartOK
  BY DEF OnceOK, HardOK, LimitOK, DoingOK, DoneOK, ApartOK
<1> QED BY <1>1, <1>2, <1>3 DEF IndInv

\* A lock call starts.
LEMMA LockStep ==
  ASSUME IndInv, NEW t \in Thread, NEW kind \in LockCalls, Lock(t, kind)
  PROVE  IndInv'
<1>1. /\ doing[t] = "idle" /\ calls > 0 /\ calls' = calls - 1
      /\ call' = [call EXCEPT ![t] = kind] /\ todo' = [todo EXCEPT ![t] = Locks(kind)]
      /\ doing' = [doing EXCEPT ![t] = "next"] /\ answer' = [answer EXCEPT ![t] = "none"]
      /\ UNCHANGED <<process, soft, hard, once, pinned, seen, want>>
      /\ promised' = [u \in Thread |->
           IF u = t THEN IF Others(t, UnlockCalls) THEN {} ELSE Promise(kind)
           ELSE IF call[u] \in UnlockCalls THEN promised[u] \ Promise(kind)
           ELSE promised[u]]
  BY DEF Lock
<1>2. Locks(kind) = Promise(kind) /\ Promise(kind) \subseteq present
  BY Promised DEF IndInv, ProcessTypes
<1>3. /\ doing'[t] = "next" /\ call'[t] = kind /\ todo'[t] = Promise(kind) /\ answer'[t] = "none"
      /\ promised'[t] \subseteq Promise(kind)
      /\ \A u \in Thread \ {t} :
           /\ doing'[u] = doing[u] /\ call'[u] = call[u] /\ todo'[u] = todo[u]
           /\ answer'[u] = answer[u] /\ promised'[u] \subseteq promised[u]
           /\ call[u] \in UnlockCalls => promised'[u] \cap Promise(kind) = {}
  BY <1>1, <1>2 DEF IndInv, ThreadTypes
<1>4. ProcessTypes'
  BY <1>1, LimitsAssumption DEF IndInv, ProcessTypes, process
<1>5. ThreadTypes'
  <2>1. promised' \in [Thread -> SUBSET present]
    BY <1>1, <1>2 DEF IndInv, ThreadTypes
  <2>2. todo' \in [Thread -> SUBSET present]
    BY <1>1, <1>2 DEF IndInv, ThreadTypes
  <2> QED BY <1>1, <2>1, <2>2 DEF IndInv, ThreadTypes, process
<1>6. OnceOK' /\ LimitOK'
  BY <1>1, <1>3 DEF IndInv, OnceOK, LimitOK
<1>7. HardOK'
  BY <1>1, <1>3 DEF IndInv, HardOK, process
<1>8. DoingOK'
  BY <1>1, <1>3, Kinds DEF IndInv, DoingOK, Locking, Unlocking
<1>9. DoneOK'
  BY <1>1, <1>3 DEF IndInv, DoneOK, Locking, Unlocking
<1>10. ApartOK'
  <2> SUFFICES ASSUME NEW a \in Thread, NEW b \in Thread, doing'[b] # "idle",
                      \/ Locking(a)' /\ Unlocking(b)'
                      \/ Unlocking(a)' /\ Locking(b)'
               PROVE  promised'[a] \cap todo'[b] = {}
    BY DEF ApartOK
  <2>1. a # b
    BY Kinds DEF Locking, Unlocking
  <2>2. CASE a = t
    <3>1. call[b] \in UnlockCalls /\ doing[b] # "idle"
      BY <1>3, <2>1, <2>2, Kinds DEF Locking, Unlocking
    <3>2. Others(t, UnlockCalls)
      BY <2>1, <2>2, <3>1 DEF Others
    <3> QED BY <1>1, <2>2, <3>2
  <2>3. CASE b = t
    BY <1>3, <2>1, <2>3, Kinds DEF Locking, Unlocking
  <2>4. CASE a # t /\ b # t
    BY <1>3, <2>4 DEF IndInv, ApartOK, Locking, Unlocking
  <2> QED BY <2>2, <2>3, <2>4
<1> QED BY <1>4, <1>5, <1>6, <1>7, <1>8, <1>9, <1>10 DEF IndInv
\* An unlock call starts.
LEMMA UnlockStep ==
  ASSUME IndInv, NEW t \in Thread, NEW kind \in UnlockCalls, Unlock(t, kind)
  PROVE  IndInv'
<1>1. /\ doing[t] = "idle" /\ calls > 0 /\ calls' = calls - 1
      /\ call' = [call EXCEPT ![t] = kind] /\ todo' = [todo EXCEPT ![t] = Unlocks(kind)]
      /\ doing' = [doing EXCEPT ![t] = "next"] /\ answer' = [answer EXCEPT ![t] = "none"]
      /\ UNCHANGED <<process, soft, hard, once, pinned, seen, want>>
      /\ promised' = [u \in Thread |->
           IF u = t THEN IF Others(t, LockCalls) THEN {} ELSE Promise(kind)
           ELSE IF call[u] \in LockCalls THEN promised[u] \ Promise(kind)
           ELSE promised[u]]
  BY DEF Unlock
<1>2. Unlocks(kind) = Promise(kind) /\ Promise(kind) \subseteq present
  BY Promised DEF IndInv, ProcessTypes
<1>3. /\ doing'[t] = "next" /\ call'[t] = kind /\ todo'[t] = Promise(kind) /\ answer'[t] = "none"
      /\ promised'[t] \subseteq Promise(kind)
      /\ \A u \in Thread \ {t} :
           /\ doing'[u] = doing[u] /\ call'[u] = call[u] /\ todo'[u] = todo[u]
           /\ answer'[u] = answer[u] /\ promised'[u] \subseteq promised[u]
           /\ call[u] \in LockCalls => promised'[u] \cap Promise(kind) = {}
  BY <1>1, <1>2 DEF IndInv, ThreadTypes
<1>4. ProcessTypes'
  BY <1>1, LimitsAssumption DEF IndInv, ProcessTypes, process
<1>5. ThreadTypes'
  <2>1. promised' \in [Thread -> SUBSET present]
    BY <1>1, <1>2 DEF IndInv, ThreadTypes
  <2>2. todo' \in [Thread -> SUBSET present]
    BY <1>1, <1>2 DEF IndInv, ThreadTypes
  <2> QED BY <1>1, <2>1, <2>2 DEF IndInv, ThreadTypes, process
<1>6. OnceOK' /\ LimitOK'
  BY <1>1, <1>3 DEF IndInv, OnceOK, LimitOK
<1>7. HardOK'
  BY <1>1, <1>3 DEF IndInv, HardOK, process
<1>8. DoingOK'
  BY <1>1, <1>3, Kinds DEF IndInv, DoingOK, Locking, Unlocking
<1>9. DoneOK'
  BY <1>1, <1>3 DEF IndInv, DoneOK, Locking, Unlocking
<1>10. ApartOK'
  <2> SUFFICES ASSUME NEW a \in Thread, NEW b \in Thread, doing'[b] # "idle",
                      \/ Locking(a)' /\ Unlocking(b)'
                      \/ Unlocking(a)' /\ Locking(b)'
               PROVE  promised'[a] \cap todo'[b] = {}
    BY DEF ApartOK
  <2>1. a # b
    BY Kinds DEF Locking, Unlocking
  <2>2. CASE a = t
    <3>1. call[b] \in LockCalls /\ doing[b] # "idle"
      BY <1>3, <2>1, <2>2, Kinds DEF Locking, Unlocking
    <3>2. Others(t, LockCalls)
      BY <2>1, <2>2, <3>1 DEF Others
    <3> QED BY <1>1, <2>2, <3>2
  <2>3. CASE b = t
    BY <1>3, <2>1, <2>3, Kinds DEF Locking, Unlocking
  <2>4. CASE a # t /\ b # t
    BY <1>3, <2>4 DEF IndInv, ApartOK, Locking, Unlocking
  <2> QED BY <2>2, <2>3, <2>4
<1> QED BY <1>4, <1>5, <1>6, <1>7, <1>8, <1>9, <1>10 DEF IndInv

\* A step of a thread in its call that leaves what is pinned, and what is to do, alone.
LEMMA ThreadStep ==
  ASSUME IndInv, NEW t \in Thread, doing[t] # "idle",
         NEW next \in {"once_set", "once_read", "mlock", "raise_hard", "raise_reread"},
         doing' = [doing EXCEPT ![t] = next],
         UNCHANGED <<process, pinned, call, todo, answer, calls, promised, want>>,
         ProcessTypes', seen' \in [Thread -> Nat \X Nat],
         OnceOK', HardOK', LimitOK',
         next \in {"once_set", "once_read", "mlock"} =>
           doing[t] \in {"next", "once_read", "once_set"} /\ Locking(t)
  PROVE  IndInv'
<1>1. ThreadTypes'
  BY DEF IndInv, ThreadTypes, process
<1>2. /\ doing'[t] = next
      /\ \A u \in Thread \ {t} : doing'[u] = doing[u]
      /\ \A u \in Thread : doing'[u] # "idle" <=> doing[u] # "idle"
  BY DEF IndInv, ThreadTypes
<1>3. DoingOK'
  BY <1>2 DEF IndInv, DoingOK, Locking, Unlocking
<1>4. DoneOK'
  BY <1>2 DEF IndInv, DoneOK, Locking, Unlocking
<1>5. ApartOK'
  BY <1>2 DEF IndInv, ApartOK, Locking, Unlocking
<1> QED BY <1>1, <1>3, <1>4, <1>5 DEF IndInv

LEMMA EnterOnceStep ==
  ASSUME IndInv, NEW t \in Thread, EnterOnce(t)
  PROVE  IndInv'
<1>1. /\ doing[t] = "next" /\ call[t] \in LockCalls
      /\ UNCHANGED <<process, soft, hard, pinned, call, todo, seen, answer, calls, promised,
                     want>>
  BY DEF EnterOnce
<1>2. PICK next \in {"once_read", "mlock"} :
        /\ doing' = [doing EXCEPT ![t] = next]
        /\ next = "once_read" => once = "new" /\ once' = "running"
        /\ next = "mlock" => once = "done" /\ once' = "done"
  BY DEF EnterOnce
<1>3. doing'[t] = next /\ \A u \in Thread \ {t} : doing'[u] = doing[u]
  BY <1>2 DEF IndInv, ThreadTypes
<1>4. ProcessTypes'
  BY <1>1, <1>2 DEF IndInv, ProcessTypes, process
<1>5. seen' \in [Thread -> Nat \X Nat]
  BY <1>1 DEF IndInv, ThreadTypes
<1>6. OnceOK'
  BY <1>1, <1>2, <1>3 DEF IndInv, OnceOK
<1>7. HardOK'
  BY <1>1, <1>2, <1>3 DEF IndInv, HardOK, process
<1>8. LimitOK'
  BY <1>1, <1>2 DEF IndInv, LimitOK
<1> QED BY <1>1, <1>2, <1>4, <1>5, <1>6, <1>7, <1>8, ThreadStep DEF Locking

LEMMA OnceReadStep ==
  ASSUME IndInv, NEW t \in Thread, OnceRead(t)
  PROVE  IndInv'
<1>1. /\ doing[t] = "once_read" /\ seen' = [seen EXCEPT ![t] = <<soft, hard>>]
      /\ UNCHANGED <<process, soft, hard, pinned, call, todo, answer, calls, promised, want>>
  BY DEF OnceRead
<1>2. PICK next \in {"once_set", "mlock"} :
        /\ doing' = [doing EXCEPT ![t] = next]
        /\ next = "once_set" => once' = once
        /\ next = "mlock" => ~(soft < hard) /\ once' = "done"
  BY DEF OnceRead
<1>3. /\ doing'[t] = next /\ seen'[t] = <<soft, hard>>
      /\ \A u \in Thread \ {t} : doing'[u] = doing[u] /\ seen'[u] = seen[u]
  BY <1>1, <1>2 DEF IndInv, ThreadTypes
<1>4. ProcessTypes'
  BY <1>1, <1>2 DEF IndInv, ProcessTypes, process
<1>5. seen' \in [Thread -> Nat \X Nat]
  BY <1>1 DEF IndInv, ThreadTypes, ProcessTypes
<1>6. OnceOK'
  BY <1>1, <1>2, <1>3 DEF IndInv, OnceOK
<1>7. HardOK'
  BY <1>1, <1>2, <1>3 DEF IndInv, HardOK, process
<1>8. LimitOK'
  BY <1>1, <1>2 DEF IndInv, LimitOK, ProcessTypes
<1>9. Locking(t)
  BY <1>1 DEF IndInv, DoingOK
<1> QED BY <1>1, <1>2, <1>4, <1>5, <1>6, <1>7, <1>8, <1>9, ThreadStep

\* The closure's limit is set, without the privilege because it is the hard one.
LEMMA OnceSetStep ==
  ASSUME IndInv, NEW t \in Thread, OnceSet(t)
  PROVE  IndInv'
<1>1. /\ doing[t] = "once_set" /\ SetLimit(seen[t][2]) /\ once' = "done"
      /\ doing' = [doing EXCEPT ![t] = "mlock"]
      /\ UNCHANGED <<process, pinned, call, todo, seen, answer, calls, promised, want>>
  BY DEF OnceSet
<1>2. seen[t][2] \in Nat /\ hard \in Nat
  BY DEF IndInv, ThreadTypes, ProcessTypes
<1>3. ~privileged => seen[t][2] = hard
  BY <1>1 DEF IndInv, HardOK
<1>4. /\ soft' \in Nat /\ hard' \in Nat /\ soft' <= hard' /\ soft' = hard'
      /\ ~privileged => hard' = hard
  BY <1>1, <1>2, <1>3, SetLimitFacts DEF IndInv
<1>5. doing'[t] = "mlock" /\ \A u \in Thread \ {t} : doing'[u] = doing[u]
  BY <1>1 DEF IndInv, ThreadTypes
<1>6. ProcessTypes'
  BY <1>1, <1>4 DEF IndInv, ProcessTypes, process
<1>7. seen' \in [Thread -> Nat \X Nat]
  BY <1>1 DEF IndInv, ThreadTypes
<1>8. OnceOK'
  BY <1>1, <1>5 DEF IndInv, OnceOK
<1>9. HardOK'
  BY <1>1, <1>4, <1>5 DEF IndInv, HardOK, process
<1>10. LimitOK'
  BY <1>4 DEF LimitOK
<1>11. Locking(t)
  BY <1>1 DEF IndInv, DoingOK
<1> QED BY <1>1, <1>6, <1>7, <1>8, <1>9, <1>10, <1>11, ThreadStep

\* A file is pinned: it leaves what is to do for what is pinned, which nobody promised
\* to be free.
LEMMA MlockStep ==
  ASSUME IndInv, NEW t \in Thread, Mlock(t)
  PROVE  IndInv'
<1>1. PICK m \in todo[t] :
        \/ /\ pinned' = pinned \cup {m} /\ todo' = [todo EXCEPT ![t] = @ \ {m}]
           /\ doing' = [doing EXCEPT ![t] = "next"] /\ UNCHANGED answer
        \/ /\ answer' = [answer EXCEPT ![t] = "enomem"] /\ doing' = [doing EXCEPT ![t] = "idle"]
           /\ UNCHANGED <<pinned, todo>>
  BY DEF Mlock
<1>2. /\ doing[t] = "mlock"
      /\ UNCHANGED <<process, soft, hard, once, call, seen, calls, promised, want>>
  BY DEF Mlock
<1>3. Locking(t) /\ m \in present /\ ~Unlocking(t)
  BY <1>2, Kinds DEF IndInv, DoingOK, ThreadTypes, Locking, Unlocking
<1>4. CASE /\ pinned' = pinned \cup {m} /\ todo' = [todo EXCEPT ![t] = @ \ {m}]
           /\ doing' = [doing EXCEPT ![t] = "next"] /\ UNCHANGED answer
  <2>1. /\ doing'[t] = "next" /\ todo'[t] = todo[t] \ {m}
        /\ \A u \in Thread \ {t} : doing'[u] = doing[u] /\ todo'[u] = todo[u]
    BY <1>4 DEF IndInv, ThreadTypes
  <2>2. ProcessTypes'
    BY <1>2, <1>3, <1>4 DEF IndInv, ProcessTypes, process
  <2>3. ThreadTypes'
    BY <1>2, <1>4 DEF IndInv, ThreadTypes, process
  <2>4. OnceOK' /\ LimitOK'
    BY <1>2, <2>1 DEF IndInv, OnceOK, LimitOK
  <2>5. HardOK'
    BY <1>2, <2>1 DEF IndInv, HardOK, process
  <2>6. \A u \in Thread : Unlocking(u) => m \notin promised[u]
    BY <1>2, <1>3 DEF IndInv, ApartOK
  <2>7. DoingOK'
    BY <1>2, <1>3, <1>4, <2>1, <2>6 DEF IndInv, DoingOK, Locking, Unlocking
  <2>8. DoneOK'
    BY <1>2, <1>3, <1>4, <2>1, <2>6 DEF IndInv, DoneOK, Locking, Unlocking
  <2>9. ApartOK'
    BY <1>2, <2>1 DEF IndInv, ApartOK, Locking, Unlocking
  <2> QED BY <2>2, <2>3, <2>4, <2>5, <2>7, <2>8, <2>9 DEF IndInv
<1>5. CASE /\ answer' = [answer EXCEPT ![t] = "enomem"] /\ doing' = [doing EXCEPT ![t] = "idle"]
           /\ UNCHANGED <<pinned, todo>>
  <2>1. /\ doing'[t] = "idle" /\ answer'[t] = "enomem"
        /\ \A u \in Thread \ {t} : doing'[u] = doing[u] /\ answer'[u] = answer[u]
    BY <1>5 DEF IndInv, ThreadTypes
  <2>2. ProcessTypes'
    BY <1>2, <1>5 DEF IndInv, ProcessTypes, process
  <2>3. ThreadTypes'
    BY <1>2, <1>5 DEF IndInv, ThreadTypes, process
  <2>4. OnceOK' /\ LimitOK'
    BY <1>2, <2>1 DEF IndInv, OnceOK, LimitOK
  <2>5. HardOK'
    BY <1>2, <2>1 DEF IndInv, HardOK, process
  <2>6. DoingOK' /\ DoneOK'
    BY <1>2, <1>5, <2>1 DEF IndInv, DoingOK, DoneOK, Locking, Unlocking
  <2>7. ApartOK'
    BY <1>2, <1>5, <2>1 DEF IndInv, ApartOK, Locking, Unlocking
  <2> QED BY <2>2, <2>3, <2>4, <2>5, <2>6, <2>7 DEF IndInv
<1> QED BY <1>1, <1>4, <1>5

\* A file is released, which nobody promised to be pinned.
LEMMA MunlockStep ==
  ASSUME IndInv, NEW t \in Thread, Munlock(t)
  PROVE  IndInv'
<1>1. PICK m \in todo[t] :
        pinned' = pinned \ {m} /\ todo' = [todo EXCEPT ![t] = @ \ {m}]
  BY DEF Munlock
<1>2. /\ doing[t] = "next" /\ Unlocking(t) /\ ~Locking(t)
      /\ UNCHANGED <<process, soft, hard, once, doing, call, seen, answer, calls, promised, want>>
  BY Kinds DEF Munlock, Locking, Unlocking
<1>3. todo'[t] = todo[t] \ {m} /\ \A u \in Thread \ {t} : todo'[u] = todo[u]
  BY <1>1 DEF IndInv, ThreadTypes
<1>4. ProcessTypes'
  BY <1>1, <1>2 DEF IndInv, ProcessTypes, process
<1>5. ThreadTypes'
  BY <1>1, <1>2 DEF IndInv, ThreadTypes, process
<1>6. OnceOK' /\ LimitOK'
  BY <1>2 DEF IndInv, OnceOK, LimitOK
<1>7. HardOK'
  BY <1>2 DEF IndInv, HardOK, process
<1>8. \A u \in Thread : Locking(u) => m \notin promised[u]
  BY <1>2 DEF IndInv, ApartOK
<1>9. DoingOK'
  BY <1>1, <1>2, <1>3, <1>8 DEF IndInv, DoingOK, Locking, Unlocking
<1>10. DoneOK'
  BY <1>1, <1>2, <1>8 DEF IndInv, DoneOK, Locking, Unlocking
<1>11. ApartOK'
  BY <1>2, <1>3 DEF IndInv, ApartOK, Locking, Unlocking
<1> QED BY <1>4, <1>5, <1>6, <1>7, <1>9, <1>10, <1>11 DEF IndInv

LEMMA ReturnOkStep ==
  ASSUME IndInv, NEW t \in Thread, ReturnOk(t)
  PROVE  IndInv'
<1>1. /\ doing[t] = "next" /\ todo[t] = {} /\ answer' = [answer EXCEPT ![t] = "ok"]
      /\ doing' = [doing EXCEPT ![t] = "idle"]
      /\ UNCHANGED <<process, soft, hard, once, pinned, call, todo, seen, calls, promised, want>>
  BY DEF ReturnOk
<1>2. /\ doing'[t] = "idle" /\ answer'[t] = "ok"
      /\ \A u \in Thread \ {t} : doing'[u] = doing[u] /\ answer'[u] = answer[u]
  BY <1>1 DEF IndInv, ThreadTypes
<1>3. ProcessTypes'
  BY <1>1 DEF IndInv, ProcessTypes, process
<1>4. ThreadTypes'
  BY <1>1 DEF IndInv, ThreadTypes, process
<1>5. OnceOK' /\ LimitOK'
  BY <1>1, <1>2 DEF IndInv, OnceOK, LimitOK
<1>6. HardOK'
  BY <1>1, <1>2 DEF IndInv, HardOK, process
<1>7. DoingOK'
  BY <1>1, <1>2 DEF IndInv, DoingOK, Locking, Unlocking
<1>8. DoneOK'
  BY <1>1, <1>2 DEF IndInv, DoingOK, DoneOK, Locking, Unlocking
<1>9. ApartOK'
  BY <1>1, <1>2 DEF IndInv, ApartOK, Locking, Unlocking
<1> QED BY <1>3, <1>4, <1>5, <1>6, <1>7, <1>8, <1>9 DEF IndInv

LEMMA RaiseReadStep ==
  ASSUME IndInv, NEW t \in Thread, NEW w \in Wants, RaiseRead(t, w)
  PROVE  IndInv'
<1>1. /\ doing[t] = "idle" /\ calls > 0 /\ calls' = calls - 1
      /\ call' = [call EXCEPT ![t] = "raise"] /\ want' = [want EXCEPT ![t] = w]
      /\ seen' = [seen EXCEPT ![t] = <<soft, hard>>]
      /\ doing' = [doing EXCEPT ![t] = "raise_soft"] /\ answer' = [answer EXCEPT ![t] = "none"]
      /\ promised' = [promised EXCEPT ![t] = {}]
      /\ UNCHANGED <<process, soft, hard, once, pinned, todo>>
  BY DEF RaiseRead
<1>2. /\ doing'[t] = "raise_soft" /\ call'[t] = "raise" /\ answer'[t] = "none"
      /\ seen'[t] = <<soft, hard>>
      /\ \A u \in Thread \ {t} :
           /\ doing'[u] = doing[u] /\ call'[u] = call[u] /\ answer'[u] = answer[u]
           /\ seen'[u] = seen[u] /\ want'[u] = want[u] /\ promised'[u] = promised[u]
  BY <1>1 DEF IndInv, ThreadTypes
<1>3. ProcessTypes'
  BY <1>1, LimitsAssumption DEF IndInv, ProcessTypes, process
<1>4. ThreadTypes'
  <2>1. seen' \in [Thread -> Nat \X Nat] /\ want' \in [Thread -> Wants \cup {0}]
    BY <1>1 DEF IndInv, ThreadTypes, ProcessTypes
  <2> QED BY <1>1, <2>1 DEF IndInv, ThreadTypes, process
<1>5. OnceOK' /\ LimitOK'
  BY <1>1, <1>2 DEF IndInv, OnceOK, LimitOK
<1>6. HardOK'
  BY <1>1, <1>2 DEF IndInv, HardOK, process
<1>7. DoingOK' /\ DoneOK'
  BY <1>1, <1>2 DEF IndInv, DoingOK, DoneOK, Locking, Unlocking
<1>8. ~Locking(t)' /\ ~Unlocking(t)'
  BY <1>2, Kinds DEF Locking, Unlocking
<1>9. ApartOK'
  BY <1>1, <1>2, <1>8 DEF IndInv, ApartOK, Locking, Unlocking
<1> QED BY <1>3, <1>4, <1>5, <1>6, <1>7, <1>9 DEF IndInv

\* What a thread has read or asked for is a number.
LEMMA WantIsNat ==
  ASSUME IndInv, NEW t \in Thread
  PROVE  want[t] \in Nat /\ seen[t] \in Nat \X Nat /\ seen[t][2] \in Nat
<1>1. want[t] \in Wants \cup {0}
  BY DEF IndInv, ThreadTypes
<1>2. seen[t] \in Nat \X Nat
  BY DEF IndInv, ThreadTypes
<1>3. want[t] \in Nat
  <2>1. Wants \subseteq Nat
    BY LimitsAssumption
  <2>2. 0 \in Nat
    OBVIOUS
  <2> QED BY <1>1, <2>1, <2>2, Zenon
<1>4. seen[t][2] \in Nat
  BY <1>2
<1> QED BY <1>2, <1>3, <1>4

\* The limits are set, and the thread goes on.
LEMMA RaiseSetStep ==
  ASSUME IndInv, NEW t \in Thread, RaiseSoft(t) \/ RaiseHard(t)
  PROVE  IndInv'
<1> DEFINE h == IF doing[t] = "raise_soft" THEN seen[t][2] ELSE want[t]
<1>1. /\ doing[t] \in {"raise_soft", "raise_hard"} /\ SetLimit(h)
      /\ UNCHANGED <<process, once, pinned, call, todo, seen, answer, calls, promised, want>>
  BY DEF RaiseSoft, RaiseHard
<1>2. PICK next \in {"raise_hard", "raise_reread"} :
        /\ doing' = [doing EXCEPT ![t] = next]
        /\ next = "raise_hard" => want[t] > seen[t][2] /\ doing[t] = "raise_soft"
  BY DEF RaiseSoft, RaiseHard
<1>3. h \in Nat /\ hard \in Nat
  BY WantIsNat, Zenon DEF IndInv, ProcessTypes
<1>4. ~privileged => h >= hard
  BY <1>1, <1>3 DEF IndInv, HardOK
<1> HIDE DEF h
<1>5. /\ soft' \in Nat /\ hard' \in Nat /\ soft' <= hard'
      /\ soft = hard => soft' = hard'
      /\ ~privileged => hard' = hard
  BY <1>1, <1>3, <1>4, SetLimitFacts DEF IndInv
<1>6. doing'[t] = next /\ \A u \in Thread \ {t} : doing'[u] = doing[u]
  BY <1>2 DEF IndInv, ThreadTypes
<1>7. ProcessTypes'
  BY <1>1, <1>5 DEF IndInv, ProcessTypes, process
<1>8. seen' \in [Thread -> Nat \X Nat]
  BY <1>1 DEF IndInv, ThreadTypes
<1>9. OnceOK' /\ LimitOK'
  BY <1>1, <1>5, <1>6 DEF IndInv, OnceOK, LimitOK
<1>10. HardOK'
  BY <1>1, <1>2, <1>5, <1>6 DEF IndInv, HardOK, process
<1> QED BY <1>1, <1>2, <1>7, <1>8, <1>9, <1>10, ThreadStep

LEMMA RaiseRereadStep ==
  ASSUME IndInv, NEW t \in Thread, RaiseReread(t)
  PROVE  IndInv'
<1>1. /\ doing[t] = "raise_reread" /\ seen' = [seen EXCEPT ![t] = <<soft, hard>>]
      /\ answer' = [answer EXCEPT ![t] = "raised"] /\ doing' = [doing EXCEPT ![t] = "idle"]
      /\ UNCHANGED <<process, soft, hard, once, pinned, call, todo, calls, promised, want>>
  BY DEF RaiseReread
<1>2. /\ doing'[t] = "idle" /\ answer'[t] = "raised"
      /\ \A u \in Thread \ {t} :
           doing'[u] = doing[u] /\ answer'[u] = answer[u] /\ seen'[u] = seen[u]
  BY <1>1 DEF IndInv, ThreadTypes
<1>3. ProcessTypes'
  BY <1>1 DEF IndInv, ProcessTypes, process
<1>4. ThreadTypes'
  <2>1. seen' \in [Thread -> Nat \X Nat]
    BY <1>1 DEF IndInv, ThreadTypes, ProcessTypes
  <2> QED BY <1>1, <2>1 DEF IndInv, ThreadTypes, process
<1>5. OnceOK' /\ LimitOK'
  BY <1>1, <1>2 DEF IndInv, OnceOK, LimitOK
<1>6. HardOK'
  BY <1>1, <1>2 DEF IndInv, HardOK, process
<1>7. DoingOK' /\ DoneOK'
  BY <1>1, <1>2 DEF IndInv, DoingOK, DoneOK, Locking, Unlocking
<1>8. ApartOK'
  BY <1>1, <1>2 DEF IndInv, ApartOK, Locking, Unlocking
<1> QED BY <1>3, <1>4, <1>5, <1>6, <1>7, <1>8 DEF IndInv

\* A filter is enabled while no call is under way, or nothing happens.
LEMMA EnableStep ==
  ASSUME IndInv, NEW r \in Reader, Enable(r)
  PROVE  IndInv'
<1> USE DEF Enable
<1>1. ProcessTypes'
  BY DEF IndInv, ProcessTypes
<1>2. ThreadTypes'
  BY DEF IndInv, ThreadTypes
<1>3. OnceOK' /\ LimitOK' /\ HardOK'
  BY DEF IndInv, OnceOK, LimitOK, HardOK
<1>4. DoingOK' /\ DoneOK' /\ ApartOK'
  BY DEF IndInv, DoingOK, DoneOK, ApartOK, Locking, Unlocking
<1> QED BY <1>1, <1>2, <1>3, <1>4 DEF IndInv

LEMMA StutterStep == IndInv /\ UNCHANGED lockVars => IndInv'
<1> SUFFICES ASSUME IndInv, UNCHANGED lockVars PROVE IndInv'
  OBVIOUS
<1> USE DEF lockVars
<1>1. ProcessTypes'
  BY DEF IndInv, ProcessTypes
<1>2. ThreadTypes'
  BY DEF IndInv, ThreadTypes
<1>3. OnceOK' /\ LimitOK' /\ HardOK'
  BY DEF IndInv, OnceOK, LimitOK, HardOK
<1>4. DoingOK' /\ DoneOK' /\ ApartOK'
  BY DEF IndInv, DoingOK, DoneOK, ApartOK, Locking, Unlocking
<1> QED BY <1>1, <1>2, <1>3, <1>4 DEF IndInv

LEMMA InvStep == IndInv /\ [LockNext]_lockVars => IndInv'
<1> SUFFICES ASSUME IndInv, [LockNext]_lockVars PROVE IndInv'
  OBVIOUS
<1>1. ASSUME NEW t \in Thread, Step(t) PROVE IndInv'
  BY <1>1, EnterOnceStep, OnceReadStep, OnceSetStep, MlockStep, MunlockStep, ReturnOkStep,
     RaiseSetStep, RaiseRereadStep DEF Step
<1>2. ASSUME NEW t \in Thread, NEW kind \in LockCalls, Lock(t, kind) PROVE IndInv'
  BY <1>2, LockStep
<1>3. ASSUME NEW t \in Thread, NEW kind \in UnlockCalls, Unlock(t, kind) PROVE IndInv'
  BY <1>3, UnlockStep
<1>4. ASSUME NEW t \in Thread, NEW w \in Wants, RaiseRead(t, w) PROVE IndInv'
  BY <1>4, RaiseReadStep
<1>5. ASSUME NEW r \in Reader, Enable(r) PROVE IndInv'
  BY <1>5, EnableStep
<1> QED BY <1>1, <1>2, <1>3, <1>4, <1>5, StutterStep DEF LockNext

THEOREM LockInvariance == LockSpec => []IndInv
BY LockInitInv, InvStep, PTL DEF LockSpec

(***************************************************************************)
(* The theorems.                                                           *)
(***************************************************************************)
\* Every variable has a value the code can give it, the soft limit none above the hard one.
THEOREM LockTypeCorrect == LockSpec => []TypeOK
<1>1. LockInit => privileged \in BOOLEAN
  BY DEF LockInit
<1>2. [LockNext]_lockVars => privileged' = privileged
  BY Zenon DEF LockNext, Step, lockVars, process, Lock, Unlock, EnterOnce, OnceRead, OnceSet,
     Mlock, Munlock, ReturnOk, RaiseRead, RaiseSoft, RaiseHard, RaiseReread, Enable
<1>3. privileged \in BOOLEAN /\ [LockNext]_lockVars => (privileged \in BOOLEAN)'
  BY <1>2, Zenon
<1>4. IndInv => ProcessTypes /\ ThreadTypes
  BY DEF IndInv
<1> QED BY <1>1, <1>3, <1>4, LockInvariance, PTL DEF LockSpec, TypeOK

\* What a lock returned Ok for is pinned, whoever locks or fails to lock since
\* (stack.rs:203-218).
THEOREM OkIsPinned == LockSpec => []OkMeansPinned
<1>1. IndInv => OkMeansPinned
  BY DEF IndInv, DoneOK, OkMeansPinned, Locking
<1> QED BY <1>1, LockInvariance, PTL

\* What an unlock returned Ok for is free (stack.rs:221-234).
THEOREM UnlockedIsFree == LockSpec => []UnlockedMeansFree
<1>1. IndInv => UnlockedMeansFree
  BY DEF IndInv, DoneOK, UnlockedMeansFree, Unlocking
<1> QED BY <1>1, LockInvariance, PTL

\* No thread overtakes the one that raises the limit (util.rs:137-157).
THEOREM LockAtLimit == LockSpec => []LockedAtTheLimit
<1>1. IndInv => LockedAtTheLimit
  BY DEF IndInv, OnceOK, LimitOK, LockedAtTheLimit
<1> QED BY <1>1, LockInvariance, PTL

\* Without the privilege no limit goes down (util.rs:223-238).
THEOREM NoLimitLowered == LockSpec => UnprivilegedNeverLowered
<1>1. IndInv /\ [LockNext]_lockVars => [~privileged => soft <= soft' /\ hard <= hard']_lockVars
  <2> SUFFICES ASSUME IndInv, LockNext, ~privileged PROVE soft <= soft' /\ hard <= hard'
    BY DEF lockVars, ProcessTypes, IndInv
  <2>0. soft \in Nat /\ hard \in Nat
    BY DEF IndInv, ProcessTypes
  <2>1. ASSUME NEW h \in Nat, h >= hard, SetLimit(h) PROVE soft <= soft' /\ hard <= hard'
    BY <2>0, <2>1, SetLimitFacts DEF IndInv
  <2>2. ASSUME NEW t \in Thread, OnceSet(t) PROVE soft <= soft' /\ hard <= hard'
    BY <2>0, <2>1, <2>2 DEF OnceSet, IndInv, HardOK
  <2>3. ASSUME NEW t \in Thread, RaiseSoft(t) PROVE soft <= soft' /\ hard <= hard'
    BY <2>0, <2>1, <2>3 DEF RaiseSoft, IndInv, HardOK
  <2>4. ASSUME NEW t \in Thread, RaiseHard(t) PROVE soft <= soft' /\ hard <= hard'
    <3>1. want[t] \in Nat
      BY WantIsNat
    <3> QED BY <2>0, <2>1, <2>4, <3>1 DEF RaiseHard, IndInv, HardOK
  <2>5. ASSUME UNCHANGED <<soft, hard>> PROVE soft <= soft' /\ hard <= hard'
    BY <2>0, <2>5
  <2> QED BY <2>2, <2>3, <2>4, <2>5 DEF LockNext, Step, Lock, Unlock, EnterOnce, OnceRead, Mlock,
             Munlock, ReturnOk, RaiseRead, RaiseReread, Enable
<1> QED BY <1>1, LockInvariance, PTL DEF LockSpec, UnprivilegedNeverLowered

=============================================================================
