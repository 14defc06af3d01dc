---------------------------- MODULE HuffmanProofs ----------------------------
(***************************************************************************)
(* Proofs about varints and about the codes the writer of a .kv assigns,   *)
(* for any numbers of symbols and any uses: what the tree keeps at every   *)
(* step, when a dictionary is refused, how it is read back, and that no    *)
(* other codes make a shorter file.                                        *)
(***************************************************************************)
EXTENDS Huffman, FiniteSetTheorems, WellFoundedInduction, TLAPS

(***************************************************************************)
(* Recursion over a range of integers, and the greatest of some numbers.   *)
(***************************************************************************)

\* A set of numbers that is not empty has a least one.
LEMMA LeastIs ==
  ASSUME NEW T \in SUBSET Nat, T # {}
  PROVE  \E b \in T : \A c \in T : b <= c
<1> DEFINE R == {ss \in Nat \X Nat : ss[1] < ss[2]}
<1>1. IsWellFoundedOn(R, Nat)
  BY NatLessThanWellFounded DEF OpToRel
<1> HIDE DEF R
<1>2. PICK b \in T : \A c \in T : ~ (<<c, b>> \in R)
  BY <1>1, WFMin
<1>3. \A c \in T : ~ (c < b)
  BY <1>2 DEF R
<1> QED BY <1>3

\* A bounded one has a greatest one.
LEMMA Greatest ==
  ASSUME NEW n \in Nat, NEW S \in SUBSET (0 .. n), S # {}
  PROVE  \E m \in S : \A k \in S : k <= m
<1> DEFINE T == {b \in Nat : \A m \in S : m <= b}
<1>1. n \in T /\ T \in SUBSET Nat
  OBVIOUS
<1>2. PICK b \in T : \A c \in T : b <= c
  BY <1>1, LeastIs
<1>3. b \in Nat /\ \A m \in S : m <= b /\ m \in Nat
  BY <1>2
<1>4. ASSUME b \notin S PROVE FALSE
  <2>1. \A m \in S : m <= b /\ m # b /\ m \in Nat
    BY <1>3, <1>4
  <2>2. PICK m \in S : TRUE
    OBVIOUS
  <2>3. b - 1 \in Nat /\ \A c \in S : c <= b - 1
    BY <1>3, <2>1, <2>2
  <2>4. b - 1 \in T
    BY <2>3
  <2> QED BY <1>2, <1>3, <2>4
<1> QED BY <1>3, <1>4

\* Induction up to n.
LEMMA Upto ==
  ASSUME NEW n \in Nat, NEW T, 0 \in T, \A k \in 1 .. n : k - 1 \in T => k \in T
  PROVE  \A k \in 0 .. n : k \in T
<1> DEFINE U == {m \in 0 .. n : m \notin T}
<1>1. U \in SUBSET Nat
  OBVIOUS
<1>2. ASSUME U # {} PROVE FALSE
  <2>1. PICK m \in U : \A c \in U : m <= c
    <3> HIDE DEF U
    <3> QED BY <1>1, <1>2, LeastIs
  <2>2. m \in 1 .. n /\ m - 1 \notin U /\ m - 1 \in 0 .. n
    BY <2>1
  <2> QED BY <2>1, <2>2
<1> QED BY <1>2

\* f is what the steps make of a, one after the other; they stay inside S.
AreSteps(step, n, S) == step \in [1 .. n -> [S -> S]]

AreRounds(f, n, S, a, step) ==
  f \in [0 .. n -> S] /\ f[0] = a /\ \A k \in 1 .. n : f[k] = step[k][f[k - 1]]

LEMMA Rounds ==
  ASSUME NEW n \in Nat, NEW S, NEW a \in S, NEW step, AreSteps(step, n, S)
  PROVE  \E f : AreRounds(f, n, S, a, step)
<1> DEFINE T == {m \in 0 .. n : \E f : AreRounds(f, m, S, a, step)}
<1>1. 0 \in T
  <2>1. AreRounds([k \in 0 .. 0 |-> a], 0, S, a, step)
    BY DEF AreRounds
  <2>2. \E f : AreRounds(f, 0, S, a, step)
    BY <2>1
  <2> QED BY <2>2
<1>2. ASSUME NEW m \in 1 .. n, m - 1 \in T PROVE m \in T
  <2>1. PICK f : AreRounds(f, m - 1, S, a, step)
    BY <1>2
  <2>2. /\ f \in [0 .. m - 1 -> S] /\ f[0] = a
        /\ \A k \in 1 .. m - 1 : f[k] = step[k][f[k - 1]]
    BY <2>1 DEF AreRounds
  <2> DEFINE g == [k \in 0 .. m |-> IF k = m THEN step[m][f[m - 1]] ELSE f[k]]
  <2>3. step[m][f[m - 1]] \in S
    BY <2>2 DEF AreSteps
  <2>4. g \in [0 .. m -> S]
    BY <2>2, <2>3
  <2>5. g[0] = a
    BY <2>2
  <2>6. ASSUME NEW k \in 1 .. m PROVE g[k] = step[k][g[k - 1]]
    <3>1. CASE k = m
      BY <3>1
    <3>2. CASE k # m
      <4>1. k \in 1 .. m - 1 /\ k - 1 \in 0 .. m - 1 /\ k - 1 # m
        BY <3>2
      <4>2. g[k] = f[k] /\ g[k - 1] = f[k - 1]
        BY <4>1
      <4> QED BY <2>2, <4>1, <4>2
    <3> QED BY <3>1, <3>2
  <2>7. AreRounds(g, m, S, a, step)
    <3> HIDE DEF g
    <3> QED BY <2>4, <2>5, <2>6 DEF AreRounds
  <2> HIDE DEF g
  <2> QED BY <2>7
<1>3. n \in T
  <2> HIDE DEF T
  <2> QED BY <1>1, <1>2, Upto
<1> QED BY <1>3

\* The same without an end.
AreForever(f, S, a, step) ==
  f \in [Nat -> S] /\ f[0] = a /\ \A k \in Nat \ {0} : f[k] = step[k][f[k - 1]]

LEMMA RoundsForever ==
  ASSUME NEW S, NEW a \in S, NEW step, \A n \in Nat : AreSteps([k \in 1 .. n |-> step[k]], n, S)
  PROVE  \E f : AreForever(f, S, a, step)
<1> DEFINE first(n) == [k \in 1 .. n |-> step[k]]
           run(n) == CHOOSE f : AreRounds(f, n, S, a, first(n))
           g == [n \in Nat |-> run(n)[n]]
<1>1. ASSUME NEW n \in Nat
      PROVE  /\ run(n) \in [0 .. n -> S] /\ run(n)[0] = a
             /\ \A k \in 1 .. n : run(n)[k] = step[k][run(n)[k - 1]]
  <2>1. AreSteps(first(n), n, S)
    OBVIOUS
  <2> HIDE DEF first
  <2>2. \E f : AreRounds(f, n, S, a, first(n))
    BY <2>1, Rounds
  <2>3. AreRounds(run(n), n, S, a, first(n))
    BY <2>2
  <2>4. \A k \in 1 .. n : first(n)[k] = step[k]
    BY DEF first
  <2> HIDE DEF run
  <2> QED BY <2>3, <2>4 DEF AreRounds
<1> HIDE DEF run
<1>2. ASSUME NEW n \in Nat \ {0} PROVE run(n)[n - 1] = run(n - 1)[n - 1]
  <2> DEFINE T == {k \in 0 .. n - 1 : run(n)[k] = run(n - 1)[k]}
  <2>1. n \in Nat /\ n - 1 \in Nat
    OBVIOUS
  <2>2. 0 \in T
    BY <1>1, <2>1
  <2>3. ASSUME NEW k \in 1 .. n - 1, k - 1 \in T PROVE k \in T
    <3>1. k \in 1 .. n
      OBVIOUS
    <3>2. run(n)[k] = step[k][run(n)[k - 1]]
      BY <1>1, <2>1, <3>1
    <3>3. run(n - 1)[k] = step[k][run(n - 1)[k - 1]]
      BY <1>1, <2>1
    <3> QED BY <2>3, <3>2, <3>3
  <2> HIDE DEF T
  <2>4. \A k \in 0 .. n - 1 : k \in T
    BY <2>1, <2>2, <2>3, Upto
  <2>5. n - 1 \in T
    BY <2>1, <2>4
  <2> QED BY <2>5 DEF T
<1>3. g \in [Nat -> S]
  <2>1. \A n \in Nat : run(n)[n] \in S
    BY <1>1
  <2> QED BY <2>1
<1>4. g[0] = a
  BY <1>1
<1>5. ASSUME NEW k \in Nat \ {0} PROVE g[k] = step[k][g[k - 1]]
  <2>1. k \in 1 .. k /\ k \in Nat /\ k - 1 \in Nat
    OBVIOUS
  <2>2. run(k)[k] = step[k][run(k)[k - 1]]
    BY <1>1, <2>1
  <2>3. g[k] = run(k)[k] /\ g[k - 1] = run(k - 1)[k - 1]
    BY <2>1
  <2> QED BY <1>2, <2>2, <2>3
<1> HIDE DEF g
<1>6. AreForever(g, S, a, step)
  BY <1>3, <1>4, <1>5 DEF AreForever
<1> QED BY <1>6

\* A part of a sequence.
LEMMA PartIs ==
  ASSUME NEW S, NEW s \in Seq(S), NEW a \in Nat, NEW b \in Nat, a <= b, b <= Len(s),
         NEW part, part = SubSeq(s, a + 1, b)
  PROVE  /\ part \in Seq(S) /\ Len(part) = b - a /\ DOMAIN part = 1 .. b - a
         /\ \A p \in 1 .. b - a : part[p] = s[a + p]
<1>1. part \in Seq(S) /\ Len(part) = b - a
  OBVIOUS
<1>2. DOMAIN part = 1 .. b - a
  BY <1>1
<1>3. ASSUME NEW p \in 1 .. b - a PROVE part[p] = s[a + p]
  OBVIOUS
<1> QED BY <1>1, <1>2, <1>3

(***************************************************************************)
(* Numbers in groups of bits.                                              *)
(***************************************************************************)
LEMMA Pow2Is ==
  \A n \in Nat : Pow2[n] \in Nat \ {0} /\ Pow2[n] = IF n = 0 THEN 1 ELSE 2 * Pow2[n - 1]
<1> DEFINE S == Nat \ {0}
           double == [x \in S |-> 2 * x]
           rec(p) == p = [n \in Nat |-> IF n = 0 THEN 1 ELSE 2 * p[n - 1]]
           step == [k \in Nat |-> double]
<1>1. 1 \in S /\ \A n \in Nat : AreSteps([k \in 1 .. n |-> step[k]], n, S)
  BY DEF AreSteps
<1>2. PICK f : AreForever(f, S, 1, step)
  <2> HIDE DEF step, S
  <2> QED BY <1>1, RoundsForever
<1>3. ASSUME NEW k \in Nat \ {0} PROVE f[k] = 2 * f[k - 1]
  <2>1. f[k - 1] \in S /\ k \in Nat
    BY <1>2 DEF AreForever
  <2>2. step[k] = double
    BY <2>1
  <2>3. f[k] = double[f[k - 1]]
    <3> HIDE DEF step, double
    <3> QED BY <1>2, <2>2 DEF AreForever
  <2>4. double[f[k - 1]] = 2 * f[k - 1]
    <3> HIDE DEF S
    <3> QED BY <2>1
  <2> QED BY <2>3, <2>4
<1>4. ASSUME NEW n \in Nat PROVE f[n] = IF n = 0 THEN 1 ELSE 2 * f[n - 1]
  BY <1>2, <1>3 DEF AreForever
<1>5. f = [n \in Nat |-> IF n = 0 THEN 1 ELSE 2 * f[n - 1]]
  <2>1. f = [n \in Nat |-> f[n]]
    BY <1>2 DEF AreForever
  <2> QED BY <1>4, <2>1
<1>6. rec(f)
  BY <1>5
<1>7. Pow2 = CHOOSE p : rec(p)
  BY DEF Pow2
<1>8. rec(Pow2)
  <2> HIDE DEF rec
  <2> QED BY <1>6, <1>7
<1>9. \A n \in Nat : Pow2[n] = IF n = 0 THEN 1 ELSE 2 * Pow2[n - 1]
  BY <1>8
<1>10. ASSUME NEW n \in Nat PROVE Pow2[n] \in Nat \ {0}
  <2> DEFINE T == {k \in 0 .. n : Pow2[k] \in Nat \ {0}}
  <2>1. 0 \in T
    BY <1>9
  <2>2. ASSUME NEW k \in 1 .. n, k - 1 \in T PROVE k \in T
    <3>1. k \in Nat /\ k # 0
      OBVIOUS
    <3>2. Pow2[k] = 2 * Pow2[k - 1]
      BY <1>9, <3>1
    <3> QED BY <2>2, <3>2
  <2> HIDE DEF T
  <2>3. \A k \in 0 .. n : k \in T
    BY <2>1, <2>2, Upto
  <2>4. n \in T
    BY <2>3
  <2> QED BY <2>4 DEF T
<1> QED BY <1>9, <1>10

LEMMA Pow2Add ==
  \A a, b \in Nat : Pow2[a + b] = Pow2[a] * Pow2[b]
<1> SUFFICES ASSUME NEW a \in Nat, NEW N \in Nat
             PROVE  Pow2[a + N] = Pow2[a] * Pow2[N]
  OBVIOUS
<1> DEFINE T == {b \in 0 .. N : Pow2[a + b] = Pow2[a] * Pow2[b]}
<1>1. 0 \in T
  <2>1. Pow2[0] = 1 /\ Pow2[a] \in Nat
    BY Pow2Is
  <2> QED BY <2>1
<1>2. ASSUME NEW b \in 1 .. N, b - 1 \in T PROVE b \in T
  <2>1. Pow2[a + b - 1] = Pow2[a] * Pow2[b - 1]
    BY <1>2
  <2>2. a + b \in Nat /\ a + b # 0 /\ b \in Nat /\ b # 0 /\ b - 1 \in Nat /\ a + b - 1 \in Nat
    OBVIOUS
  <2>3. Pow2[a + b] = 2 * Pow2[a + b - 1] /\ Pow2[b] = 2 * Pow2[b - 1]
    BY <2>2, Pow2Is
  <2>4. \A x, y \in Int : 2 * (x * y) = x * (2 * y)
    OBVIOUS
  <2>5. Pow2[a] \in Int /\ Pow2[b - 1] \in Int
    BY <2>2, Pow2Is
  <2> QED BY <2>1, <2>3, <2>4, <2>5
<1>3. \A b \in 0 .. N : b \in T
  <2> HIDE DEF T
  <2> QED BY <1>1, <1>2, Upto
<1>4. N \in T
  BY <1>3
<1> QED BY <1>4

\* The bits of a value of at most m groups.
GroupsWidth(m) == ValueBits - GroupBits * (MaxBytes - m)

LEMMA Widths ==
  /\ Flag \in Nat /\ Flag >= 2
  /\ \A m \in 1 .. MaxBytes : GroupsWidth(m) \in Nat /\ Pow2[GroupsWidth(m)] \in Nat \ {0}
  /\ \A m \in 1 .. MaxBytes - 1 : Pow2[GroupsWidth(m + 1)] = Pow2[GroupsWidth(m)] * Flag
  /\ GroupsWidth(MaxBytes) = ValueBits
  /\ Pow2[GroupsWidth(1)] <= Flag
<1>1. PICK N \in Nat : N = GroupBits * MaxBytes
  BY VarintAssumption
<1>2. /\ GroupBits \in Nat \ {0} /\ MaxBytes \in Nat \ {0} /\ ValueBits \in Nat
      /\ ValueBits <= N /\ ValueBits > GroupBits * (MaxBytes - 1)
  BY <1>1, VarintAssumption
<1>3. \A x, y \in Int : x * (y - 1) = x * y - x
  OBVIOUS
<1>4. GroupBits * (MaxBytes - 1) = N - GroupBits /\ GroupBits <= N
  <2>1. GroupBits * (MaxBytes - 1) \in Nat
    BY <1>2
  <2>2. GroupBits * (MaxBytes - 1) = N - GroupBits
    BY <1>1, <1>2, <1>3
  <2> QED BY <1>1, <1>2, <2>1, <2>2
<1>5. \A n \in 0 .. N : Pow2[n] \in Nat \ {0} /\ Pow2[n] = IF n = 0 THEN 1 ELSE 2 * Pow2[n - 1]
  BY <1>1, Pow2Is
<1>6. Flag \in Nat /\ Flag >= 2
  <2>1. GroupBits \in 0 .. N /\ GroupBits - 1 \in 0 .. N /\ GroupBits # 0
    BY <1>2, <1>4
  <2>2. Flag = 2 * Pow2[GroupBits - 1] /\ Pow2[GroupBits - 1] \in Nat \ {0}
    BY <1>5, <2>1 DEF Flag
  <2> QED BY <2>2
<1>7. ASSUME NEW m \in 1 .. MaxBytes
      PROVE  GroupsWidth(m) \in 1 .. N
  <2>1. PICK d \in Nat : d = MaxBytes - m
    BY <1>2
  <2>2. d <= MaxBytes - 1 /\ MaxBytes - 1 \in Nat
    BY <1>2, <2>1
  <2>3. \A x, y, z \in Nat : y <= z => x * y <= x * z /\ x * y \in Nat
    OBVIOUS
  <2>4. GroupBits * d <= GroupBits * (MaxBytes - 1) /\ GroupBits * d \in Nat
    BY <1>2, <2>2, <2>3
  <2>5. GroupsWidth(m) = ValueBits - GroupBits * d
    BY <2>1 DEF GroupsWidth
  <2> QED BY <1>2, <1>4, <2>4, <2>5
<1>8. ASSUME NEW m \in 1 .. MaxBytes - 1
      PROVE  GroupsWidth(m + 1) = GroupsWidth(m) + GroupBits
  <2>1. MaxBytes - (m + 1) = (MaxBytes - m) - 1 /\ MaxBytes - m \in Int
    BY <1>2
  <2>2. GroupBits * (MaxBytes - (m + 1)) = GroupBits * (MaxBytes - m) - GroupBits
    BY <1>2, <1>3, <2>1
  <2>3. GroupBits * (MaxBytes - m) \in Int
    BY <1>2
  <2> QED BY <1>2, <2>2, <2>3 DEF GroupsWidth
<1>9. ASSUME NEW m \in 1 .. MaxBytes - 1
      PROVE  Pow2[GroupsWidth(m + 1)] = Pow2[GroupsWidth(m)] * Flag
  <2>1. m \in 1 .. MaxBytes /\ m + 1 \in 1 .. MaxBytes
    BY <1>2
  <2>2. GroupsWidth(m) \in Nat /\ GroupsWidth(m) + GroupBits <= GroupBits * MaxBytes
    BY <1>1, <1>7, <1>8, <2>1
  <2> QED BY <1>2, <1>8, <2>2, Pow2Add DEF Flag
<1>10. GroupsWidth(MaxBytes) = ValueBits
  <2>1. MaxBytes - MaxBytes = 0 /\ GroupBits * 0 = 0
    BY <1>2
  <2> QED BY <1>2, <2>1 DEF GroupsWidth
<1>11. Pow2[GroupsWidth(1)] <= Flag
  <2>1. GroupsWidth(1) \in 1 .. GroupBits
    <3>1. GroupsWidth(1) = ValueBits - GroupBits * (MaxBytes - 1)
      BY DEF GroupsWidth
    <3> QED BY <1>2, <1>4, <3>1
  <2>2. PICK w \in 1 .. GroupBits : w = GroupsWidth(1)
    BY <2>1
  <2> DEFINE d == GroupBits - w
  <2>3. d \in Nat /\ d \in 0 .. N /\ w \in Nat /\ GroupBits = w + d /\ w \in 0 .. N
    BY <1>2, <1>4, <2>2
  <2> HIDE DEF d
  <2>4. Flag = Pow2[GroupsWidth(1)] * Pow2[d]
    BY <1>1, <1>4, <2>3, <2>2, Pow2Add DEF Flag
  <2>5. Pow2[GroupsWidth(1)] \in Nat \ {0} /\ Pow2[d] \in Nat \ {0}
    BY <1>5, <2>3, <2>2
  <2>6. \A x, y \in Nat \ {0} : x <= x * y
    OBVIOUS
  <2> QED BY <2>4, <2>5, <2>6
<1> QED BY <1>5, <1>6, <1>7, <1>9, <1>10, <1>11

\* put_uvarint: what it writes of a value, by the rounds of its loop.
LEMMA PutIs ==
  \A v \in 0 .. Pow2[ValueBits] - 1 :
    PutUvarint[v] = IF v < Flag THEN <<v>> ELSE <<Flag + (v % Flag)>> \o PutUvarint[v \div Flag]
<1> DEFINE put(f, m) ==
      f = [v \in 0 .. m |-> IF v < Flag THEN <<v>> ELSE <<Flag + (v % Flag)>> \o f[v \div Flag]]
<1>1. PICK top \in Nat : top = Pow2[ValueBits] - 1
  <2>1. Pow2[ValueBits] \in Nat \ {0}
    BY VarintAssumption, Widths DEF GroupsWidth
  <2> QED BY <2>1
<1>2. Flag \in Nat /\ Flag >= 2
  BY Widths
<1>3. \A v \in Nat : v >= Flag => v \div Flag \in Nat /\ v \div Flag < v
  BY <1>2
<1> DEFINE T == {m \in 0 .. top : \E f : put(f, m)}
<1>4. 0 \in T
  <2>1. put([v \in 0 .. 0 |-> <<v>>], 0)
    BY <1>2
  <2> HIDE DEF put
  <2>2. \E f : put(f, 0)
    BY <2>1
  <2> QED BY <1>1, <2>2
<1>5. ASSUME NEW m \in 1 .. top, m - 1 \in T PROVE m \in T
  <2>1. PICK f : put(f, m - 1)
    BY <1>5
  <2> DEFINE one(v, g) == IF v < Flag THEN <<v>> ELSE <<Flag + (v % Flag)>> \o g[v \div Flag]
             g == [v \in 0 .. m |-> IF v = m THEN one(m, f) ELSE f[v]]
  <2>2. \A v \in 0 .. m - 1 : f[v] = one(v, f)
    BY <2>1
  <2>3. ASSUME NEW v \in 0 .. m PROVE g[v] = one(v, g)
    <3>1. v >= Flag => v \div Flag \in 0 .. m - 1
      <4>1. v >= Flag => v \div Flag \in Nat /\ v \div Flag < v
        BY <1>3
      <4> QED BY <4>1
    <3>2. v >= Flag => g[v \div Flag] = f[v \div Flag]
      BY <3>1
    <3>3. one(v, g) = one(v, f)
      BY <1>2, <3>2
    <3>4. CASE v = m
      BY <3>3, <3>4
    <3>5. CASE v # m
      <4>1. v \in 0 .. m - 1
        BY <3>5
      <4>2. g[v] = f[v]
        BY <3>5
      <4> HIDE DEF one, g
      <4> QED BY <2>2, <3>3, <4>1, <4>2
    <3> QED BY <3>4, <3>5
  <2>4. g = [v \in 0 .. m |-> one(v, g)]
    <3>1. g = [v \in 0 .. m |-> g[v]]
      OBVIOUS
    <3> HIDE DEF g, one
    <3> QED BY <2>3, <3>1
  <2>5. put(g, m)
    BY <2>4
  <2> HIDE DEF put, g
  <2>6. \E h : put(h, m)
    BY <2>5
  <2> QED BY <2>6
<1>6. top \in T
  <2> HIDE DEF T
  <2> QED BY <1>1, <1>4, <1>5, Upto
<1>7. PICK f : put(f, top)
  BY <1>6
<1>8. PutUvarint = CHOOSE g : put(g, top)
  BY <1>1 DEF PutUvarint, OneGroup, Values
<1>9. put(PutUvarint, top)
  <2> HIDE DEF put
  <2> QED BY <1>7, <1>8
<1> QED BY <1>1, <1>9

\* Division is what Euclid says it is.
LEMMA Euclid ==
  ASSUME NEW a \in Nat, NEW n \in Nat \ {0}
  PROVE  a = n * (a \div n) + (a % n) /\ a \div n \in Nat /\ a % n \in 0 .. n - 1
<1>1. a = n * (a \div n) + (a % n) /\ a \div n \in Int /\ a % n \in 0 .. n - 1
  BY SMT
<1>2. a \div n \in Nat
  BY SMT
<1> QED BY <1>1, <1>2

LEMMA EuclidUnique ==
  ASSUME NEW a \in Nat, NEW n \in Nat \ {0}, NEW q \in Nat, NEW r \in Nat,
         a = n * q + r, r < n
  PROVE  a \div n = q /\ a % n = r
<1> DEFINE p == a \div n
           s == a % n
<1>1. a = n * p + s /\ p \in Int /\ s \in 0 .. n - 1
  BY Euclid
<1> HIDE DEF p, s
<1>2. \A x, y \in Int : x < y => n * x + n <= n * y
  BY SMT
<1>3. p = q
  BY <1>1, <1>2, SMT
<1>4. s = r
  BY <1>1, <1>3, SMT
<1> QED
  BY <1>3, <1>4 DEF p, s

\* p says v in groups, and r[k] is what is left of v from group k on.
IsPut(p, v, r) ==
  /\ p \in Seq(Nat) /\ Len(p) >= 1
  /\ r \in [1 .. Len(p) -> Nat] /\ r[1] = v
  /\ p[Len(p)] < Flag /\ r[Len(p)] = p[Len(p)]
  /\ \A k \in 1 .. Len(p) - 1 :
       p[k] >= Flag /\ r[k] = (p[k] % Flag) + Flag * r[k + 1]

\* A value takes no more groups than its width has, and the last of MaxBytes fits.
Fits(p, m) ==
  Len(p) <= m /\ (Len(p) = m => p[Len(p)] < Pow2[GroupsWidth(1)])

LEMMA PutFits ==
  \A v \in 0 .. Pow2[ValueBits] - 1 :
    \E r : IsPut(PutUvarint[v], v, r) /\ Fits(PutUvarint[v], MaxBytes)
<1> DEFINE top == Pow2[ValueBits] - 1
           good(m) == \A v \in 0 .. top : v < Pow2[GroupsWidth(m)] =>
                        \E r : IsPut(PutUvarint[v], v, r) /\ Fits(PutUvarint[v], m)
           T == {m \in Nat : good(m + 1)}
<1>1. /\ Flag \in Nat /\ Flag >= 2
      /\ MaxBytes \in Nat \ {0} /\ top \in Nat
  BY Widths, VarintAssumption DEF GroupsWidth
<1> HIDE DEF top
<1>2. \A v \in 0 .. top : 
        PutUvarint[v] = IF v < Flag THEN <<v>>
                        ELSE <<Flag + (v % Flag)>> \o PutUvarint[v \div Flag]
  BY PutIs DEF top
<1>3. ASSUME NEW v \in 0 .. top, v < Flag, NEW m \in Nat \ {0},
             m = 1 => v < Pow2[GroupsWidth(1)]
      PROVE  \E r : IsPut(PutUvarint[v], v, r) /\ Fits(PutUvarint[v], m)
  <2>1. PutUvarint[v] = <<v>>
    BY <1>2, <1>3
  <2>2. IsPut(<<v>>, v, [k \in 1 .. 1 |-> v])
    BY <1>3 DEF IsPut
  <2>3. Fits(<<v>>, m)
    BY <1>3 DEF Fits
  <2> QED BY <2>1, <2>2, <2>3
<1>4. 0 \in T
  <2>1. ASSUME NEW v \in 0 .. top, v < Pow2[GroupsWidth(1)]
        PROVE  \E r : IsPut(PutUvarint[v], v, r) /\ Fits(PutUvarint[v], 1)
    <3>1. v < Flag
      BY <1>1, <2>1, Widths
    <3> QED BY <1>3, <2>1, <3>1
  <2>2. good(0 + 1)
    BY <2>1
  <2> QED BY <2>2
<1>5. ASSUME NEW m \in 1 .. MaxBytes - 1, m - 1 \in T PROVE m \in T
  <2>1. good(m)
    <3>1. good((m - 1) + 1) /\ (m - 1) + 1 = m
      BY <1>5
    <3> HIDE DEF good
    <3> QED BY <3>1
  <2>2. ASSUME NEW v \in 0 .. top, v < Pow2[GroupsWidth(m + 1)]
        PROVE  \E r : IsPut(PutUvarint[v], v, r) /\ Fits(PutUvarint[v], m + 1)
    <3>1. CASE v < Flag
      BY <1>3, <3>1
    <3>2. CASE v >= Flag
      <4> DEFINE q == v \div Flag
                 d == v % Flag
      <4>1. v = Flag * q + d /\ q \in Nat /\ d \in 0 .. Flag - 1
        <5>1. v \in Nat /\ Flag \in Nat \ {0}
          BY <1>1
        <5> HIDE DEF q, d
        <5>2. v = Flag * (v \div Flag) + (v % Flag)
              /\ v \div Flag \in Nat /\ v % Flag \in 0 .. Flag - 1
          BY <5>1, Euclid
        <5> QED BY <5>2 DEF q, d
      <4>0. PutUvarint[v] = <<Flag + d>> \o PutUvarint[q]
        <5>1. ~ (v < Flag)
          BY <1>1, <3>2
        <5> QED BY <1>2, <5>1
      <4> HIDE DEF q, d
      <4>2. \A x, y \in Nat : x >= y => Flag * x >= y * Flag /\ Flag * x >= x
        BY <1>1
      <4>3. q \in 0 .. top
        BY <1>1, <4>1, <4>2
      <4>4. q < Pow2[GroupsWidth(m)]
        <5>1. Pow2[GroupsWidth(m + 1)] = Pow2[GroupsWidth(m)] * Flag /\ Pow2[GroupsWidth(m)] \in Nat
          BY <1>1, Widths
        <5> QED BY <1>1, <2>2, <4>1, <4>2, <5>1
      <4>5. PICK s : IsPut(PutUvarint[q], q, s) /\ Fits(PutUvarint[q], m)
        BY <2>1, <4>3, <4>4
      <4>6. PICK t : t = PutUvarint[q]
        OBVIOUS
      <4>7. PutUvarint[v] = <<Flag + d>> \o t
        BY <4>0, <4>6
      <4>8. PICK n \in Nat : n = Len(t)
        BY <4>5, <4>6 DEF IsPut
      <4> DEFINE p == <<Flag + d>> \o t
                 r == [k \in 1 .. n + 1 |-> IF k = 1 THEN v ELSE s[k - 1]]
      <4>9. /\ p \in Seq(Nat) /\ Len(p) = n + 1 /\ p[1] = Flag + d
            /\ \A k \in 2 .. n + 1 : p[k] = t[k - 1]
        BY <1>1, <4>1, <4>5, <4>6, <4>8 DEF IsPut
      <4>10. /\ t \in Seq(Nat) /\ n >= 1 /\ s \in [1 .. n -> Nat] /\ s[1] = q
             /\ t[n] < Flag /\ s[n] = t[n]
             /\ \A k \in 1 .. n - 1 : t[k] >= Flag /\ s[k] = (t[k] % Flag) + Flag * s[k + 1]
        BY <4>5, <4>6, <4>8 DEF IsPut
      <4> HIDE DEF p
      <4>11. (Flag + d) % Flag = d
        <5>1. Flag + d = Flag * 1 + d
          BY <1>1, <4>1
        <5> QED BY <1>1, <4>1, <5>1, EuclidUnique
      <4>12. r \in [1 .. n + 1 -> Nat] /\ r[1] = v
        BY <4>10
      <4>13. p[n + 1] < Flag /\ r[n + 1] = p[n + 1]
        <5>1. p[n + 1] = t[n] /\ r[n + 1] = s[n]
          BY <4>9, <4>10
        <5> QED BY <4>10, <5>1
      <4>14. ASSUME NEW k \in 1 .. n
             PROVE  p[k] >= Flag /\ r[k] = (p[k] % Flag) + Flag * r[k + 1]
        <5>1. r[k + 1] = s[k]
          OBVIOUS
        <5>2. CASE k = 1
          <6>1. r[k] = v /\ p[k] = Flag + d
            BY <4>9, <5>2
          <6>2. r[k + 1] = q
            BY <4>10, <5>1, <5>2
          <6>3. Flag + d >= Flag
            BY <1>1, <4>1
          <6>4. v = d + Flag * q
            <7>1. Flag * q \in Nat
              BY <1>1, <4>1
            <7> QED BY <4>1, <7>1
          <6> HIDE DEF r
          <6> QED BY <4>11, <6>1, <6>2, <6>3, <6>4
        <5>3. CASE k # 1
          <6>1. k - 1 \in 1 .. n - 1 /\ p[k] = t[k - 1] /\ r[k] = s[k - 1]
            BY <4>9, <5>3
          <6>2. (k - 1) + 1 = k
            OBVIOUS
          <6> HIDE DEF r
          <6> QED BY <4>10, <5>1, <6>1, <6>2
        <5> QED BY <5>2, <5>3
      <4> HIDE DEF r
      <4>15. IsPut(p, v, r)
        <5>1. PICK l \in Nat : l = n + 1
          OBVIOUS
        <5>2. p \in Seq(Nat) /\ Len(p) = l /\ l >= 1
          BY <4>9, <5>1
        <5>3. r \in [1 .. l -> Nat] /\ r[1] = v
          BY <4>12, <5>1
        <5>4. p[l] < Flag /\ r[l] = p[l]
          BY <4>13, <5>1
        <5>5. \A k \in 1 .. l - 1 : p[k] >= Flag /\ r[k] = (p[k] % Flag) + Flag * r[k + 1]
          <6>1. l - 1 = n
            BY <5>1
          <6> QED BY <4>14, <6>1
        <5> QED BY <5>2, <5>3, <5>4, <5>5 DEF IsPut
      <4>16. Fits(p, m + 1)
        <5>1. p[n + 1] = t[n]
          BY <4>9, <4>10
        <5> QED BY <4>5, <4>6, <4>8, <4>9, <5>1 DEF Fits
      <4> QED BY <4>7, <4>15, <4>16 DEF p
    <3> QED BY <1>1, <3>1, <3>2
  <2>3. good(m + 1)
    BY <2>2
  <2> HIDE DEF good
  <2> QED BY <2>3
<1>6. MaxBytes - 1 \in T
  <2> HIDE DEF T
  <2>1. MaxBytes - 1 \in Nat /\ MaxBytes - 1 \in 0 .. MaxBytes - 1
    BY <1>1
  <2> QED BY <1>4, <1>5, <2>1, Upto
<1>7. good(MaxBytes)
  <2>1. good((MaxBytes - 1) + 1) /\ (MaxBytes - 1) + 1 = MaxBytes
    BY <1>1, <1>6
  <2> HIDE DEF good
  <2> QED BY <2>1
<1>8. \A v \in 0 .. top : v < Pow2[GroupsWidth(MaxBytes)]
  BY <1>1, Widths DEF top
<1> QED BY <1>7, <1>8 DEF top

LEMMA ValueIs ==
  ASSUME NEW p, NEW v, NEW r, IsPut(p, v, r), NEW b,
         \A k \in 1 .. Len(p) : b[k] = p[k]
  PROVE  Value(b, Len(p)) = v
<1>1. PICK n \in Nat \ {0} : n = Len(p)
  BY DEF IsPut
<1>2. /\ r \in [1 .. n -> Nat] /\ r[1] = v /\ r[n] = p[n] /\ p[n] < Flag /\ p[n] \in Nat
      /\ \A k \in 1 .. n - 1 : r[k] = (p[k] % Flag) + Flag * r[k + 1]
  BY <1>1 DEF IsPut
<1>3. Flag \in Nat \ {0}
  BY Widths
<1>4. p[n] % Flag = p[n]
  <2>1. p[n] = Flag * 0 + p[n]
    BY <1>2, <1>3
  <2> QED BY <1>2, <1>3, <2>1, EuclidUnique
<1> DEFINE here(k, f) == (b[k] % Flag) + IF k = n THEN 0 ELSE Flag * f[k + 1]
           rec(f) == f = [k \in 1 .. n |-> here(k, f)]
<1>5. ASSUME NEW k \in 1 .. n PROVE r[k] = here(k, r)
  <2>1. b[k] = p[k]
    BY <1>1
  <2>2. CASE k = n
    BY <1>2, <1>4, <2>1, <2>2
  <2>3. CASE k # n
    BY <1>2, <2>1, <2>3
  <2> QED BY <2>2, <2>3
<1>6. rec(r)
  <2> HIDE DEF here
  <2>1. r = [k \in 1 .. n |-> r[k]]
    BY <1>2
  <2> QED BY <1>5, <2>1
<1>7. Value(b, Len(p)) = (CHOOSE f : rec(f))[1]
  BY <1>1 DEF Value
<1>8. PICK c : c = CHOOSE f : rec(f)
  OBVIOUS
<1>9. rec(c)
  <2> HIDE DEF rec
  <2> QED BY <1>6, <1>8
<1> DEFINE T == {j \in 0 .. n - 1 : c[n - j] = r[n - j]}
<1>10. \A k \in 1 .. n : c[k] = here(k, c)
  <2> HIDE DEF here
  <2> QED BY <1>9
<1>11. 0 \in T
  <2>1. n \in 1 .. n /\ n - 0 = n
    OBVIOUS
  <2>2. c[n] = r[n]
    BY <1>5, <1>10, <2>1
  <2> QED BY <2>1, <2>2
<1>12. ASSUME NEW j \in 1 .. n - 1, j - 1 \in T PROVE j \in T
  <2>1. n - j \in 1 .. n /\ n - j # n /\ (n - j) + 1 = n - (j - 1)
    OBVIOUS
  <2>2. c[(n - j) + 1] = r[(n - j) + 1]
    BY <1>12, <2>1
  <2>3. here(n - j, c) = here(n - j, r)
    BY <2>1, <2>2
  <2>4. c[n - j] = r[n - j]
    <3> HIDE DEF here
    <3> QED BY <1>5, <1>10, <2>1, <2>3
  <2> QED BY <2>4
<1>13. n - 1 \in T
  <2> HIDE DEF T
  <2>1. n - 1 \in Nat /\ n - 1 \in 0 .. n - 1
    OBVIOUS
  <2> QED BY <1>11, <1>12, <2>1, Upto
<1>14. c[1] = r[1]
  <2>1. n - (n - 1) = 1
    OBVIOUS
  <2> QED BY <1>13, <2>1
<1> QED BY <1>2, <1>7, <1>8, <1>14

\* Reads that are interrupted give back v, if anything.
ReadsAs(b, v, l) ==
  \A i \in Nat : Decode(b, i).ok => Decode(b, i) = [ok |-> TRUE, value |-> v, used |-> l]

\* The n bytes b begin with p.
Begins(b, p, n) == DOMAIN b = 1 .. n /\ Len(p) <= n /\ \A k \in 1 .. Len(p) : b[k] = p[k]

DecodesAs(b, v, l) == Decode(b, 0) = [ok |-> TRUE, value |-> v, used |-> l]

\* read_uvarint gives back what put_uvarint wrote, whatever follows, when no read is
\* interrupted; and nothing else, when some are.
LEMMA DecodeIs ==
  ASSUME NEW v \in 0 .. Pow2[ValueBits] - 1, NEW p, p = PutUvarint[v],
         NEW n \in Nat, NEW b, Begins(b, p, n)
  PROVE  /\ Len(p) \in Nat \ {0} /\ p \in Seq(Nat)
         /\ DecodesAs(b, v, Len(p))
         /\ ReadsAs(b, v, Len(p))
<1>0. DOMAIN b = 1 .. n /\ Len(p) <= n /\ \A k \in 1 .. Len(p) : b[k] = p[k]
  BY DEF Begins
<1>1. PICK r : IsPut(p, v, r) /\ Fits(p, MaxBytes)
  BY PutFits
<1>2. PICK l \in Nat \ {0} : l = Len(p)
  BY <1>1 DEF IsPut
<1>3. /\ p \in Seq(Nat) /\ p[l] < Flag
      /\ \A k \in 1 .. l - 1 : p[k] \in Nat /\ p[k] >= Flag
  <2>1. /\ p \in Seq(Nat) /\ p[l] < Flag
        /\ \A k \in 1 .. l - 1 : p[k] >= Flag
    BY <1>1, <1>2 DEF IsPut
  <2>2. \A k \in 1 .. l - 1 : p[k] \in Nat
    BY <1>2, <2>1
  <2> QED BY <2>1, <2>2
<1> DEFINE ends == {k \in DOMAIN b : b[k] < Flag}
<1>4. Flag \in Nat
  BY Widths
<1>5. l \in ends
  <2>1. l \in DOMAIN b /\ l \in 1 .. Len(p)
    BY <1>0, <1>2
  <2>2. b[l] = p[l]
    BY <1>0, <2>1
  <2> QED BY <1>3, <2>1, <2>2
<1>6. \A k \in ends : k \in Int /\ l <= k
  <2> SUFFICES ASSUME NEW k \in 1 .. n, b[k] < Flag, ~ (l <= k) PROVE FALSE
    BY <1>0
  <2>1. k \in 1 .. l - 1 /\ k \in 1 .. l
    BY <1>2
  <2>2. p[k] < Flag /\ p[k] \in Nat /\ p[k] >= Flag
    BY <1>0, <1>2, <1>3, <2>1
  <2> QED BY <1>4, <2>2
<1> HIDE DEF ends
<1>7. Min(ends) = l
  <2>1. PICK m : m = Min(ends)
    OBVIOUS
  <2>2. m \in ends /\ m <= l
    BY <1>5, <1>6, <2>1 DEF Min
  <2> QED BY <1>2, <1>6, <2>1, <2>2
<1>8. Value(b, l) = v
  BY <1>0, <1>1, <1>2, ValueIs
<1>9. b[l] = p[l] /\ l <= MaxBytes /\ (l = MaxBytes => b[l] < Pow2[GroupsWidth(1)])
  BY <1>0, <1>1, <1>2 DEF Fits
<1>10. \A j \in Nat :
         Decode(b, j) = IF \/ j + l > MaxBytes
                           \/ j + l = MaxBytes /\ ~LastByteFits(b[l])
                        THEN Failed
                        ELSE [ok |-> TRUE, value |-> v, used |-> l]
  <2>1. ends # {}
    BY <1>5
  <2> QED BY <2>1, <1>7, <1>8 DEF Decode, ends
<1>11. l = MaxBytes => LastByteFits(b[l])
  BY <1>9 DEF LastByteFits, GroupsWidth
<1>12. Decode(b, 0) = [ok |-> TRUE, value |-> v, used |-> l]
  <2>1. MaxBytes \in Nat /\ 0 + l = l
    BY VarintAssumption
  <2> QED BY <1>9, <1>10, <1>11, <2>1
<1>13. ReadsAs(b, v, l)
  BY <1>10 DEF Failed, ReadsAs
<1> QED BY <1>2, <1>3, <1>12, <1>13 DEF DecodesAs

\* uvarint of what put_uvarint wrote is the value and how many bytes it took, whatever
\* follows: for every width of a group and of a value.
THEOREM UvarintReadsBack ==
  ASSUME NEW v \in 0 .. Pow2[ValueBits] - 1, NEW S, NEW tail \in Seq(S)
  PROVE  Uvarint(PutUvarint[v] \o tail)
           = [ok |-> TRUE, value |-> v, used |-> Len(PutUvarint[v])]
<1>1. PICK p : p = PutUvarint[v]
  OBVIOUS
<1>2. p \in Seq(Nat)
  BY <1>1, PutFits DEF IsPut
<1>3. /\ p \in Seq(Nat \cup S) /\ tail \in Seq(Nat \cup S)
      /\ Len(p) \in Nat /\ Len(tail) \in Nat
  BY <1>2
<1>4. /\ DOMAIN (p \o tail) = 1 .. Len(p) + Len(tail)
      /\ \A k \in 1 .. Len(p) : (p \o tail)[k] = p[k]
  BY <1>3
<1>5. Decode(p \o tail, 0) = [ok |-> TRUE, value |-> v, used |-> Len(p)]
  <2>1. PICK b : b = p \o tail
    OBVIOUS
  <2>2. PICK n \in Nat : n = Len(p) + Len(tail)
    BY <1>3
  <2>3. Begins(b, p, n)
    BY <1>3, <1>4, <2>1, <2>2 DEF Begins
  <2>4. DecodesAs(b, v, Len(p))
    BY <1>1, <2>3, DecodeIs
  <2> QED BY <2>1, <2>4 DEF DecodesAs
<1> QED BY <1>1, <1>5 DEF Uvarint

(***************************************************************************)
(* Sums.                                                                   *)
(***************************************************************************)
\* sums[k] is the sum of the first k of n numbers.
AreSums(sums, f, n) ==
  sums \in [0 .. n -> Nat] /\ sums[0] = 0 /\ \A k \in 1 .. n : sums[k] = sums[k - 1] + f[k]

\* f has them, and the last one is the total.
LEMMA TotalIs ==
  ASSUME NEW n \in Nat, NEW f \in [1 .. n -> Nat]
  PROVE  \E sums : AreSums(sums, f, n) /\ Total(f) = sums[n]
<1> DEFINE rec(to) == to = [k \in 0 .. n |-> IF k = 0 THEN 0 ELSE to[k - 1] + f[k]]
           step == [k \in 1 .. n |-> [x \in Nat |-> x + f[k]]]
<1>1. AreSteps(step, n, Nat)
  BY DEF AreSteps
<1>2. PICK s : AreRounds(s, n, Nat, 0, step)
  <2> HIDE DEF step
  <2> QED BY <1>1, Rounds
<1>3. s \in [0 .. n -> Nat] /\ s[0] = 0 /\ \A k \in 1 .. n : s[k] = step[k][s[k - 1]]
  BY <1>2 DEF AreRounds
<1>4. ASSUME NEW k \in 1 .. n PROVE s[k] = s[k - 1] + f[k]
  <2>1. s[k - 1] \in Nat
    BY <1>3
  <2> QED BY <1>3, <2>1
<1>5. rec(s)
  <2>1. \A k \in 0 .. n : s[k] = IF k = 0 THEN 0 ELSE s[k - 1] + f[k]
    BY <1>3, <1>4
  <2> QED BY <1>3, <2>1
<1>6. Len(f) = n
  OBVIOUS
<1> DEFINE to == CHOOSE t : rec(t)
<1>7. rec(to)
  <2> HIDE DEF rec
  <2> QED BY <1>5
<1>8. Total(f) = to[n]
  BY <1>6 DEF Total
<1>9. /\ DOMAIN to = 0 .. n
      /\ \A k \in 0 .. n : to[k] = IF k = 0 THEN 0 ELSE to[k - 1] + f[k]
  <2> HIDE DEF to
  <2> QED BY <1>7
<1> HIDE DEF to
<1>10. \A k \in 0 .. n : to[k] = s[k]
  <2> DEFINE T == {k \in 0 .. n : to[k] = s[k]}
  <2>1. 0 \in T
    BY <1>3, <1>9
  <2>2. ASSUME NEW k \in 1 .. n, k - 1 \in T PROVE k \in T
    <3>1. k \in 0 .. n /\ k # 0
      OBVIOUS
    <3>2. to[k] = to[k - 1] + f[k]
      BY <1>9, <3>1
    <3> QED BY <1>4, <2>2, <3>1, <3>2
  <2> HIDE DEF T
  <2>3. \A k \in 0 .. n : k \in T
    BY <2>1, <2>2, Upto
  <2> QED BY <2>3 DEF T
<1>11. AreSums(s, f, n) /\ Total(f) = s[n]
  BY <1>3, <1>4, <1>8, <1>10 DEF AreSums
<1> QED BY <1>11

\* Whatever has the sums' steps is the sums.
LEMMA SumsAre ==
  ASSUME NEW n \in Nat, NEW f \in [1 .. n -> Nat], NEW s, AreSums(s, f, n)
  PROVE  Total(f) = s[n]
<1>1. PICK t : AreSums(t, f, n) /\ Total(f) = t[n]
  BY TotalIs
<1> DEFINE T == {k \in 0 .. n : t[k] = s[k]}
<1>2. 0 \in T
  BY <1>1 DEF AreSums
<1>3. ASSUME NEW k \in 1 .. n, k - 1 \in T PROVE k \in T
  BY <1>1, <1>3 DEF AreSums
<1> HIDE DEF T
<1>4. \A k \in 0 .. n : k \in T
  BY <1>2, <1>3, Upto
<1>5. n \in T
  BY <1>4
<1> QED BY <1>1, <1>5 DEF T

LEMMA TotalNat ==
  ASSUME NEW n \in Nat, NEW f \in [1 .. n -> Nat]
  PROVE  Total(f) \in Nat /\ (n = 0 => Total(f) = 0)
<1>1. PICK s : AreSums(s, f, n) /\ Total(f) = s[n]
  BY TotalIs
<1> QED BY <1>1 DEF AreSums

\* A sum is that of the first numbers and that of the rest.
LEMMA TotalSplit ==
  ASSUME NEW n \in Nat, NEW f \in [1 .. n -> Nat], NEW m \in 0 .. n,
         NEW g \in [1 .. m -> Nat], NEW h \in [1 .. n - m -> Nat],
         \A k \in 1 .. m : g[k] = f[k], \A k \in 1 .. n - m : h[k] = f[m + k]
  PROVE  Total(f) = Total(g) + Total(h)
<1>1. PICK s : AreSums(s, f, n) /\ Total(f) = s[n]
  BY TotalIs
<1>2. s \in [0 .. n -> Nat] /\ s[0] = 0 /\ \A k \in 1 .. n : s[k] = s[k - 1] + f[k]
  BY <1>1 DEF AreSums
<1>3. Total(g) = s[m]
  <2> DEFINE t == [k \in 0 .. m |-> s[k]]
  <2>1. \A k \in 1 .. m : s[k] = s[k - 1] + g[k]
    BY <1>2
  <2>2. \A k \in 0 .. m : s[k] \in Nat
    BY <1>2
  <2>3. AreSums(t, g, m)
    BY <1>2, <2>1, <2>2 DEF AreSums
  <2>4. t[m] = s[m] /\ m \in Nat
    OBVIOUS
  <2> HIDE DEF t
  <2>5. Total(g) = t[m]
    BY <2>3, <2>4, SumsAre
  <2> QED BY <2>4, <2>5
<1>4. PICK d \in Nat : d = n - m
  OBVIOUS
<1>5. PICK u : AreSums(u, h, d) /\ Total(h) = u[d]
  <2>1. h \in [1 .. d -> Nat]
    BY <1>4
  <2> QED BY <2>1, TotalIs
<1>6. u \in [0 .. d -> Nat] /\ u[0] = 0 /\ \A k \in 1 .. d : u[k] = u[k - 1] + h[k]
  BY <1>5 DEF AreSums
<1>7. \A k \in 0 .. d : s[m + k] = s[m] + u[k]
  <2> DEFINE T == {k \in 0 .. d : s[m + k] = s[m] + u[k]}
  <2>1. 0 \in T
    BY <1>2, <1>6
  <2>2. ASSUME NEW k \in 1 .. d, k - 1 \in T PROVE k \in T
    <3>1. s[m + (k - 1)] = s[m] + u[k - 1]
      BY <2>2
    <3>2. m + k \in 1 .. n /\ (m + k) - 1 = m + (k - 1) /\ k \in 1 .. n - m
      BY <1>4
    <3>3. s[m + k] = s[m + (k - 1)] + f[m + k]
      BY <1>2, <3>2
    <3>4. f[m + k] = h[k] /\ h[k] \in Nat
      BY <3>2
    <3>5. s[m] \in Nat /\ u[k - 1] \in Nat /\ u[k] = u[k - 1] + h[k]
      BY <1>2, <1>6
    <3> QED BY <3>1, <3>3, <3>4, <3>5
  <2> HIDE DEF T
  <2>3. \A k \in 0 .. d : k \in T
    BY <2>1, <2>2, Upto
  <2> QED BY <2>3 DEF T
<1>8. s[n] = s[m] + u[d]
  <2>1. m + d = n /\ d \in 0 .. d
    BY <1>4
  <2> QED BY <1>7, <2>1
<1> QED BY <1>1, <1>3, <1>5, <1>8

LEMMA TotalAppend ==
  ASSUME NEW n \in Nat, NEW f \in [1 .. n + 1 -> Nat], NEW g \in [1 .. n -> Nat],
         \A k \in 1 .. n : g[k] = f[k]
  PROVE  Total(f) = Total(g) + f[n + 1]
<1> DEFINE h == [k \in 1 .. 1 |-> f[n + 1]]
           s == [k \in 0 .. 1 |-> IF k = 0 THEN 0 ELSE f[n + 1]]
<1>1. f[n + 1] \in Nat
  OBVIOUS
<1>2. h \in [1 .. 1 -> Nat] /\ h[1] = f[n + 1]
  BY <1>1
<1>3. AreSums(s, h, 1) /\ s[1] = f[n + 1]
  BY <1>1 DEF AreSums
<1> HIDE DEF s, h
<1>4. Total(h) = f[n + 1]
  BY <1>2, <1>3, SumsAre
<1>5. PICK p \in Nat : p = n + 1
  OBVIOUS
<1>6. /\ f \in [1 .. p -> Nat] /\ n \in 0 .. p /\ p - n = 1
      /\ h \in [1 .. p - n -> Nat] /\ \A k \in 1 .. p - n : h[k] = f[n + k]
  BY <1>2, <1>5
<1>7. Total(f) = Total(g) + Total(h)
  BY <1>6, TotalSplit
<1> QED BY <1>4, <1>7

\* h is f and g, added place by place.
AreAdded(h, f, g, n) ==
  /\ f \in [1 .. n -> Nat] /\ g \in [1 .. n -> Nat] /\ h \in [1 .. n -> Nat]
  /\ \A k \in 1 .. n : h[k] = f[k] + g[k]

LEMMA TotalAdd ==
  ASSUME NEW n \in Nat, NEW f, NEW g, NEW h, AreAdded(h, f, g, n)
  PROVE  Total(h) = Total(f) + Total(g)
<1>0. /\ f \in [1 .. n -> Nat] /\ g \in [1 .. n -> Nat] /\ h \in [1 .. n -> Nat]
      /\ \A k \in 1 .. n : h[k] = f[k] + g[k]
  BY DEF AreAdded
<1>1. PICK s : AreSums(s, f, n) /\ Total(f) = s[n]
  BY <1>0, TotalIs
<1>2. PICK t : AreSums(t, g, n) /\ Total(g) = t[n]
  BY <1>0, TotalIs
<1>3. s \in [0 .. n -> Nat] /\ s[0] = 0 /\ \A k \in 1 .. n : s[k] = s[k - 1] + f[k]
  BY <1>1 DEF AreSums
<1>4. t \in [0 .. n -> Nat] /\ t[0] = 0 /\ \A k \in 1 .. n : t[k] = t[k - 1] + g[k]
  BY <1>2 DEF AreSums
<1> DEFINE u == [k \in 0 .. n |-> s[k] + t[k]]
<1>5. ASSUME NEW k \in 1 .. n PROVE u[k] = u[k - 1] + h[k]
  <2>1. k \in 0 .. n /\ k - 1 \in 0 .. n
    OBVIOUS
  <2>2. PICK a \in Nat, b \in Nat, x \in Nat, y \in Nat :
          a = s[k - 1] /\ b = t[k - 1] /\ x = f[k] /\ y = g[k]
    <3>1. s[k - 1] \in Nat
      BY <1>3, <2>1
    <3>2. t[k - 1] \in Nat
      BY <1>4, <2>1
    <3>3. f[k] \in Nat /\ g[k] \in Nat
      BY <1>0
    <3> QED BY <3>1, <3>2, <3>3
  <2>3. s[k] = a + x
    BY <1>3, <2>2
  <2>4. t[k] = b + y
    BY <1>4, <2>2
  <2>5. h[k] = x + y
    BY <1>0, <2>2
  <2>6. u[k] = s[k] + t[k] /\ u[k - 1] = s[k - 1] + t[k - 1]
    BY <2>1
  <2> HIDE DEF u
  <2>7. u[k] = (a + x) + (b + y) /\ u[k - 1] = a + b
    BY <2>2, <2>3, <2>4, <2>6
  <2> QED BY <2>5, <2>7
<1>6. AreSums(u, h, n)
  <2>1. u \in [0 .. n -> Nat] /\ u[0] = 0
    BY <1>3, <1>4
  <2> HIDE DEF u
  <2> QED BY <1>5, <2>1 DEF AreSums
<1>7. u[n] = s[n] + t[n]
  OBVIOUS
<1> HIDE DEF u
<1>8. Total(h) = u[n]
  BY <1>0, <1>6, SumsAre
<1> QED BY <1>1, <1>2, <1>7, <1>8

LEMMA TotalTimes ==
  ASSUME NEW n \in Nat, NEW f \in [1 .. n -> Nat], NEW c \in Nat,
         NEW h \in [1 .. n -> Nat], \A k \in 1 .. n : h[k] = c * f[k]
  PROVE  Total(h) = c * Total(f)
<1>1. PICK s : AreSums(s, f, n) /\ Total(f) = s[n]
  BY TotalIs
<1>3. s \in [0 .. n -> Nat] /\ s[0] = 0 /\ \A k \in 1 .. n : s[k] = s[k - 1] + f[k]
  BY <1>1 DEF AreSums
<1> DEFINE u == [k \in 0 .. n |-> c * s[k]]
<1>4. \A x, y \in Nat : c * (x + y) = c * x + c * y /\ c * x \in Nat
  OBVIOUS
<1>5. ASSUME NEW k \in 1 .. n PROVE u[k] = u[k - 1] + h[k]
  <2>1. s[k - 1] \in Nat /\ f[k] \in Nat /\ s[k] = s[k - 1] + f[k] /\ k \in 0 .. n /\ k - 1 \in 0 .. n
    BY <1>3
  <2>2. c * s[k] = c * s[k - 1] + c * f[k]
    BY <1>4, <2>1
  <2>3. u[k] = c * s[k] /\ u[k - 1] = c * s[k - 1]
    BY <2>1
  <2> HIDE DEF u
  <2> QED BY <2>2, <2>3
<1>6. AreSums(u, h, n)
  <2>1. u \in [0 .. n -> Nat]
    BY <1>3, <1>4
  <2>2. u[0] = 0
    BY <1>3
  <2> HIDE DEF u
  <2> QED BY <1>5, <2>1, <2>2 DEF AreSums
<1>7. u[n] = c * s[n]
  OBVIOUS
<1> HIDE DEF u
<1>8. Total(h) = u[n]
  BY <1>6, SumsAre
<1> QED BY <1>1, <1>7, <1>8

LEMMA TotalLeq ==
  ASSUME NEW n \in Nat, NEW f \in [1 .. n -> Nat], NEW g \in [1 .. n -> Nat],
         \A k \in 1 .. n : f[k] <= g[k]
  PROVE  Total(f) <= Total(g)
<1> DEFINE d == [k \in 1 .. n |-> g[k] - f[k]]
<1>1. ASSUME NEW k \in 1 .. n PROVE g[k] - f[k] \in Nat /\ g[k] = f[k] + (g[k] - f[k])
  <2>1. f[k] \in Nat /\ g[k] \in Nat /\ f[k] <= g[k]
    OBVIOUS
  <2> QED BY <2>1
<1>2. d \in [1 .. n -> Nat] /\ \A k \in 1 .. n : g[k] = f[k] + d[k]
  BY <1>1
<1> HIDE DEF d
<1>3. Total(g) = Total(f) + Total(d)
  <2>1. AreAdded(g, f, d, n)
    BY <1>2 DEF AreAdded
  <2> QED BY <2>1, TotalAdd
<1>4. Total(f) \in Nat /\ Total(d) \in Nat
  BY <1>2, TotalNat
<1> QED BY <1>3, <1>4

LEMMA TotalZero ==
  ASSUME NEW n \in Nat, NEW f \in [1 .. n -> Nat], \A k \in 1 .. n : f[k] = 0
  PROVE  Total(f) = 0
<1> DEFINE s == [k \in 0 .. n |-> 0]
<1>1. AreSums(s, f, n) /\ s[n] = 0
  BY DEF AreSums
<1> HIDE DEF s
<1> QED BY <1>1, SumsAre

\* The sum of one number and nothing else.
LEMMA TotalOne ==
  ASSUME NEW n \in Nat, NEW f \in [1 .. n -> Nat], NEW m \in 1 .. n,
         \A k \in 1 .. n : k # m => f[k] = 0
  PROVE  Total(f) = f[m]
<1> DEFINE s == [k \in 0 .. n |-> IF k < m THEN 0 ELSE f[m]]
<1>1. f[m] \in Nat
  OBVIOUS
<1>2. ASSUME NEW k \in 1 .. n PROVE s[k] = s[k - 1] + f[k]
  BY <1>1
<1>3. s \in [0 .. n -> Nat] /\ s[0] = 0 /\ s[n] = f[m]
  BY <1>1
<1> HIDE DEF s
<1>4. AreSums(s, f, n)
  BY <1>2, <1>3 DEF AreSums
<1> QED BY <1>3, <1>4, SumsAre

(***************************************************************************)
(* The numbers bits say.                                                   *)
(***************************************************************************)
Bit == {0, 1}

\* What each bit is worth.
Worth(b) == [k \in DOMAIN b |-> b[k] * Pow2[k - 1]]

LEMMA WorthIs ==
  ASSUME NEW n \in Nat, NEW b \in [1 .. n -> Bit]
  PROVE  /\ Worth(b) \in [1 .. n -> Nat]
         /\ \A k \in 1 .. n : Worth(b)[k] = b[k] * Pow2[k - 1]
         /\ Number(b) = Total(Worth(b))
<1>1. ASSUME NEW k \in 1 .. n PROVE b[k] * Pow2[k - 1] \in Nat
  <2>1. k - 1 \in Nat /\ b[k] \in Nat
    BY DEF Bit
  <2>2. Pow2[k - 1] \in Nat
    BY <2>1, Pow2Is
  <2> QED BY <2>1, <2>2
<1>2. Worth(b) = [k \in 1 .. n |-> b[k] * Pow2[k - 1]]
  BY DEF Worth
<1>3. Worth(b) \in [1 .. n -> Nat]
  BY <1>1, <1>2
<1> QED BY <1>2, <1>3 DEF Number, Worth

LEMMA NumberSplit ==
  ASSUME NEW n \in Nat, NEW b \in [1 .. n -> Bit], NEW m \in 0 .. n,
         NEW u \in [1 .. m -> Bit], NEW v \in [1 .. n - m -> Bit],
         \A k \in 1 .. m : u[k] = b[k], \A k \in 1 .. n - m : v[k] = b[m + k]
  PROVE  Number(b) = Number(u) + Pow2[m] * Number(v)
<1>1. PICK d \in Nat : d = n - m
  OBVIOUS
<1>2. PICK f : f = Worth(b)
  OBVIOUS
<1>3. /\ f \in [1 .. n -> Nat] /\ \A k \in 1 .. n : f[k] = b[k] * Pow2[k - 1]
      /\ Number(b) = Total(f)
  BY <1>2, WorthIs
<1>4. PICK g : g = Worth(u)
  OBVIOUS
<1>5. /\ g \in [1 .. m -> Nat] /\ \A k \in 1 .. m : g[k] = u[k] * Pow2[k - 1]
      /\ Number(u) = Total(g)
  BY <1>4, WorthIs
<1>6. PICK e : e = Worth(v)
  OBVIOUS
<1>7. /\ e \in [1 .. d -> Nat] /\ \A k \in 1 .. d : e[k] = v[k] * Pow2[k - 1]
      /\ Number(v) = Total(e)
  <2>1. v \in [1 .. d -> Bit]
    BY <1>1
  <2> QED BY <1>6, <2>1, WorthIs
<1>8. Pow2[m] \in Nat /\ m \in Nat
  BY Pow2Is
<1> DEFINE h == [k \in 1 .. d |-> f[m + k]]
<1>9. h \in [1 .. d -> Nat] /\ \A k \in 1 .. d : h[k] = f[m + k]
  <2>1. \A k \in 1 .. d : m + k \in 1 .. n
    BY <1>1
  <2> QED BY <1>3, <2>1
<1>10. ASSUME NEW k \in 1 .. d PROVE h[k] = Pow2[m] * e[k]
  <2>1. m + k \in 1 .. n /\ (m + k) - 1 = m + (k - 1) /\ k - 1 \in Nat /\ k \in 1 .. n - m
    BY <1>1
  <2>2. h[k] = b[m + k] * Pow2[m + (k - 1)]
    BY <1>3, <1>9, <2>1
  <2>3. Pow2[m + (k - 1)] = Pow2[m] * Pow2[k - 1] /\ Pow2[k - 1] \in Nat
    BY <1>8, <2>1, Pow2Add, Pow2Is
  <2>4. b[m + k] = v[k] /\ v[k] \in Nat
    BY <2>1 DEF Bit
  <2>5. \A x, y, z \in Nat : x * (y * z) = y * (x * z)
    BY SMT
  <2> HIDE DEF h
  <2>6. h[k] = Pow2[m] * (v[k] * Pow2[k - 1])
    BY <1>8, <2>2, <2>3, <2>4, <2>5
  <2> QED BY <1>7, <2>6
<1> HIDE DEF h
<1>11. Total(h) = Pow2[m] * Total(e)
  BY <1>7, <1>8, <1>9, <1>10, TotalTimes
<1>12. \A k \in 1 .. m : g[k] = f[k]
  <2> SUFFICES ASSUME NEW k \in 1 .. m PROVE g[k] = f[k]
    OBVIOUS
  <2>1. k \in 1 .. n
    OBVIOUS
  <2> QED BY <1>3, <1>5, <2>1
<1>13. Total(f) = Total(g) + Total(h)
  <2>1. h \in [1 .. n - m -> Nat] /\ \A k \in 1 .. n - m : h[k] = f[m + k]
    BY <1>1, <1>9
  <2> QED BY <1>3, <1>5, <1>12, <2>1, TotalSplit
<1> QED BY <1>3, <1>5, <1>7, <1>11, <1>13

LEMMA NumberLast ==
  ASSUME NEW n \in Nat, NEW b \in [1 .. n + 1 -> Bit], NEW u \in [1 .. n -> Bit],
         \A k \in 1 .. n : u[k] = b[k]
  PROVE  Number(b) = Number(u) + Pow2[n] * b[n + 1]
<1>1. PICK f : f = Worth(b)
  OBVIOUS
<1>2. PICK p \in Nat : p = n + 1
  OBVIOUS
<1>3. /\ f \in [1 .. p -> Nat] /\ \A k \in 1 .. p : f[k] = b[k] * Pow2[k - 1]
      /\ Number(b) = Total(f)
  <2>1. b \in [1 .. p -> Bit]
    BY <1>2
  <2> QED BY <1>1, <2>1, WorthIs
<1>4. PICK g : g = Worth(u)
  OBVIOUS
<1>5. /\ g \in [1 .. n -> Nat] /\ \A k \in 1 .. n : g[k] = u[k] * Pow2[k - 1]
      /\ Number(u) = Total(g)
  BY <1>4, WorthIs
<1>6. \A k \in 1 .. n : g[k] = f[k]
  <2> SUFFICES ASSUME NEW k \in 1 .. n PROVE g[k] = f[k]
    OBVIOUS
  <2>1. k \in 1 .. p
    BY <1>2
  <2> QED BY <1>3, <1>5, <2>1
<1>7. Total(f) = Total(g) + f[n + 1]
  <2>1. f \in [1 .. n + 1 -> Nat]
    BY <1>2, <1>3
  <2> QED BY <1>5, <1>6, <2>1, TotalAppend
<1>8. f[n + 1] = b[n + 1] * Pow2[n]
  <2>1. n + 1 \in 1 .. p /\ (n + 1) - 1 = n
    BY <1>2
  <2> QED BY <1>3, <2>1
<1>9. Pow2[n] \in Nat /\ b[n + 1] \in Nat
  BY Pow2Is DEF Bit
<1>10. \A x, y \in Nat : x * y = y * x
  BY SMT
<1> QED BY <1>3, <1>5, <1>7, <1>8, <1>9, <1>10

LEMMA NumberBound ==
  ASSUME NEW n \in Nat
  PROVE  \A b \in [1 .. n -> Bit] : Number(b) \in Nat /\ Number(b) < Pow2[n]
<1> DEFINE T == {m \in 0 .. n : \A b \in [1 .. m -> Bit] : Number(b) \in Nat /\ Number(b) < Pow2[m]}
<1>1. 0 \in T
  <2> SUFFICES ASSUME NEW b \in [1 .. 0 -> Bit] PROVE Number(b) \in Nat /\ Number(b) < Pow2[0]
    OBVIOUS
  <2>1. Worth(b) \in [1 .. 0 -> Nat] /\ Number(b) = Total(Worth(b)) /\ 0 \in Nat
    BY WorthIs
  <2>2. PICK f : f = Worth(b)
    OBVIOUS
  <2>3. Total(f) = 0
    <3>1. f \in [1 .. 0 -> Nat] /\ 0 \in Nat
      BY <2>1, <2>2
    <3> QED BY <3>1, TotalNat
  <2>4. Pow2[0] = 1
    BY Pow2Is
  <2> QED BY <2>1, <2>2, <2>3, <2>4
<1>2. ASSUME NEW m \in 1 .. n, m - 1 \in T PROVE m \in T
  <2> SUFFICES ASSUME NEW b \in [1 .. m -> Bit] PROVE Number(b) \in Nat /\ Number(b) < Pow2[m]
    OBVIOUS
  <2>1. PICK p \in Nat : p = m - 1
    OBVIOUS
  <2> DEFINE u == [k \in 1 .. p |-> b[k]]
  <2>2. u \in [1 .. p -> Bit] /\ \A k \in 1 .. p : u[k] = b[k]
    BY <2>1
  <2> HIDE DEF u
  <2>3. Number(u) \in Nat /\ Number(u) < Pow2[p]
    BY <1>2, <2>1, <2>2
  <2>4. b \in [1 .. p + 1 -> Bit] /\ p + 1 = m
    BY <2>1
  <2>5. Number(b) = Number(u) + Pow2[p] * b[p + 1]
    BY <2>2, <2>4, NumberLast
  <2>6. Pow2[m] = 2 * Pow2[p] /\ Pow2[p] \in Nat
    BY <2>1, Pow2Is
  <2>7. b[p + 1] = 0 \/ b[p + 1] = 1
    BY <2>4 DEF Bit
  <2>8. Pow2[p] * b[p + 1] = 0 \/ Pow2[p] * b[p + 1] = Pow2[p]
    BY <2>6, <2>7
  <2> QED BY <2>3, <2>5, <2>6, <2>8
<1> HIDE DEF T
<1>3. \A m \in 0 .. n : m \in T
  BY <1>1, <1>2, Upto
<1>4. n \in T
  BY <1>3
<1> QED BY <1>4 DEF T

\* Every number below a power of two is said by bits.
LEMMA NumberOf ==
  ASSUME NEW n \in Nat
  PROVE  \A x \in Nat : x < Pow2[n] => \E b \in [1 .. n -> Bit] : Number(b) = x
<1> DEFINE T == {m \in 0 .. n : \A x \in Nat : x < Pow2[m] => \E b \in [1 .. m -> Bit] : Number(b) = x}
<1>1. 0 \in T
  <2> SUFFICES ASSUME NEW x \in Nat, x < Pow2[0] PROVE \E b \in [1 .. 0 -> Bit] : Number(b) = x
    OBVIOUS
  <2>1. x = 0
    BY Pow2Is
  <2>2. PICK b : b = [k \in 1 .. 0 |-> 0]
    OBVIOUS
  <2>3. b \in [1 .. 0 -> Bit]
    BY <2>2 DEF Bit
  <2>4. Number(b) \in Nat /\ Number(b) < Pow2[0]
    BY <2>3, NumberBound
  <2>5. Number(b) = x
    BY <2>1, <2>4, Pow2Is
  <2> QED BY <2>3, <2>5
<1>2. ASSUME NEW m \in 1 .. n, m - 1 \in T PROVE m \in T
  <2> SUFFICES ASSUME NEW x \in Nat, x < Pow2[m] PROVE \E b \in [1 .. m -> Bit] : Number(b) = x
    OBVIOUS
  <2>1. PICK p \in Nat : p = m - 1
    OBVIOUS
  <2>2. Pow2[m] = 2 * Pow2[p] /\ Pow2[p] \in Nat
    BY <2>1, Pow2Is
  <2>3. PICK bit \in Bit, y \in Nat : x = y + Pow2[p] * bit /\ y < Pow2[p]
    <3>1. CASE x < Pow2[p]
      <4>1. x = x + Pow2[p] * 0 /\ 0 \in Bit
        BY <2>2 DEF Bit
      <4> QED BY <3>1, <4>1
    <3>2. CASE ~(x < Pow2[p])
      <4>1. x - Pow2[p] \in Nat /\ x = (x - Pow2[p]) + Pow2[p] * 1 /\ x - Pow2[p] < Pow2[p] /\ 1 \in Bit
        BY <2>2, <3>2 DEF Bit
      <4> QED BY <4>1
    <3> QED BY <3>1, <3>2
  <2>4. PICK u \in [1 .. p -> Bit] : Number(u) = y
    BY <1>2, <2>1, <2>3
  <2>5. PICK b : b = [k \in 1 .. p + 1 |-> IF k = p + 1 THEN bit ELSE u[k]]
    OBVIOUS
  <2>6. b \in [1 .. p + 1 -> Bit] /\ b[p + 1] = bit /\ \A k \in 1 .. p : u[k] = b[k]
    BY <2>5
  <2>7. Number(b) = x
    BY <2>3, <2>4, <2>6, NumberLast
  <2> QED BY <2>1, <2>6, <2>7
<1> HIDE DEF T
<1>3. \A m \in 0 .. n : m \in T
  BY <1>1, <1>2, Upto
<1>4. n \in T
  BY <1>3
<1> QED BY <1>4 DEF T

\* The first m bits are a remainder, and the others a quotient.
LEMMA NumberParts ==
  ASSUME NEW n \in Nat, NEW b \in [1 .. n -> Bit], NEW m \in 0 .. n,
         NEW u \in [1 .. m -> Bit], NEW v \in [1 .. n - m -> Bit],
         \A k \in 1 .. m : u[k] = b[k], \A k \in 1 .. n - m : v[k] = b[m + k]
  PROVE  Number(b) % Pow2[m] = Number(u) /\ Number(b) \div Pow2[m] = Number(v)
<1>1. Number(b) = Number(u) + Pow2[m] * Number(v)
  BY NumberSplit
<1>2. Number(u) \in Nat /\ Number(u) < Pow2[m]
  BY NumberBound
<1>3. n - m \in Nat
  OBVIOUS
<1>4. Number(v) \in Nat
  BY <1>3, NumberBound
<1>5. Number(b) \in Nat
  BY NumberBound
<1>6. Pow2[m] \in Nat \ {0}
  BY Pow2Is
<1>7. Number(b) = Pow2[m] * Number(v) + Number(u)
  <2>1. Pow2[m] * Number(v) \in Nat
    BY <1>4, <1>6
  <2> QED BY <1>1, <1>2, <2>1
<1>8. PICK x \in Nat, p \in Nat \ {0}, q \in Nat, r \in Nat :
        x = Number(b) /\ p = Pow2[m] /\ q = Number(v) /\ r = Number(u)
  BY <1>2, <1>4, <1>5, <1>6
<1>9. x = p * q + r /\ r < p
  BY <1>2, <1>7, <1>8
<1>10. x \div p = q /\ x % p = r
  BY <1>9, EuclidUnique
<1> QED BY <1>8, <1>10

\* Different bits say different numbers.
LEMMA NumberUnique ==
  ASSUME NEW n \in Nat
  PROVE  \A b, d \in [1 .. n -> Bit] : Number(b) = Number(d) => b = d
<1> DEFINE T == {m \in 0 .. n : \A b, d \in [1 .. m -> Bit] : Number(b) = Number(d) => b = d}
<1>1. 0 \in T
  <2> SUFFICES ASSUME NEW b \in [1 .. 0 -> Bit], NEW d \in [1 .. 0 -> Bit] PROVE b = d
    OBVIOUS
  <2> QED OBVIOUS
<1>2. ASSUME NEW m \in 1 .. n, m - 1 \in T PROVE m \in T
  <2> SUFFICES ASSUME NEW b \in [1 .. m -> Bit], NEW d \in [1 .. m -> Bit], Number(b) = Number(d)
               PROVE  b = d
    OBVIOUS
  <2>1. PICK p \in Nat : p = m - 1
    OBVIOUS
  <2>2. PICK u : u = [k \in 1 .. p |-> b[k]]
    OBVIOUS
  <2>3. PICK v : v = [k \in 1 .. p |-> d[k]]
    OBVIOUS
  <2>4. u \in [1 .. p -> Bit] /\ \A k \in 1 .. p : u[k] = b[k]
    BY <2>1, <2>2
  <2>5. v \in [1 .. p -> Bit] /\ \A k \in 1 .. p : v[k] = d[k]
    BY <2>1, <2>3
  <2>6. b \in [1 .. p + 1 -> Bit] /\ d \in [1 .. p + 1 -> Bit] /\ p + 1 = m
    BY <2>1
  <2>7. Number(b) = Number(u) + Pow2[p] * b[m] /\ Number(d) = Number(v) + Pow2[p] * d[m]
    BY <2>4, <2>5, <2>6, NumberLast
  <2>8. /\ Number(u) \in Nat /\ Number(u) < Pow2[p]
        /\ Number(v) \in Nat /\ Number(v) < Pow2[p]
    BY <2>4, <2>5, NumberBound
  <2>9. Pow2[p] \in Nat
    BY Pow2Is
  <2>10. b[m] \in {0, 1} /\ d[m] \in {0, 1}
    BY DEF Bit
  <2>11. \A x \in {0, 1} : Pow2[p] * x = IF x = 0 THEN 0 ELSE Pow2[p]
    BY <2>9
  <2>12. PICK x \in Nat, y \in Nat : x = Pow2[p] * b[m] /\ y = Pow2[p] * d[m]
    BY <2>9, <2>10
  <2>13. (x = IF b[m] = 0 THEN 0 ELSE Pow2[p]) /\ (y = IF d[m] = 0 THEN 0 ELSE Pow2[p])
    BY <2>10, <2>11, <2>12
  <2>14. Number(u) + x = Number(v) + y
    BY <2>7, <2>12
  <2>15. b[m] = d[m] /\ Number(u) = Number(v)
    BY <2>8, <2>9, <2>10, <2>13, <2>14
  <2>16. u = v
    BY <1>2, <2>1, <2>4, <2>5, <2>15
  <2>17. \A k \in 1 .. m : b[k] = d[k]
    <3> SUFFICES ASSUME NEW k \in 1 .. m PROVE b[k] = d[k]
      OBVIOUS
    <3>1. k = m \/ k \in 1 .. p
      BY <2>1
    <3> QED BY <2>4, <2>5, <2>15, <2>16, <3>1
  <2> QED BY <2>17
<1> HIDE DEF T
<1>3. \A m \in 0 .. n : m \in T
  BY <1>1, <1>2, Upto
<1>4. n \in T
  BY <1>3
<1> QED BY <1>4 DEF T

(***************************************************************************)
(* The roots that are combined.                                            *)
(***************************************************************************)
\* The symbols are in the order of their uses.
UsesOK ==
  /\ Len(uses) \in 1 .. MaxSymbols
  /\ uses \in [1 .. Len(uses) -> Nat \ {0}]
  /\ \A j, k \in 1 .. Len(uses) : j <= k => uses[j] <= uses[k]

LEMMA UsesAre ==
  ASSUME UsesOK
  PROVE  \E n \in Nat : /\ n = Len(uses) /\ n >= 1 /\ n <= MaxSymbols
                       /\ Symbol = 1 .. n /\ uses \in [1 .. n -> Nat]
                       /\ \A j, k \in 1 .. n : j <= k => uses[j] <= uses[k]
<1>1. MaxSymbols \in Nat
  BY SymbolsAssumption
<1>2. Len(uses) \in 1 .. MaxSymbols
  BY DEF UsesOK
<1>3. Len(uses) \in Nat /\ Len(uses) >= 1 /\ Len(uses) <= MaxSymbols
  BY <1>1, <1>2
<1>4. /\ uses \in [1 .. Len(uses) -> Nat]
      /\ \A j, k \in 1 .. Len(uses) : j <= k => uses[j] <= uses[k]
  BY DEF UsesOK
<1>5. Symbol = 1 .. Len(uses)
  BY <1>4 DEF Symbol
<1> QED BY <1>3, <1>4, <1>5

Subtree == [leaves : SUBSET Symbol, uses : Nat, made : Nat]

\* The subtrees of h, made before m, hold the first symbols, up to i, but for those of M.
Pool(h, i, M, m) ==
  /\ i \in 1 .. Len(uses) + 1 /\ m \in Nat /\ M \subseteq 1 .. i - 1
  /\ h \subseteq Subtree /\ IsFiniteSet(h)
  /\ \A t \in h : t.leaves # {} /\ t.leaves \subseteq (1 .. i - 1) \ M /\ t.made < m
  /\ \A t, o \in h : t # o => t.leaves \cap o.leaves = {} /\ t.made # o.made
  /\ \A s \in (1 .. i - 1) \ M : \E t \in h : s \in t.leaves

\* The root x is the subtree t, which has the least uses, less than any symbol.
TookTree(x, h, i, t) ==
  /\ t \in h /\ x.leaves = t.leaves /\ x.uses = t.uses /\ x.heap = h \ {t} /\ x.next = i
  /\ \A o \in h \ {t} : t.uses <= o.uses /\ (t.uses = o.uses => t.made < o.made)
  /\ \A j \in i .. Len(uses) : t.uses < uses[j]

\* It is the next symbol.
TookSymbol(x, h, i) ==
  /\ i \in 1 .. Len(uses) /\ x.leaves = {i} /\ x.uses = uses[i]
  /\ x.heap = h /\ x.next = i + 1
  /\ \A o \in h : uses[i] <= o.uses
  /\ \A j \in i .. Len(uses) : uses[i] <= uses[j]

Took(x, h, i) == TookSymbol(x, h, i) \/ \E t \in h : TookTree(x, h, i, t)

LEMMA LeastTree ==
  ASSUME NEW h, h \subseteq Subtree, h # {}
  PROVE  /\ Least(h) \in h
         /\ \A o \in h : \/ Least(h).uses < o.uses
                         \/ Least(h).uses = o.uses /\ Least(h).made <= o.made
<1> DEFINE U == {t.uses : t \in h}
<1>1. \A t \in h : t.uses \in Nat /\ t.made \in Nat
  BY DEF Subtree
<1>2. U \in SUBSET Nat /\ U # {}
  BY <1>1
<1>3. PICK u \in U : \A v \in U : u <= v
  <2> HIDE DEF U
  <2> QED BY <1>2, LeastIs
<1>4. u \in Nat /\ (\E t \in h : t.uses = u) /\ \A o \in h : u <= o.uses
  BY <1>2, <1>3
<1> DEFINE W == {y \in Nat : \E t \in h : t.uses = u /\ t.made = y}
<1>5. W \in SUBSET Nat /\ W # {}
  BY <1>1, <1>4
<1>6. PICK w \in W : \A y \in W : w <= y
  <2> HIDE DEF W
  <2> QED BY <1>5, LeastIs
<1>7. PICK t \in h : t.uses = u /\ t.made = w
  BY <1>6
<1>8. ASSUME NEW o \in h PROVE t.uses < o.uses \/ (t.uses = o.uses /\ t.made <= o.made)
  <2>1. u <= o.uses /\ o.uses \in Nat /\ o.made \in Nat
    BY <1>1, <1>4
  <2>2. CASE o.uses = u
    <3>1. o.made \in W
      BY <2>1, <2>2
    <3> QED BY <1>6, <1>7, <2>2, <3>1
  <2>3. CASE o.uses # u
    BY <1>4, <1>7, <2>1, <2>3
  <2> QED BY <2>2, <2>3
<1>9. \E m \in h : \A o \in h : m.uses < o.uses \/ (m.uses = o.uses /\ m.made <= o.made)
  BY <1>8
<1> QED BY <1>9 DEF Least

LEMMA TakenIs ==
  ASSUME UsesOK, NEW h, NEW i, NEW M, NEW m, Pool(h, i, M, m), h # {} \/ i <= Len(uses)
  PROVE  Took(Taken(h, i), h, i)
<1>1. PICK n \in Nat : n = Len(uses)
  BY UsesAre
<1>2. i \in 1 .. n + 1 /\ h \subseteq Subtree /\ \A t, o \in h : t # o => t.made # o.made
  BY <1>1 DEF Pool
<1>3. uses \in [1 .. n -> Nat] /\ \A j, k \in 1 .. n : j <= k => uses[j] <= uses[k]
  BY <1>1 DEF UsesOK
<1>4. \A t \in h : t.uses \in Nat /\ t.made \in Nat
  BY <1>2 DEF Subtree
<1>5. CASE TakesHeap(h, i)
  <2>1. h # {} /\ (i > n \/ Least(h).uses < uses[i])
    BY <1>1, <1>5 DEF TakesHeap
  <2>2. PICK t : t = Least(h)
    OBVIOUS
  <2>3. /\ t \in h
        /\ \A o \in h : t.uses < o.uses \/ (t.uses = o.uses /\ t.made <= o.made)
    BY <1>2, <2>1, <2>2, LeastTree
  <2>4. Taken(h, i) = [leaves |-> t.leaves, uses |-> t.uses, heap |-> h \ {t}, next |-> i]
    BY <1>5, <2>2 DEF Taken
  <2>5. ASSUME NEW o \in h \ {t} PROVE t.uses <= o.uses /\ (t.uses = o.uses => t.made < o.made)
    BY <1>2, <1>4, <2>3
  <2>6. ASSUME NEW j \in i .. n PROVE t.uses < uses[j]
    <3>1. i \in 1 .. n /\ j \in 1 .. n /\ i <= j
      BY <1>2
    <3>2. uses[i] <= uses[j] /\ uses[i] \in Nat /\ uses[j] \in Nat /\ t.uses \in Nat
      BY <1>3, <1>4, <2>3, <3>1
    <3> QED BY <2>1, <2>2, <3>1, <3>2
  <2>7. TookTree(Taken(h, i), h, i, t)
    BY <1>1, <2>3, <2>4, <2>5, <2>6 DEF TookTree
  <2> QED BY <2>3, <2>7 DEF Took
<1>6. CASE ~TakesHeap(h, i)
  <2>1. h = {} \/ (i <= n /\ ~(Least(h).uses < uses[i]))
    BY <1>1, <1>2, <1>6 DEF TakesHeap
  <2>2. i \in 1 .. n
    BY <1>1, <1>2, <2>1
  <2>3. Taken(h, i) = [leaves |-> {i}, uses |-> uses[i], heap |-> h, next |-> i + 1]
    BY <1>6 DEF Taken
  <2>4. ASSUME NEW o \in h PROVE uses[i] <= o.uses
    <3>1. h # {}
      OBVIOUS
    <3>2. PICK t : t = Least(h)
      OBVIOUS
    <3>3. t \in h /\ (t.uses < o.uses \/ t.uses = o.uses)
      BY <1>2, <3>1, <3>2, LeastTree
    <3>4. ~(t.uses < uses[i])
      BY <2>1, <3>1, <3>2
    <3>5. t.uses \in Nat /\ o.uses \in Nat /\ uses[i] \in Nat
      BY <1>3, <1>4, <2>2, <3>3
    <3> QED BY <3>3, <3>4, <3>5
  <2>5. \A j \in i .. n : uses[i] <= uses[j]
    BY <1>3, <2>2
  <2>6. TookSymbol(Taken(h, i), h, i)
    BY <1>1, <2>2, <2>3, <2>4, <2>5 DEF TookSymbol
  <2> QED BY <2>6 DEF Took
<1> QED BY <1>5, <1>6

\* What taking a root leaves of a pool.
LEMMA PoolTook ==
  ASSUME UsesOK, NEW h, NEW i, NEW M, NEW m, Pool(h, i, M, m), NEW x, Took(x, h, i)
  PROVE  /\ Pool(x.heap, x.next, M \cup x.leaves, m)
         /\ x.leaves # {} /\ x.leaves \cap M = {} /\ x.leaves \subseteq Symbol
         /\ x.uses \in Nat
         /\ Cardinality(h) \in Nat /\ Cardinality(x.heap) \in Nat
         /\ x.next - Cardinality(x.heap) = i - Cardinality(h) + 1
<1>1. PICK n \in Nat : n = Len(uses)
  BY UsesAre
<1>2. /\ i \in 1 .. n + 1 /\ m \in Nat /\ M \subseteq 1 .. i - 1
      /\ h \subseteq Subtree /\ IsFiniteSet(h)
      /\ \A t \in h : t.leaves # {} /\ t.leaves \subseteq (1 .. i - 1) \ M /\ t.made < m
      /\ \A t, o \in h : t # o => t.leaves \cap o.leaves = {} /\ t.made # o.made
      /\ \A s \in (1 .. i - 1) \ M : \E t \in h : s \in t.leaves
  BY <1>1 DEF Pool
<1>3. Symbol = 1 .. n /\ uses \in [1 .. n -> Nat]
  BY <1>1 DEF UsesOK, Symbol
<1>4. Cardinality(h) \in Nat
  BY <1>2, FS_CardinalityType
<1>5. CASE TookSymbol(x, h, i)
  <2>1. /\ i \in 1 .. n /\ x.leaves = {i} /\ x.uses = uses[i]
        /\ x.heap = h /\ x.next = i + 1
    BY <1>1, <1>5 DEF TookSymbol
  <2>2. \A t \in h : t.leaves \subseteq (1 .. (i + 1) - 1) \ (M \cup {i})
    <3> SUFFICES ASSUME NEW t \in h, NEW s \in t.leaves
                 PROVE  s \in 1 .. (i + 1) - 1 /\ s \notin M /\ s # i
      OBVIOUS
    <3>1. s \in (1 .. i - 1) \ M
      BY <1>2
    <3> QED BY <1>2, <3>1
  <2>3. \A s \in (1 .. (i + 1) - 1) \ (M \cup {i}) : s \in (1 .. i - 1) \ M
    BY <2>1
  <2>4. M \cup {i} \subseteq 1 .. (i + 1) - 1
    BY <1>2, <2>1
  <2>5. Pool(h, i + 1, M \cup {i}, m)
    <3>1. i + 1 \in 1 .. n + 1
      BY <2>1
    <3>2. \A t \in h : t.leaves # {} /\ t.made < m
      BY <1>2
    <3>3. \A s \in (1 .. (i + 1) - 1) \ (M \cup {i}) : \E t \in h : s \in t.leaves
      BY <1>2, <2>3
    <3> QED BY <1>1, <1>2, <2>2, <2>4, <3>1, <3>2, <3>3 DEF Pool
  <2>6. {i} \cap M = {} /\ {i} \subseteq Symbol /\ uses[i] \in Nat
    BY <1>2, <1>3, <2>1
  <2>7. (i + 1) - Cardinality(h) = i - Cardinality(h) + 1
    BY <1>4, <2>1
  <2> QED BY <1>4, <2>1, <2>5, <2>6, <2>7
<1>6. CASE \E t \in h : TookTree(x, h, i, t)
  <2>1. PICK t \in h : TookTree(x, h, i, t)
    BY <1>6
  <2>2. /\ x.leaves = t.leaves /\ x.uses = t.uses /\ x.heap = h \ {t} /\ x.next = i
    BY <2>1 DEF TookTree
  <2>3. PICK g : g = h \ {t}
    OBVIOUS
  <2>4. IsFiniteSet(g) /\ Cardinality(g) = Cardinality(h) - 1
    BY <1>2, <2>1, <2>3, FS_RemoveElement
  <2>5. Cardinality(g) \in Nat
    BY <2>4, FS_CardinalityType
  <2>6. t.leaves # {} /\ t.leaves \subseteq (1 .. i - 1) \ M
    BY <1>2
  <2>7. M \cup t.leaves \subseteq 1 .. i - 1
    BY <1>2, <2>6
  <2>8. \A o \in g : o.leaves \subseteq (1 .. i - 1) \ (M \cup t.leaves)
    <3> SUFFICES ASSUME NEW o \in g, NEW s \in o.leaves
                 PROVE  s \in (1 .. i - 1) \ M /\ s \notin t.leaves
      OBVIOUS
    <3>1. o \in h /\ o # t
      BY <2>3
    <3>2. o.leaves \cap t.leaves = {} /\ o.leaves \subseteq (1 .. i - 1) \ M
      BY <1>2, <3>1
    <3> QED BY <3>2
  <2>9. \A s \in (1 .. i - 1) \ (M \cup t.leaves) : \E o \in g : s \in o.leaves
    <3> SUFFICES ASSUME NEW s \in (1 .. i - 1) \ (M \cup t.leaves) PROVE \E o \in g : s \in o.leaves
      OBVIOUS
    <3>1. PICK o \in h : s \in o.leaves
      BY <1>2
    <3>2. o # t
      BY <3>1
    <3> QED BY <2>3, <3>1, <3>2
  <2>10. Pool(g, i, M \cup t.leaves, m)
    <3>1. g \subseteq h
      BY <2>3
    <3>2. \A o \in g : o.leaves # {} /\ o.made < m
      BY <1>2, <3>1
    <3>3. \A o, u \in g : o # u => o.leaves \cap u.leaves = {} /\ o.made # u.made
      BY <1>2, <3>1
    <3>4. g \subseteq Subtree
      BY <1>2, <3>1
    <3> QED BY <1>1, <1>2, <2>4, <2>7, <2>8, <2>9, <3>2, <3>3, <3>4 DEF Pool
  <2>11. i - Cardinality(g) = i - Cardinality(h) + 1
    BY <1>2, <1>4, <2>4, <2>5
  <2>12. t.uses \in Nat /\ t.leaves \subseteq Symbol
    BY <1>2 DEF Subtree
  <2> QED BY <1>4, <2>2, <2>3, <2>5, <2>6, <2>10, <2>11, <2>12
<1> QED BY <1>5, <1>6 DEF Took

(***************************************************************************)
(* The codes that the roots give their leaves.                             *)
(***************************************************************************)
\* a parts from b at bit k.
Parts(a, b, k) ==
  k \in DOMAIN a /\ k \in DOMAIN b /\ a[k] # b[k] /\ \A j \in 1 .. k - 1 : a[j] = b[j]

\* No code starts another one, and there is no bit that all codes with the same bits
\* before it agree on.
IsTree(c, L) ==
  /\ \A s, r \in L : s # r => Before(c[s], c[r]) \/ Before(c[r], c[s])
  /\ \A s \in L : \A k \in DOMAIN c[s] : \E r \in L : Parts(c[r], c[s], k)

\* The uses of some symbols.
UsesIn(L) == Total([s \in Symbol |-> IF s \in L THEN uses[s] ELSE 0])

\* Codes c are those of the subtrees of h, and the symbols from i on have none yet.
Codes(h, i, c) ==
  /\ c \in [Symbol -> Seq(Bit)]
  /\ \A s \in Symbol : s >= i => c[s] = <<>>
  /\ \A t \in h : /\ IsTree(c, t.leaves) /\ t.uses = UsesIn(t.leaves)
                  /\ \A s \in t.leaves : Len(c[s]) <= t.made + 1

\* So they are those of a root that was taken.
RootCodes(x, c, m) ==
  IsTree(c, x.leaves) /\ x.uses = UsesIn(x.leaves) /\ \A s \in x.leaves : Len(c[s]) <= m

LEMMA UsesInOne ==
  ASSUME UsesOK, NEW i \in Symbol
  PROVE  UsesIn({i}) = uses[i]
<1>1. PICK n \in Nat : n = Len(uses)
  BY UsesAre
<1>2. Symbol = 1 .. n /\ uses \in [1 .. n -> Nat]
  BY <1>1 DEF UsesOK, Symbol
<1>3. PICK f : f = [s \in Symbol |-> IF s \in {i} THEN uses[s] ELSE 0]
  OBVIOUS
<1>4. f \in [1 .. n -> Nat] /\ \A k \in 1 .. n : f[k] = IF k = i THEN uses[k] ELSE 0
  BY <1>2, <1>3
<1>5. i \in 1 .. n /\ \A k \in 1 .. n : k # i => f[k] = 0
  BY <1>2, <1>4
<1>6. Total(f) = f[i]
  BY <1>4, <1>5, TotalOne
<1> QED BY <1>3, <1>4, <1>5, <1>6 DEF UsesIn

LEMMA UsesInBoth ==
  ASSUME UsesOK, NEW L, NEW K, L \cap K = {}
  PROVE  UsesIn(L \cup K) = UsesIn(L) + UsesIn(K) /\ UsesIn(L) \in Nat
<1>1. PICK n \in Nat : n = Len(uses)
  BY UsesAre
<1>2. Symbol = 1 .. n /\ uses \in [1 .. n -> Nat]
  BY <1>1 DEF UsesOK, Symbol
<1>3. PICK f : f = [s \in Symbol |-> IF s \in L THEN uses[s] ELSE 0]
  OBVIOUS
<1>4. PICK g : g = [s \in Symbol |-> IF s \in K THEN uses[s] ELSE 0]
  OBVIOUS
<1>5. PICK h : h = [s \in Symbol |-> IF s \in L \cup K THEN uses[s] ELSE 0]
  OBVIOUS
<1>6. /\ f \in [1 .. n -> Nat] /\ g \in [1 .. n -> Nat] /\ h \in [1 .. n -> Nat]
      /\ \A k \in 1 .. n : /\ f[k] = IF k \in L THEN uses[k] ELSE 0
                           /\ g[k] = IF k \in K THEN uses[k] ELSE 0
                           /\ h[k] = IF k \in L \cup K THEN uses[k] ELSE 0
  BY <1>2, <1>3, <1>4, <1>5
<1>7. ASSUME NEW k \in 1 .. n PROVE h[k] = f[k] + g[k]
  <2>1. uses[k] \in Nat /\ ~(k \in L /\ k \in K)
    BY <1>2
  <2>2. /\ f[k] = IF k \in L THEN uses[k] ELSE 0
        /\ g[k] = IF k \in K THEN uses[k] ELSE 0
        /\ h[k] = IF k \in L \/ k \in K THEN uses[k] ELSE 0
    BY <1>6
  <2> QED BY <2>1, <2>2
<1>8. Total(h) = Total(f) + Total(g)
  <2>1. f \in [1 .. n -> Nat] /\ g \in [1 .. n -> Nat] /\ h \in [1 .. n -> Nat]
    BY <1>6
  <2>2. AreAdded(h, f, g, n)
    BY <1>7, <2>1 DEF AreAdded
  <2> QED BY <2>2, TotalAdd
<1>9. Total(f) \in Nat
  BY <1>6, TotalNat
<1> QED BY <1>3, <1>4, <1>5, <1>8, <1>9 DEF UsesIn

LEMMA CodesTook ==
  ASSUME UsesOK, NEW h, NEW i, NEW M, NEW m, Pool(h, i, M, m), NEW c, Codes(h, i, c),
         NEW x, Took(x, h, i)
  PROVE  RootCodes(x, c, m) /\ Codes(x.heap, x.next, c)
<1>1. /\ c \in [Symbol -> Seq(Bit)]
      /\ \A s \in Symbol : s >= i => c[s] = <<>>
      /\ \A t \in h : /\ IsTree(c, t.leaves) /\ t.uses = UsesIn(t.leaves)
                      /\ \A s \in t.leaves : Len(c[s]) <= t.made + 1
  BY DEF Codes
<1>2. /\ i \in Nat /\ m \in Nat /\ h \subseteq Subtree
      /\ \A t \in h : t.made \in Nat /\ t.made < m
  BY SymbolsAssumption DEF Pool, Subtree, UsesOK
<1>3. CASE TookSymbol(x, h, i)
  <2>1. /\ i \in 1 .. Len(uses) /\ x.leaves = {i} /\ x.uses = uses[i]
        /\ x.heap = h /\ x.next = i + 1
    BY <1>3 DEF TookSymbol
  <2>2. i \in Symbol
    BY <2>1 DEF UsesOK, Symbol
  <2>3. c[i] = <<>>
    BY <1>1, <1>2, <2>2
  <2>4. IsTree(c, {i})
    BY <2>3 DEF IsTree
  <2>5. x.uses = UsesIn({i})
    BY <2>1, <2>2, UsesInOne
  <2>6. \A s \in {i} : Len(c[s]) <= m
    BY <1>2, <2>3
  <2>7. \A s \in Symbol : s >= i + 1 => s >= i
    BY <1>2, SymbolsAssumption DEF Symbol, UsesOK
  <2>8. RootCodes(x, c, m)
    BY <2>1, <2>4, <2>5, <2>6 DEF RootCodes
  <2>9. Codes(h, i + 1, c)
    BY <1>1, <2>7 DEF Codes
  <2> QED BY <2>1, <2>8, <2>9
<1>4. CASE \E t \in h : TookTree(x, h, i, t)
  <2>1. PICK t \in h : TookTree(x, h, i, t)
    BY <1>4
  <2>2. /\ x.leaves = t.leaves /\ x.uses = t.uses /\ x.heap = h \ {t} /\ x.next = i
    BY <2>1 DEF TookTree
  <2>3. \A s \in t.leaves : Len(c[s]) <= m
    <3> SUFFICES ASSUME NEW s \in t.leaves PROVE Len(c[s]) <= m
      OBVIOUS
    <3>1. Len(c[s]) <= t.made + 1 /\ t.made \in Nat /\ t.made < m
      BY <1>1, <1>2
    <3>2. c[s] \in Seq(Bit)
      BY <1>1, <1>2 DEF Subtree
    <3>3. Len(c[s]) \in Nat
      BY <3>2
    <3> QED BY <1>2, <3>1, <3>3
  <2>4. RootCodes(x, c, m)
    BY <1>1, <2>2, <2>3 DEF RootCodes
  <2>5. Codes(h \ {t}, i, c)
    BY <1>1 DEF Codes
  <2> QED BY <2>2, <2>4, <2>5
<1> QED BY <1>3, <1>4 DEF Took

LEMMA AddBitIs ==
  ASSUME NEW b \in Bit, NEW a \in Seq(Bit)
  PROVE  /\ AddBit(b, a) \in Seq(Bit) /\ Len(AddBit(b, a)) = Len(a) + 1 /\ Len(a) \in Nat
         /\ DOMAIN a = 1 .. Len(a) /\ DOMAIN AddBit(b, a) = 1 .. Len(a) + 1
         /\ AddBit(b, a)[1] = b /\ \A k \in 1 .. Len(a) : AddBit(b, a)[k + 1] = a[k]
<1>1. <<b>> \in Seq(Bit) /\ Len(<<b>>) = 1
  OBVIOUS
<1>2. AddBit(b, a) = <<b>> \o a
  BY DEF AddBit
<1> QED BY <1>1, <1>2

\* A bit before two codes leaves their order.
LEMMA PartsAdd ==
  ASSUME NEW x \in Bit, NEW a \in Seq(Bit), NEW b \in Seq(Bit), NEW k \in Nat, Parts(a, b, k)
  PROVE  Parts(AddBit(x, a), AddBit(x, b), k + 1)
<1>1. PICK p : p = AddBit(x, a)
  OBVIOUS
<1>2. PICK q : q = AddBit(x, b)
  OBVIOUS
<1>3. PICK n \in Nat : n = Len(a)
  OBVIOUS
<1>4. PICK o \in Nat : o = Len(b)
  OBVIOUS
<1>5. /\ DOMAIN a = 1 .. n /\ DOMAIN p = 1 .. n + 1 /\ p[1] = x
      /\ \A j \in 1 .. n : p[j + 1] = a[j]
  <2>1. /\ DOMAIN a = 1 .. Len(a) /\ DOMAIN AddBit(x, a) = 1 .. Len(a) + 1
        /\ AddBit(x, a)[1] = x /\ \A j \in 1 .. Len(a) : AddBit(x, a)[j + 1] = a[j]
    BY AddBitIs
  <2> QED BY <1>1, <1>3, <2>1
<1>6. /\ DOMAIN b = 1 .. o /\ DOMAIN q = 1 .. o + 1 /\ q[1] = x
      /\ \A j \in 1 .. o : q[j + 1] = b[j]
  <2>1. /\ DOMAIN b = 1 .. Len(b) /\ DOMAIN AddBit(x, b) = 1 .. Len(b) + 1
        /\ AddBit(x, b)[1] = x /\ \A j \in 1 .. Len(b) : AddBit(x, b)[j + 1] = b[j]
    BY AddBitIs
  <2> QED BY <1>2, <1>4, <2>1
<1>7. k \in 1 .. n /\ k \in 1 .. o /\ a[k] # b[k] /\ \A j \in 1 .. k - 1 : a[j] = b[j]
  BY <1>5, <1>6 DEF Parts
<1>8. p[k + 1] # q[k + 1]
  BY <1>5, <1>6, <1>7
<1>9. ASSUME NEW j \in 1 .. k PROVE p[j] = q[j]
  <2>1. CASE j = 1
    BY <1>5, <1>6, <2>1
  <2>2. CASE j # 1
    <3>1. PICK l \in 1 .. k - 1 : j = l + 1
      <4>1. j - 1 \in 1 .. k - 1 /\ j = (j - 1) + 1
        BY <2>2
      <4> QED BY <4>1
    <3>2. l \in 1 .. n /\ l \in 1 .. o
      BY <1>7
    <3>3. p[l + 1] = a[l] /\ q[l + 1] = b[l] /\ a[l] = b[l]
      BY <1>5, <1>6, <1>7, <3>2
    <3> QED BY <3>1, <3>3
  <2> QED BY <2>1, <2>2
<1>10. k + 1 \in 1 .. n + 1 /\ k + 1 \in 1 .. o + 1 /\ (k + 1) - 1 = k
  BY <1>7
<1>11. Parts(p, q, k + 1)
  BY <1>5, <1>6, <1>8, <1>9, <1>10 DEF Parts
<1> QED BY <1>1, <1>2, <1>11

\* Where they part first is what orders two codes.
LEMMA BeforeIs ==
  ASSUME NEW a \in Seq(Bit), NEW b \in Seq(Bit)
  PROVE  Before(a, b) <=> \E k \in Nat : Parts(a, b, k) /\ a[k] < b[k]
<1>1. \A k \in DOMAIN a : k \in Nat /\ a[k] \in {0, 1}
  BY DEF Bit
<1>2. \A k \in DOMAIN b : b[k] \in {0, 1}
  BY DEF Bit
<1>3. \A x, y \in {0, 1} : x < y => x # y
  OBVIOUS
<1>4. ASSUME Before(a, b) PROVE \E k \in Nat : Parts(a, b, k) /\ a[k] < b[k]
  <2>1. PICK k \in DOMAIN a \cap DOMAIN b : a[k] < b[k] /\ \A j \in 1 .. k - 1 : a[j] = b[j]
    BY <1>4 DEF Before
  <2>2. a[k] # b[k] /\ k \in Nat
    BY <1>1, <1>2, <1>3, <2>1
  <2>3. Parts(a, b, k)
    BY <2>1, <2>2 DEF Parts
  <2> QED BY <2>1, <2>2, <2>3
<1>5. ASSUME NEW k \in Nat, Parts(a, b, k), a[k] < b[k] PROVE Before(a, b)
  BY <1>5 DEF Parts, Before
<1> QED BY <1>4, <1>5

LEMMA BeforeAdd ==
  ASSUME NEW x \in Bit, NEW a \in Seq(Bit), NEW b \in Seq(Bit), Before(a, b)
  PROVE  Before(AddBit(x, a), AddBit(x, b))
<1>1. PICK k \in Nat : Parts(a, b, k) /\ a[k] < b[k]
  BY BeforeIs
<1>2. Parts(AddBit(x, a), AddBit(x, b), k + 1)
  BY <1>1, PartsAdd
<1>3. k \in DOMAIN a /\ k \in DOMAIN b
  BY <1>1 DEF Parts
<1>4. k \in 1 .. Len(a) /\ k \in 1 .. Len(b)
  BY <1>3
<1>5. AddBit(x, a)[k + 1] = a[k] /\ AddBit(x, b)[k + 1] = b[k]
  <2>1. \A j \in 1 .. Len(a) : AddBit(x, a)[j + 1] = a[j]
    BY AddBitIs
  <2>2. \A j \in 1 .. Len(b) : AddBit(x, b)[j + 1] = b[j]
    BY AddBitIs
  <2> QED BY <1>4, <2>1, <2>2
<1>6. PICK p : p = AddBit(x, a)
  OBVIOUS
<1>7. PICK q : q = AddBit(x, b)
  OBVIOUS
<1>8. Parts(p, q, k + 1) /\ p[k + 1] < q[k + 1] /\ k + 1 \in Nat
  BY <1>1, <1>2, <1>5, <1>6, <1>7
<1>9. p \in Seq(Bit) /\ q \in Seq(Bit)
  BY <1>6, <1>7, AddBitIs
<1>10. Before(p, q)
  BY <1>8, <1>9, BeforeIs
<1> QED BY <1>6, <1>7, <1>10

LEMMA PartsFirst ==
  ASSUME NEW a \in Seq(Bit), NEW b \in Seq(Bit), NEW x \in Bit, NEW y \in Bit, x # y
  PROVE  /\ Parts(AddBit(x, a), AddBit(y, b), 1)
         /\ x < y => Before(AddBit(x, a), AddBit(y, b))
<1>1. PICK p : p = AddBit(x, a)
  OBVIOUS
<1>2. PICK q : q = AddBit(y, b)
  OBVIOUS
<1>3. p \in Seq(Bit) /\ 1 \in DOMAIN p /\ p[1] = x
  <2>1. /\ AddBit(x, a) \in Seq(Bit) /\ DOMAIN AddBit(x, a) = 1 .. Len(a) + 1
        /\ Len(a) \in Nat /\ AddBit(x, a)[1] = x
    BY AddBitIs
  <2> QED BY <1>1, <2>1
<1>4. q \in Seq(Bit) /\ 1 \in DOMAIN q /\ q[1] = y
  <2>1. /\ AddBit(y, b) \in Seq(Bit) /\ DOMAIN AddBit(y, b) = 1 .. Len(b) + 1
        /\ Len(b) \in Nat /\ AddBit(y, b)[1] = y
    BY AddBitIs
  <2> QED BY <1>2, <2>1
<1>5. Parts(p, q, 1)
  BY <1>3, <1>4 DEF Parts
<1>6. x < y => Before(p, q)
  BY <1>3, <1>4, <1>5, BeforeIs
<1> QED BY <1>1, <1>2, <1>5, <1>6

\* Codes d are codes c with a bit before them.
AddedTo(d, c, L, x) ==
  \A s \in L : c[s] \in Seq(Bit) /\ d[s] = AddBit(x, c[s])

\* One of two trees that are joined.
LEMMA TreeSide ==
  ASSUME NEW x \in Bit, NEW y \in Bit, x # y, NEW c, NEW d, NEW L, NEW K, K # {},
         AddedTo(d, c, L, x), AddedTo(d, c, K, y), IsTree(c, L)
  PROVE  /\ \A s, r \in L : s # r => Before(d[s], d[r]) \/ Before(d[r], d[s])
         /\ \A s \in L : \A k \in DOMAIN d[s] : \E r \in L \cup K : Parts(d[r], d[s], k)
         /\ x < y => \A s \in L : \A r \in K : Before(d[s], d[r])
<1>1. ASSUME NEW s \in L, NEW r \in L, s # r
      PROVE  Before(d[s], d[r]) \/ Before(d[r], d[s])
  <2>1. Before(c[s], c[r]) \/ Before(c[r], c[s])
    BY <1>1 DEF IsTree
  <2>2. /\ c[s] \in Seq(Bit) /\ d[s] = AddBit(x, c[s])
        /\ c[r] \in Seq(Bit) /\ d[r] = AddBit(x, c[r])
    BY DEF AddedTo
  <2> QED BY <2>1, <2>2, BeforeAdd
<1>2. ASSUME NEW s \in L, NEW k \in DOMAIN d[s]
      PROVE  \E r \in L \cup K : Parts(d[r], d[s], k)
  <2>1. c[s] \in Seq(Bit) /\ d[s] = AddBit(x, c[s])
    BY DEF AddedTo
  <2>2. PICK n \in Nat : n = Len(c[s])
    BY <2>1
  <2>3. DOMAIN c[s] = 1 .. n /\ DOMAIN d[s] = 1 .. n + 1
    <3>1. DOMAIN c[s] = 1 .. Len(c[s]) /\ DOMAIN AddBit(x, c[s]) = 1 .. Len(c[s]) + 1
      BY <2>1, AddBitIs
    <3> QED BY <2>1, <2>2, <3>1
  <2>4. CASE k = 1
    <3>1. PICK r \in K : TRUE
      OBVIOUS
    <3>2. c[r] \in Seq(Bit) /\ d[r] = AddBit(y, c[r])
      BY DEF AddedTo
    <3>3. Parts(d[r], d[s], 1)
      BY <2>1, <3>2, PartsFirst
    <3> QED BY <2>4, <3>3
  <2>5. CASE k # 1
    <3>1. PICK l \in 1 .. n : k = l + 1
      <4>1. k \in 1 .. n + 1
        BY <2>3
      <4>2. k - 1 \in 1 .. n /\ k = (k - 1) + 1
        BY <2>5, <4>1
      <4> QED BY <4>2
    <3>2. PICK r \in L : Parts(c[r], c[s], l)
      BY <2>3 DEF IsTree
    <3>3. c[r] \in Seq(Bit) /\ d[r] = AddBit(x, c[r])
      BY DEF AddedTo
    <3>4. Parts(AddBit(x, c[r]), AddBit(x, c[s]), l + 1)
      <4>1. l \in Nat
        OBVIOUS
      <4> QED BY <2>1, <3>2, <3>3, <4>1, PartsAdd
    <3> QED BY <2>1, <3>1, <3>3, <3>4
  <2> QED BY <2>4, <2>5
<1>3. ASSUME x < y, NEW s \in L, NEW r \in K PROVE Before(d[s], d[r])
  <2>1. /\ c[s] \in Seq(Bit) /\ d[s] = AddBit(x, c[s])
        /\ c[r] \in Seq(Bit) /\ d[r] = AddBit(y, c[r])
    BY DEF AddedTo
  <2> QED BY <1>3, <2>1, PartsFirst
<1> QED BY <1>1, <1>2, <1>3

LEMMA TreeJoined ==
  ASSUME NEW c, NEW d, NEW L, NEW K, L # {}, K # {},
         AddedTo(d, c, L, 0), AddedTo(d, c, K, 1), IsTree(c, L), IsTree(c, K)
  PROVE  IsTree(d, L \cup K)
<1>1. 0 \in Bit /\ 1 \in Bit /\ 0 < 1
  BY DEF Bit
<1>2. /\ \A s, r \in L : s # r => Before(d[s], d[r]) \/ Before(d[r], d[s])
      /\ \A s \in L : \A k \in DOMAIN d[s] : \E r \in L \cup K : Parts(d[r], d[s], k)
      /\ \A s \in L : \A r \in K : Before(d[s], d[r])
  BY <1>1, TreeSide
<1>3. /\ \A s, r \in K : s # r => Before(d[s], d[r]) \/ Before(d[r], d[s])
      /\ \A s \in K : \A k \in DOMAIN d[s] : \E r \in K \cup L : Parts(d[r], d[s], k)
  BY <1>1, TreeSide
<1>4. \A s, r \in L \cup K : s # r => Before(d[s], d[r]) \/ Before(d[r], d[s])
  BY <1>2, <1>3
<1>5. \A s \in L \cup K : \A k \in DOMAIN d[s] : \E r \in L \cup K : Parts(d[r], d[s], k)
  BY <1>2, <1>3
<1> QED BY <1>4, <1>5 DEF IsTree

LEMMA TreeSame ==
  ASSUME NEW c, NEW d, NEW L, \A s \in L : d[s] = c[s], IsTree(c, L)
  PROVE  IsTree(d, L)
BY DEF IsTree

\* The codes after two roots, of the leaves L and K, were joined.
NewCodes(c, L, K) ==
  [s \in Symbol |-> IF s \in L THEN AddBit(0, c[s])
                    ELSE IF s \in K THEN AddBit(1, c[s]) ELSE c[s]]

\* The subtree that two roots become.
IsJoin(r, x, y, m) ==
  r = [leaves |-> x.leaves \cup y.leaves, uses |-> x.uses + y.uses, made |-> m]

\* They are two that may be joined, with the subtrees of g left.
Joinable(g, k, x, y, m, c) ==
  /\ Pool(g, k, x.leaves \cup y.leaves, m) /\ Codes(g, k, c)
  /\ x.leaves # {} /\ y.leaves # {} /\ x.leaves \cap y.leaves = {}
  /\ x.uses \in Nat /\ y.uses \in Nat
  /\ RootCodes(x, c, m) /\ RootCodes(y, c, m)

LEMMA Joined ==
  ASSUME UsesOK, NEW g, NEW k, NEW x, NEW y, NEW m \in Nat, NEW c,
         Joinable(g, k, x, y, m, c), NEW r, IsJoin(r, x, y, m)
  PROVE  /\ Pool(g \cup {r}, k, {}, m + 1)
         /\ Codes(g \cup {r}, k, NewCodes(c, x.leaves, y.leaves))
         /\ r \notin g /\ Cardinality(g \cup {r}) = Cardinality(g) + 1
<1> USE DEF Joinable
<1>1. PICK n \in Nat : n = Len(uses) /\ Symbol = 1 .. n
  BY UsesAre
<1>2. PICK L : L = x.leaves
  OBVIOUS
<1>3. PICK K : K = y.leaves
  OBVIOUS
<1>4. PICK d : d = NewCodes(c, L, K)
  OBVIOUS
<1>5. L # {} /\ K # {} /\ L \cap K = {}
  BY <1>2, <1>3
<1>6. r.leaves = L \cup K /\ r.uses = x.uses + y.uses /\ r.made = m
  BY <1>2, <1>3 DEF IsJoin
<1>7. /\ k \in 1 .. n + 1 /\ L \cup K \subseteq 1 .. k - 1
      /\ g \subseteq Subtree /\ IsFiniteSet(g)
      /\ \A t \in g : t.leaves # {} /\ t.leaves \subseteq (1 .. k - 1) \ (L \cup K) /\ t.made < m
      /\ \A t, o \in g : t # o => t.leaves \cap o.leaves = {} /\ t.made # o.made
      /\ \A s \in (1 .. k - 1) \ (L \cup K) : \E t \in g : s \in t.leaves
  <2>1. Pool(g, k, L \cup K, m)
    BY <1>2, <1>3
  <2> QED BY <1>1, <2>1 DEF Pool
<1>8. r \notin g
  <2>1. \A t \in g : t.made < m /\ t.made \in Nat
    BY <1>7 DEF Subtree
  <2> QED BY <1>6, <2>1
<1>9. \A s \in L \cup K : s \in Symbol /\ s < k /\ s \in 1 .. k - 1
  BY <1>1, <1>7
<1>10. r \in Subtree
  <2>1. x.uses + y.uses \in Nat
    OBVIOUS
  <2>2. L \cup K \in SUBSET Symbol
    BY <1>9
  <2> QED BY <1>2, <1>3, <2>1, <2>2 DEF Subtree, IsJoin
<1>11. IsFiniteSet(g \cup {r}) /\ Cardinality(g \cup {r}) = Cardinality(g) + 1
  BY <1>7, <1>8, FS_AddElement
<1>12. Pool(g \cup {r}, k, {}, m + 1)
  <2>1. g \cup {r} \subseteq Subtree
    BY <1>7, <1>10
  <2>2. \A t \in g \cup {r} : t.leaves # {}
    BY <1>5, <1>6, <1>7
  <2>3. \A t \in g \cup {r} : t.leaves \subseteq (1 .. k - 1) \ {}
    BY <1>6, <1>7
  <2>4. \A t \in g \cup {r} : t.made < m + 1
    <3>1. \A t \in g : t.made \in Nat /\ t.made < m
      BY <1>7 DEF Subtree
    <3>2. \A t \in g : t.made < m + 1
      BY <3>1
    <3>3. m < m + 1
      OBVIOUS
    <3> QED BY <1>6, <3>2, <3>3
  <2>5. \A t \in g : t.leaves \cap r.leaves = {} /\ t.made # r.made
    <3>1. \A t \in g : t.made \in Nat /\ t.made < m
      BY <1>7 DEF Subtree
    <3>2. \A t \in g : t.made # m
      BY <3>1
    <3> QED BY <1>6, <1>7, <3>2
  <2>6. \A t, o \in g \cup {r} : t # o => t.leaves \cap o.leaves = {} /\ t.made # o.made
    BY <1>7, <2>5
  <2>7. \A s \in (1 .. k - 1) \ {} : \E t \in g \cup {r} : s \in t.leaves
    BY <1>6, <1>7
  <2>8. k \in 1 .. Len(uses) + 1 /\ m + 1 \in Nat /\ {} \subseteq 1 .. k - 1
    BY <1>1, <1>7
  <2> QED BY <1>11, <2>1, <2>2, <2>3, <2>4, <2>6, <2>7, <2>8 DEF Pool
<1>13. /\ c \in [Symbol -> Seq(Bit)]
       /\ \A s \in Symbol : s >= k => c[s] = <<>>
       /\ \A t \in g : /\ IsTree(c, t.leaves) /\ t.uses = UsesIn(t.leaves)
                       /\ \A s \in t.leaves : Len(c[s]) <= t.made + 1
  BY DEF Codes
<1>14. AddedTo(d, c, L, 0)
  BY <1>4, <1>9, <1>13 DEF AddedTo, NewCodes
<1>15. AddedTo(d, c, K, 1)
  BY <1>4, <1>5, <1>9, <1>13 DEF AddedTo, NewCodes
<1>16. \A s \in Symbol \ (L \cup K) : d[s] = c[s]
  BY <1>4 DEF NewCodes
<1>17. IsTree(d, L \cup K)
  <2>1. IsTree(c, L) /\ IsTree(c, K)
    BY <1>2, <1>3 DEF RootCodes
  <2> QED BY <1>5, <1>14, <1>15, <2>1, TreeJoined
<1>18. r.uses = UsesIn(L \cup K)
  <2>1. x.uses = UsesIn(L) /\ y.uses = UsesIn(K)
    BY <1>2, <1>3 DEF RootCodes
  <2>2. UsesIn(L \cup K) = UsesIn(L) + UsesIn(K)
    BY <1>5, UsesInBoth
  <2> QED BY <1>6, <2>1, <2>2
<1>19. ASSUME NEW s \in L \cup K PROVE d[s] \in Seq(Bit) /\ Len(d[s]) <= m + 1
  <2>1. PICK b \in Bit : d[s] = AddBit(b, c[s])
    BY <1>14, <1>15 DEF AddedTo, Bit
  <2>2. Len(c[s]) <= m
    BY <1>2, <1>3 DEF RootCodes
  <2>3. c[s] \in Seq(Bit)
    BY <1>9, <1>13
  <2>4. d[s] \in Seq(Bit) /\ Len(d[s]) = Len(c[s]) + 1 /\ Len(c[s]) \in Nat
    BY <2>1, <2>3, AddBitIs
  <2>5. PICK p \in Nat : p = Len(c[s])
    BY <2>4
  <2>6. Len(d[s]) = p + 1 /\ p <= m
    BY <2>2, <2>4, <2>5
  <2>7. p + 1 <= m + 1
    BY <2>6
  <2> QED BY <2>4, <2>6, <2>7
<1>20. Codes(g \cup {r}, k, d)
  <2>1. \A s \in Symbol : d[s] \in Seq(Bit)
    BY <1>13, <1>16, <1>19
  <2>2. d \in [Symbol -> Seq(Bit)]
    <3>1. d = [s \in Symbol |-> d[s]]
      BY <1>4 DEF NewCodes
    <3> QED BY <2>1, <3>1
  <2>3. ASSUME NEW s \in Symbol, s >= k PROVE d[s] = <<>>
    <3>1. s \notin L \cup K
      BY <1>1, <1>7, <1>9, <2>3
    <3> QED BY <1>13, <1>16, <2>3, <3>1
  <2>4. ASSUME NEW t \in g
        PROVE  /\ IsTree(d, t.leaves) /\ t.uses = UsesIn(t.leaves)
               /\ \A s \in t.leaves : Len(d[s]) <= t.made + 1
    <3>1. t.leaves \subseteq Symbol
      BY <1>7 DEF Subtree
    <3>2. t.leaves \cap (L \cup K) = {}
      BY <1>7
    <3>3. \A s \in t.leaves : d[s] = c[s]
      BY <1>16, <3>1, <3>2
    <3>4. IsTree(d, t.leaves)
      BY <1>13, <3>3, TreeSame
    <3> QED BY <1>13, <3>3, <3>4
  <2>5. /\ IsTree(d, r.leaves) /\ r.uses = UsesIn(r.leaves)
        /\ \A s \in r.leaves : Len(d[s]) <= r.made + 1
    BY <1>6, <1>17, <1>18, <1>19
  <2> QED BY <2>2, <2>3, <2>4, <2>5 DEF Codes
<1> QED BY <1>2, <1>3, <1>4, <1>8, <1>11, <1>12, <1>20

\* What holds of the roots and of the codes at every step.
TreeInv ==
  /\ UsesOK
  /\ Pool(heap, nextSym, {}, Made)
  /\ Codes(heap, nextSym, codeOf)
  /\ Roots >= 1
  /\ stage # "build" => Roots = 1

LEMMA Counts ==
  ASSUME UsesOK, NEW h, NEW i, NEW M, NEW m, Pool(h, i, M, m)
  PROVE  Cardinality(h) \in Nat /\ i \in Nat /\ i >= 1 /\ Len(uses) \in Nat /\ m \in Nat
         /\ (Cardinality(h) = 0 => h = {})
<1>1. PICK n \in Nat : n = Len(uses)
  BY UsesAre
<1>2. i \in 1 .. n + 1 /\ IsFiniteSet(h) /\ m \in Nat
  BY <1>1 DEF Pool
<1>3. Cardinality(h) \in Nat
  BY <1>2, FS_CardinalityType
<1>4. Cardinality(h) = 0 => h = {}
  BY <1>2, FS_EmptySet
<1> QED BY <1>1, <1>2, <1>3, <1>4

LEMMA TreeInit ==
  HuffInit => TreeInv
<1> SUFFICES ASSUME HuffInit PROVE TreeInv
  OBVIOUS
<1>1. PICK n \in 1 .. MaxSymbols :
        uses \in [1 .. n -> Uses] /\ \A s \in 2 .. n : uses[s - 1] <= uses[s]
  BY DEF HuffInit
<1>2. n \in Nat /\ n >= 1 /\ uses \in [1 .. n -> Nat \ {0}]
  <2>1. MaxSymbols \in Nat
    BY SymbolsAssumption
  <2>2. n \in Nat /\ n >= 1
    BY <2>1
  <2>3. uses \in [1 .. n -> Nat \ {0}]
    BY <1>1, UsesAssumption
  <2> QED BY <2>2, <2>3
<1>3. Len(uses) = n /\ Symbol = 1 .. n
  BY <1>2 DEF Symbol
<1>4. ASSUME NEW j \in 1 .. n, NEW k \in 1 .. n, j <= k PROVE uses[j] <= uses[k]
  <2> DEFINE T == {b \in 0 .. n : j <= b => uses[j] <= uses[b]}
  <2>1. 0 \in T
    OBVIOUS
  <2>2. ASSUME NEW b \in 1 .. n, b - 1 \in T PROVE b \in T
    <3>1. CASE j < b
      <4>1. uses[j] <= uses[b - 1] /\ b \in 2 .. n /\ b - 1 \in 1 .. n
        BY <2>2, <3>1
      <4>2. uses[b - 1] <= uses[b]
        BY <1>1, <4>1
      <4>3. uses[j] \in Nat /\ uses[b - 1] \in Nat /\ uses[b] \in Nat
        BY <1>2, <4>1
      <4> QED BY <4>1, <4>2, <4>3
    <3>2. CASE j = b
      <4>1. uses[j] \in Nat
        BY <1>2
      <4> QED BY <3>2, <4>1
    <3>3. CASE j > b
      BY <3>3
    <3> QED BY <3>1, <3>2, <3>3
  <2>3. \A b \in 0 .. n : b \in T
    <3> HIDE DEF T
    <3> QED BY <1>2, <2>1, <2>2, Upto
  <2> QED BY <1>4, <2>3
<1>5. UsesOK
  BY <1>1, <1>2, <1>3, <1>4 DEF UsesOK
<1>6. /\ nextSym = 1 /\ heap = {} /\ codeOf = [s \in Symbol |-> <<>>] /\ stage = "build"
  BY DEF HuffInit
<1>7. IsFiniteSet({}) /\ Cardinality({}) = 0
  BY FS_EmptySet
<1>8. Made = 0 /\ Roots = n
  BY <1>2, <1>3, <1>6, <1>7 DEF Made, Roots
<1>9. Pool(heap, nextSym, {}, Made)
  <2>1. 1 \in 1 .. n + 1
    BY <1>2
  <2> QED BY <1>3, <1>6, <1>7, <1>8, <2>1 DEF Pool
<1>10. Codes(heap, nextSym, codeOf)
  <2>1. <<>> \in Seq(Bit)
    OBVIOUS
  <2> QED BY <1>6, <2>1 DEF Codes
<1> QED BY <1>2, <1>5, <1>6, <1>8, <1>9, <1>10 DEF TreeInv

\* What combining does: the two roots that are taken.
IsStep(zero, one, r) ==
  /\ Took(zero, heap, nextSym) /\ Took(one, zero.heap, zero.next)
  /\ Pool(zero.heap, zero.next, zero.leaves, Made)
  /\ Pool(one.heap, one.next, zero.leaves \cup one.leaves, Made)
  /\ RootCodes(zero, codeOf, Made) /\ RootCodes(one, codeOf, Made)
  /\ zero.uses \in Nat /\ one.uses \in Nat
  /\ IsJoin(r, zero, one, Made)
  /\ heap' = one.heap \cup {r} /\ nextSym' = one.next
  /\ codeOf' = NewCodes(codeOf, zero.leaves, one.leaves)
  /\ Made' = Made + 1 /\ Roots' = Roots - 1 /\ uses' = uses

LEMMA CombineIs ==
  ASSUME TreeInv, Combine
  PROVE  /\ TreeInv'
         /\ \E zero, one, r : IsStep(zero, one, r)
<1>1. PICK n \in Nat : n = Len(uses) /\ Symbol = 1 .. n
  BY UsesAre DEF TreeInv
<1>2. PICK h : h = heap
  OBVIOUS
<1>3. PICK i : i = nextSym
  OBVIOUS
<1>4. PICK m : m = Made
  OBVIOUS
<1>5. UsesOK /\ Pool(h, i, {}, m) /\ Codes(h, i, codeOf)
  BY <1>2, <1>3, <1>4 DEF TreeInv
<1>6. Cardinality(h) \in Nat /\ i \in Nat /\ m \in Nat /\ (Cardinality(h) = 0 => h = {})
  BY <1>5, Counts
<1>7. m = i - 1 - Cardinality(h) /\ Roots = Cardinality(h) + n + 1 - i /\ Roots > 1
  BY <1>1, <1>2, <1>3, <1>4 DEF Made, Roots, Combine
<1>8. h # {} \/ i <= Len(uses)
  <2>1. h = {} => Cardinality(h) = 0
    BY FS_EmptySet
  <2> QED BY <1>1, <1>6, <1>7, <2>1
<1>9. PICK zero : zero = Taken(h, i)
  OBVIOUS
<1>10. Took(zero, h, i)
  BY <1>5, <1>8, <1>9, TakenIs
<1>11. /\ Pool(zero.heap, zero.next, {} \cup zero.leaves, m)
       /\ zero.leaves # {} /\ zero.leaves \cap {} = {} /\ zero.leaves \subseteq Symbol
       /\ zero.uses \in Nat
       /\ Cardinality(zero.heap) \in Nat
       /\ zero.next - Cardinality(zero.heap) = i - Cardinality(h) + 1
  BY <1>5, <1>10, PoolTook
<1>12. Pool(zero.heap, zero.next, zero.leaves, m)
  <2>1. {} \cup zero.leaves = zero.leaves
    OBVIOUS
  <2> QED BY <1>11, <2>1
<1>13. RootCodes(zero, codeOf, m) /\ Codes(zero.heap, zero.next, codeOf)
  BY <1>5, <1>10, CodesTook
<1>14. zero.next \in Nat
  BY <1>5, <1>12, Counts
<1>15. zero.heap # {} \/ zero.next <= Len(uses)
  <2>1. zero.heap = {} => Cardinality(zero.heap) = 0
    BY FS_EmptySet
  <2> QED BY <1>1, <1>6, <1>7, <1>11, <1>14, <2>1
<1>16. PICK one : one = Taken(zero.heap, zero.next)
  OBVIOUS
<1>17. Took(one, zero.heap, zero.next)
  BY <1>5, <1>12, <1>15, <1>16, TakenIs
<1>18. /\ Pool(one.heap, one.next, zero.leaves \cup one.leaves, m)
       /\ one.leaves # {} /\ one.leaves \cap zero.leaves = {} /\ one.leaves \subseteq Symbol
       /\ one.uses \in Nat
       /\ Cardinality(one.heap) \in Nat
       /\ one.next - Cardinality(one.heap) = zero.next - Cardinality(zero.heap) + 1
  <2>1. PICK g : g = zero.heap
    OBVIOUS
  <2>2. PICK k : k = zero.next
    OBVIOUS
  <2>3. PICK M : M = zero.leaves
    OBVIOUS
  <2>4. Pool(g, k, M, m) /\ Took(one, g, k)
    BY <1>12, <1>17, <2>1, <2>2, <2>3
  <2>5. /\ Pool(one.heap, one.next, M \cup one.leaves, m)
        /\ one.leaves # {} /\ one.leaves \cap M = {} /\ one.leaves \subseteq Symbol
        /\ one.uses \in Nat
        /\ Cardinality(one.heap) \in Nat
        /\ one.next - Cardinality(one.heap) = k - Cardinality(g) + 1
    BY <1>5, <2>4, PoolTook
  <2> QED BY <2>1, <2>2, <2>3, <2>5
<1>19. RootCodes(one, codeOf, m) /\ Codes(one.heap, one.next, codeOf)
  BY <1>5, <1>12, <1>13, <1>17, CodesTook
<1>20. one.next \in Nat
  BY <1>5, <1>18, Counts
<1>21. PICK r : r = [leaves |-> zero.leaves \cup one.leaves, uses |-> zero.uses + one.uses,
                    made |-> m]
  OBVIOUS
<1>22. PICK L : L = zero.leaves
  OBVIOUS
<1>23. PICK K : K = one.leaves
  OBVIOUS
<1>24. L \cap K = {}
  BY <1>18, <1>22, <1>23
<1>25. /\ Pool(one.heap \cup {r}, one.next, {}, m + 1)
       /\ Codes(one.heap \cup {r}, one.next, NewCodes(codeOf, zero.leaves, one.leaves))
       /\ Cardinality(one.heap \cup {r}) = Cardinality(one.heap) + 1
  <2>1. PICK g : g = one.heap
    OBVIOUS
  <2>2. PICK k : k = one.next
    OBVIOUS
  <2>3. /\ Pool(g, k, zero.leaves \cup one.leaves, m) /\ Codes(g, k, codeOf)
        /\ zero.leaves \cap one.leaves = {}
    BY <1>18, <1>19, <1>22, <1>23, <1>24, <2>1, <2>2
  <2>4. /\ Pool(g \cup {r}, k, {}, m + 1)
        /\ Codes(g \cup {r}, k, NewCodes(codeOf, zero.leaves, one.leaves))
        /\ r \notin g /\ Cardinality(g \cup {r}) = Cardinality(g) + 1
    <3>1. UsesOK /\ m \in Nat /\ zero.leaves # {} /\ one.leaves # {}
      BY <1>5, <1>6, <1>11, <1>18
    <3>2. /\ zero.uses \in Nat /\ one.uses \in Nat
          /\ RootCodes(zero, codeOf, m) /\ RootCodes(one, codeOf, m)
      BY <1>11, <1>13, <1>18, <1>19
    <3>3. Joinable(g, k, zero, one, m, codeOf)
      BY <2>3, <3>1, <3>2 DEF Joinable
    <3>4. IsJoin(r, zero, one, m)
      BY <1>21 DEF IsJoin
    <3> QED BY <3>1, <3>3, <3>4, Joined
  <2> QED BY <2>1, <2>2, <2>4
<1>26. /\ heap' = one.heap \cup {r} /\ nextSym' = one.next
       /\ codeOf' = NewCodes(codeOf, zero.leaves, one.leaves)
       /\ uses' = uses /\ stage' = stage /\ stage = "build"
  BY <1>2, <1>3, <1>4, <1>9, <1>16, <1>21 DEF Combine, UsesOf, NewCodes, tree
<1>27. Made' = m + 1 /\ Roots' = Roots - 1
  <2>1. Cardinality(heap') = Cardinality(one.heap) + 1
    BY <1>25, <1>26
  <2>2. Made' = one.next - 1 - (Cardinality(one.heap) + 1)
    BY <1>26, <2>1 DEF Made
  <2>3. Roots' = Cardinality(one.heap) + 1 + n + 1 - one.next
    BY <1>1, <1>26, <2>1 DEF Roots
  <2> QED BY <1>6, <1>7, <1>11, <1>14, <1>18, <1>20, <2>2, <2>3
<1>28. UsesOK'
  BY <1>5, <1>26 DEF UsesOK
<1>29. Pool(heap', nextSym', {}, Made')
  BY <1>25, <1>26, <1>27
<1>30. Pool(heap, nextSym, {}, Made)'
  BY <1>26, <1>29 DEF Pool, Subtree, Symbol
<1>31. Codes(heap, nextSym, codeOf)'
  <2>1. Codes(heap', nextSym', codeOf')
    BY <1>25, <1>26
  <2> QED BY <1>26, <2>1 DEF Codes, Symbol, UsesIn
<1>32. Roots' >= 1
  BY <1>1, <1>6, <1>7, <1>27
<1>33. TreeInv'
  BY <1>26, <1>28, <1>30, <1>31, <1>32 DEF TreeInv
<1>34. IsStep(zero, one, r)
  BY <1>2, <1>3, <1>4, <1>10, <1>12, <1>13, <1>11, <1>17, <1>18, <1>19, <1>21, <1>26, <1>27
     DEF IsStep, IsJoin
<1> QED BY <1>33, <1>34

LEMMA TreeSteps ==
  ASSUME TreeInv, [HuffNext]_huffVars
  PROVE  TreeInv'
<1>1. CASE Combine
  BY <1>1, CombineIs
<1>2. ASSUME UNCHANGED tree, stage' # "build" => (Roots <= 1 \/ stage # "build")
      PROVE  TreeInv'
  <2>1. Roots \in Int
    BY Counts DEF Roots, TreeInv
  <2>2. Roots' = Roots /\ Made' = Made
    BY <1>2 DEF Roots, Made, tree
  <2>3. UsesOK'
    BY <1>2 DEF UsesOK, tree, TreeInv
  <2>4. Pool(heap, nextSym, {}, Made)'
    BY <1>2, <2>2 DEF Pool, Subtree, Symbol, tree, TreeInv
  <2>5. Codes(heap, nextSym, codeOf)'
    BY <1>2 DEF Codes, Symbol, UsesIn, tree, TreeInv
  <2>6. stage' # "build" => Roots' = 1
    BY <1>2, <2>1, <2>2 DEF TreeInv
  <2> QED BY <2>2, <2>3, <2>4, <2>5, <2>6 DEF TreeInv
<1>3. CASE WriteDictionary
  BY <1>2, <1>3 DEF WriteDictionary
<1>4. CASE ReadDictionary
  BY <1>2, <1>4 DEF ReadDictionary
<1>5. CASE Open
  BY <1>2, <1>5 DEF Open
<1>6. CASE Encode
  BY <1>2, <1>6 DEF Encode
<1>7. CASE Step
  BY <1>2, <1>7 DEF Step
<1>8. CASE UNCHANGED huffVars
  BY <1>2, <1>8 DEF huffVars
<1> QED BY <1>1, <1>3, <1>4, <1>5, <1>6, <1>7, <1>8 DEF HuffNext

(***************************************************************************)
(* How often symbols are used that have long codes.                        *)
(***************************************************************************)
\* f are the fewest uses, up to a depth.
AreFewest(f, n) ==
  /\ f \in [0 .. n -> Nat]
  /\ \A d \in 0 .. n :
       f[d] = IF d < 3 THEN d + 1 ELSE f[d - 1] + f[d - 2] + IF d = 3 THEN 0 ELSE 1

LEMMA SomeFewest ==
  ASSUME NEW n \in Nat
  PROVE  \E f : AreFewest(f, n)
<1> DEFINE S == Nat \X Nat
           after(k, a, b) == IF k < 2 THEN k + 2 ELSE b + a + IF k = 2 THEN 0 ELSE 1
           pair(k) == [x \in S |-> <<x[2], after(k, x[1], x[2])>>]
           step == [k \in Nat |-> pair(k)]
<1>1. <<1, 2>> \in S /\ \A m \in Nat : AreSteps([k \in 1 .. m |-> step[k]], m, S)
  <2>1. \A k, a, b \in Nat : after(k, a, b) \in Nat
    OBVIOUS
  <2>2. \A k \in Nat : pair(k) \in [S -> S]
    <3> HIDE DEF after
    <3> QED BY <2>1
  <2>3. \A m \in Nat : AreSteps([k \in 1 .. m |-> step[k]], m, S)
    <3> HIDE DEF pair, S
    <3> QED BY <2>2 DEF AreSteps
  <2> QED BY <2>3
<1>2. PICK g : AreForever(g, S, <<1, 2>>, step)
  <2> HIDE DEF step, S
  <2> QED BY <1>1, RoundsForever
<1> DEFINE a == [k \in Nat |-> g[k][1]]
           b == [k \in Nat |-> g[k][2]]
<1>3. g \in [Nat -> S] /\ g[0] = <<1, 2>> /\ \A k \in Nat \ {0} : g[k] = step[k][g[k - 1]]
  <2> HIDE DEF step, S
  <2> QED BY <1>2 DEF AreForever
<1>4. \A k \in Nat : a[k] \in Nat /\ b[k] \in Nat /\ a[k] = g[k][1] /\ b[k] = g[k][2]
  <2>1. \A x \in S : x[1] \in Nat /\ x[2] \in Nat
    OBVIOUS
  <2> HIDE DEF S
  <2> QED BY <1>3, <2>1
<1>5. a[0] = 1 /\ b[0] = 2
  BY <1>3
<1>6. ASSUME NEW k \in Nat \ {0}
      PROVE  a[k] = b[k - 1] /\ b[k] = after(k, a[k - 1], b[k - 1])
  <2>1. k - 1 \in Nat /\ k \in Nat
    OBVIOUS
  <2>2. g[k] = step[k][g[k - 1]] /\ g[k - 1] \in S
    <3> HIDE DEF step, S
    <3> QED BY <1>3, <2>1
  <2>3. step[k] = pair(k)
    <3> HIDE DEF pair
    <3> QED BY <2>1
  <2>4. \A x \in S : pair(k)[x] = <<x[2], after(k, x[1], x[2])>>
    <3> HIDE DEF after, S
    <3> QED OBVIOUS
  <2>5. g[k] = <<g[k - 1][2], after(k, g[k - 1][1], g[k - 1][2])>>
    <3> HIDE DEF after, S, pair, step
    <3> QED BY <2>2, <2>3, <2>4
  <2>6. g[k][1] = g[k - 1][2] /\ g[k][2] = after(k, g[k - 1][1], g[k - 1][2])
    <3> HIDE DEF after, S, pair, step
    <3> QED BY <2>5
  <2> HIDE DEF after, S, pair, step, a, b
  <2> QED BY <1>4, <2>1, <2>6
<1>7. \A k \in Nat \ {0} : a[k] = b[k - 1]
  <2> HIDE DEF after, S, pair, step, a, b
  <2> QED BY <1>6
<1>8. \A k \in Nat \ {0} : b[k] = IF k < 2 THEN k + 2
                                 ELSE b[k - 1] + a[k - 1] + IF k = 2 THEN 0 ELSE 1
  <2> HIDE DEF S, pair, step, a, b
  <2> QED BY <1>6
<1>9. \A k \in Nat : a[k] \in Nat /\ b[k] \in Nat
  <2> HIDE DEF S, step, a, b
  <2> QED BY <1>4
<1> DEFINE f == [k \in 0 .. n |-> a[k]]
<1> HIDE DEF S, after, pair, step, a, b
<1>10. ASSUME NEW d \in 0 .. n
       PROVE f[d] = IF d < 3 THEN d + 1 ELSE f[d - 1] + f[d - 2] + IF d = 3 THEN 0 ELSE 1
  <2>1. d \in Nat /\ f[d] = a[d]
    OBVIOUS
  <2>2. CASE d = 0
    BY <1>5, <2>1, <2>2
  <2>3. CASE d = 1
    <3>1. a[1] = b[0]
      <4>1. 1 - 1 = 0
        OBVIOUS
      <4> QED BY <1>7, <4>1
    <3> QED BY <1>5, <2>1, <2>3, <3>1
  <2>4. CASE d = 2
    <3>1. a[2] = b[1] /\ b[1] = 3
      <4>1. 2 - 1 = 1 /\ 1 + 2 = 3
        OBVIOUS
      <4> QED BY <1>7, <1>8, <4>1
    <3> QED BY <2>1, <2>4, <3>1
  <2>5. CASE d >= 3
    <3>1. d - 1 \in Nat \ {0} /\ ~(d - 1 < 2) /\ d - 1 \in 0 .. n /\ d - 2 \in 0 .. n
          /\ (d - 1) - 1 = d - 2 /\ d - 2 \in Nat
      BY <2>5
    <3>2. a[d] = b[d - 1] /\ a[d - 1] = b[d - 2]
      BY <1>7, <2>5, <3>1
    <3>3. b[d - 1] = b[d - 2] + a[d - 2] + IF d - 1 = 2 THEN 0 ELSE 1
      BY <1>8, <3>1
    <3>4. f[d - 1] = a[d - 1] /\ f[d - 2] = a[d - 2]
      BY <3>1
    <3>5. (d - 1 = 2) <=> (d = 3)
      OBVIOUS
    <3>6. a[d] \in Nat /\ a[d - 1] \in Nat /\ a[d - 2] \in Nat
      BY <1>9, <2>1, <3>1
    <3> QED BY <2>1, <2>5, <3>2, <3>3, <3>4, <3>5, <3>6
  <2> QED BY <2>1, <2>2, <2>3, <2>4, <2>5
<1>11. f \in [0 .. n -> Nat]
  BY <1>9
<1>12. AreFewest(f, n)
  <2> HIDE DEF f
  <2> QED BY <1>10, <1>11 DEF AreFewest
<1> QED BY <1>12

LEMMA FewestIs ==
  AreFewest(FewestUses, MaxDepth + 1)
<1> DEFINE n == MaxDepth + 1
           rec(f) == f = [d \in 0 .. n |-> IF d < 3 THEN d + 1
                            ELSE f[d - 1] + f[d - 2] + IF d = 3 THEN 0 ELSE 1]
<1>1. n \in Nat
  BY BitsAssumption
<1> HIDE DEF n
<1>2. PICK f : AreFewest(f, n)
  BY <1>1, SomeFewest
<1>3. rec(f)
  <2>1. f = [d \in 0 .. n |-> f[d]]
    BY <1>2 DEF AreFewest
  <2>2. \A d \in 0 .. n :
          f[d] = IF d < 3 THEN d + 1 ELSE f[d - 1] + f[d - 2] + IF d = 3 THEN 0 ELSE 1
    BY <1>2 DEF AreFewest
  <2> QED BY <2>1, <2>2
<1>4. FewestUses = CHOOSE e : rec(e)
  BY DEF FewestUses, n
<1>5. PICK e : e = FewestUses
  OBVIOUS
<1>6. rec(e)
  <2>1. rec(CHOOSE o : rec(o))
    <3> HIDE DEF rec
    <3> QED BY <1>3
  <2> QED BY <1>4, <1>5, <2>1
<1>7. DOMAIN e = 0 .. n /\ \A d \in 0 .. n :
        e[d] = IF d < 3 THEN d + 1 ELSE e[d - 1] + e[d - 2] + IF d = 3 THEN 0 ELSE 1
  BY <1>6
<1>8. \A d \in 0 .. n : e[d] = f[d]
  <2> DEFINE T == {k \in 0 .. n : \A d \in 0 .. k : e[d] = f[d]}
  <2>1. \A d \in 0 .. n :
          f[d] = IF d < 3 THEN d + 1 ELSE f[d - 1] + f[d - 2] + IF d = 3 THEN 0 ELSE 1
    BY <1>2 DEF AreFewest
  <2>2. 0 \in T
    <3>1. e[0] = 0 + 1 /\ f[0] = 0 + 1
      BY <1>1, <1>7, <2>1
    <3> QED BY <1>1, <3>1
  <2>3. ASSUME NEW k \in 1 .. n, k - 1 \in T PROVE k \in T
    <3>1. \A d \in 0 .. k - 1 : e[d] = f[d]
      BY <2>3
    <3>2. e[k] = f[k]
      <4>1. k \in 0 .. n
        OBVIOUS
      <4>2. CASE k < 3
        BY <1>7, <2>1, <4>1, <4>2
      <4>3. CASE ~(k < 3)
        <5>1. k - 1 \in 0 .. k - 1 /\ k - 2 \in 0 .. k - 1
          BY <4>3
        <5>2. e[k - 1] = f[k - 1] /\ e[k - 2] = f[k - 2]
          BY <3>1, <5>1
        <5>3. e[k] = e[k - 1] + e[k - 2] + IF k = 3 THEN 0 ELSE 1
          BY <1>7, <4>1, <4>3
        <5>4. f[k] = f[k - 1] + f[k - 2] + IF k = 3 THEN 0 ELSE 1
          BY <2>1, <4>1, <4>3
        <5> QED BY <5>2, <5>3, <5>4
      <4> QED BY <4>2, <4>3
    <3>3. \A d \in 0 .. k : d = k \/ d \in 0 .. k - 1
      OBVIOUS
    <3> QED BY <3>1, <3>2, <3>3
  <2> HIDE DEF T
  <2>4. \A k \in 0 .. n : k \in T
    BY <1>1, <2>2, <2>3, Upto
  <2>5. n \in T
    BY <1>1, <2>4
  <2> QED BY <2>5 DEF T
<1>9. e = f
  <2>1. DOMAIN f = 0 .. n /\ f = [d \in 0 .. n |-> f[d]]
    BY <1>2 DEF AreFewest
  <2>2. e = [d \in 0 .. n |-> e[d]]
    BY <1>6, <1>7
  <2> QED BY <1>8, <2>1, <2>2
<1> QED BY <1>2, <1>5, <1>9 DEF n

\* The uses of every root beside one that reaches a depth.
Others(d) == FewestUses[d - 1] + IF d < 3 THEN 0 ELSE 1

LEMMA FewestGrow ==
  /\ FewestUses[0] = 1 /\ FewestUses[1] = 2
  /\ \A d \in 0 .. MaxDepth + 1 : FewestUses[d] \in Nat /\ FewestUses[d] >= 1
  /\ \A d \in 1 .. MaxDepth + 1 : /\ Others(d) \in Nat /\ Others(d) >= 1
                                 /\ FewestUses[d - 1] <= FewestUses[d]
                                 /\ (d >= 2 => 2 * Others(d) >= FewestUses[d] + 1)
  /\ \A d \in 1 .. MaxDepth : /\ FewestUses[d + 1] = FewestUses[d] + Others(d)
                             /\ Others(d + 1) = FewestUses[d] + IF d < 2 THEN 0 ELSE 1
<1> DEFINE F == FewestUses
<1>1. PICK n \in Nat : n = MaxDepth + 1
  BY BitsAssumption
<1>2. n >= 1 /\ MaxDepth = n - 1
  BY <1>1, BitsAssumption
<1>3. \A d \in 0 .. n : /\ F[d] \in Nat
                       /\ F[d] = IF d < 3 THEN d + 1
                                 ELSE F[d - 1] + F[d - 2] + IF d = 3 THEN 0 ELSE 1
  BY <1>1, FewestIs DEF AreFewest
<1> HIDE DEF F
<1>4. F[0] = 1 /\ F[1] = 2
  <2>1. 0 \in 0 .. n /\ 1 \in 0 .. n
    BY <1>2
  <2> QED BY <1>3, <2>1
<1>5. \A d \in 0 .. n : F[d] >= 1
  <2> DEFINE T == {k \in 0 .. n : \A d \in 0 .. k : F[d] >= 1}
  <2>1. 0 \in T
    BY <1>4
  <2>2. ASSUME NEW k \in 1 .. n, k - 1 \in T PROVE k \in T
    <3>1. \A d \in 0 .. k - 1 : F[d] >= 1
      BY <2>2
    <3>2. F[k] >= 1
      <4>1. CASE k < 3
        BY <1>3, <4>1
      <4>2. CASE ~(k < 3)
        <5>1. k - 1 \in 0 .. k - 1 /\ k - 2 \in 0 .. k - 1 /\ k - 1 \in 0 .. n /\ k - 2 \in 0 .. n
          BY <4>2
        <5>2. F[k - 1] >= 1 /\ F[k - 2] >= 1 /\ F[k - 1] \in Nat /\ F[k - 2] \in Nat
          BY <1>3, <3>1, <5>1
        <5> QED BY <1>3, <4>2, <5>2
      <4> QED BY <4>1, <4>2
    <3>3. \A d \in 0 .. k : d = k \/ d \in 0 .. k - 1
      OBVIOUS
    <3> QED BY <3>1, <3>2, <3>3
  <2> HIDE DEF T
  <2>3. \A k \in 0 .. n : k \in T
    BY <2>1, <2>2, Upto
  <2>4. n \in T
    BY <2>3
  <2> QED BY <2>4 DEF T
<1>6. ASSUME NEW d \in 1 .. n PROVE F[d - 1] <= F[d]
  <2>1. d - 1 \in 0 .. n /\ d \in 0 .. n
    OBVIOUS
  <2>2. CASE d < 3
    BY <1>3, <2>1, <2>2
  <2>3. CASE ~(d < 3)
    <3>1. d - 2 \in 0 .. n
      BY <2>3
    <3>2. F[d - 1] \in Nat /\ F[d - 2] \in Nat
      BY <1>3, <2>1, <3>1
    <3> QED BY <1>3, <2>1, <2>3, <3>2
  <2> QED BY <2>2, <2>3
<1>7. ASSUME NEW d \in 1 .. n
      PROVE  /\ Others(d) = F[d - 1] + IF d < 3 THEN 0 ELSE 1
             /\ Others(d) \in Nat /\ Others(d) >= 1
  <2>1. d - 1 \in 0 .. n
    OBVIOUS
  <2>2. F[d - 1] \in Nat /\ F[d - 1] >= 1
    BY <1>3, <1>5, <2>1
  <2>3. Others(d) = F[d - 1] + IF d < 3 THEN 0 ELSE 1
    BY DEF Others, F
  <2> QED BY <2>2, <2>3
<1>8. ASSUME NEW d \in 1 .. n, d >= 2 PROVE 2 * Others(d) >= F[d] + 1
  <2>1. Others(d) = F[d - 1] + IF d < 3 THEN 0 ELSE 1
    BY <1>7
  <2>2. CASE d = 2
    <3>1. F[2] = 3
      BY <1>3, <2>2
    <3>2. d - 1 = 1
      BY <2>2
    <3> QED BY <1>4, <2>1, <2>2, <3>1, <3>2
  <2>3. CASE d >= 3
    <3>1. d - 1 \in 0 .. n /\ d - 2 \in 0 .. n /\ d - 1 \in 1 .. n /\ (d - 1) - 1 = d - 2 /\ d \in 0 .. n
      BY <2>3
    <3>2. F[d - 1] \in Nat /\ F[d - 2] \in Nat /\ F[d - 2] <= F[d - 1]
      BY <1>3, <1>6, <3>1
    <3>3. F[d] = F[d - 1] + F[d - 2] + IF d = 3 THEN 0 ELSE 1
      BY <1>3, <2>3, <3>1
    <3> QED BY <2>1, <2>3, <3>2, <3>3
  <2> QED BY <1>8, <2>2, <2>3
<1>9. ASSUME NEW d \in 1 .. MaxDepth
      PROVE  /\ F[d + 1] = F[d] + Others(d)
             /\ Others(d + 1) = F[d] + IF d < 2 THEN 0 ELSE 1
  <2>1. d \in 1 .. n /\ d + 1 \in 1 .. n /\ d + 1 \in 0 .. n /\ d \in 0 .. n /\ d - 1 \in 0 .. n
        /\ (d + 1) - 1 = d /\ (d + 1) - 2 = d - 1
    BY <1>2
  <2>2. Others(d) = F[d - 1] + IF d < 3 THEN 0 ELSE 1
    BY <1>7, <2>1
  <2>3. Others(d + 1) = F[d] + IF d + 1 < 3 THEN 0 ELSE 1
    BY <1>7, <2>1
  <2>4. F[d + 1] = IF d + 1 < 3 THEN d + 2
                   ELSE F[d] + F[d - 1] + IF d + 1 = 3 THEN 0 ELSE 1
    <3>1. F[d + 1] = IF d + 1 < 3 THEN (d + 1) + 1
                   ELSE F[(d + 1) - 1] + F[(d + 1) - 2] + IF d + 1 = 3 THEN 0 ELSE 1
      BY <1>3, <2>1
    <3> QED BY <2>1, <3>1
  <2>5. F[d] \in Nat /\ F[d - 1] \in Nat
    BY <1>3, <2>1
  <2>6. F[d + 1] = F[d] + Others(d)
    <3>1. CASE d = 1
      <4>1. d - 1 = 0
        BY <3>1
      <4> QED BY <1>4, <2>2, <2>4, <3>1, <4>1
    <3>2. CASE d = 2
      BY <2>2, <2>4, <2>5, <3>2
    <3>3. CASE d >= 3
      BY <2>2, <2>4, <2>5, <3>3
    <3> QED BY <3>1, <3>2, <3>3
  <2> QED BY <2>3, <2>6
<1> QED BY <1>1, <1>3, <1>4, <1>5, <1>6, <1>7, <1>8, <1>9 DEF F

\* Every root, the subtrees of h and the symbols from i on, is used v times.
AtLeast(h, i, v) ==
  (\A o \in h : o.uses >= v) /\ (\A j \in i .. Len(uses) : uses[j] >= v)

\* Some code is so long.
Reaches(L, d, c) == \E s \in L : Len(c[s]) >= d

\* How often roots are used when one of them reaches a depth: it is itself, the other
\* ones are, and those made after it.
FewInv(h, i, c) ==
  /\ \A t \in h : t.uses >= 2
  /\ \A t \in h : \A d \in 1 .. MaxDepth + 1 :
       Reaches(t.leaves, d, c) =>
         t.uses >= FewestUses[d] /\ AtLeast(h \ {t}, i, Others(d))
  /\ \A t \in h : \A d \in 2 .. MaxDepth + 1 :
       Reaches(t.leaves, d, c) =>
         \A o \in h : t.made < o.made => o.uses >= FewestUses[d] + 1

\* The uses of the roots that are left when one that reaches a depth is taken.
LeftOver(d) == FewestUses[d] + IF d < 2 THEN 0 ELSE 1

LEMMA AtLeastTook ==
  ASSUME UsesOK, NEW h, NEW i, NEW M, NEW m, Pool(h, i, M, m), NEW x, Took(x, h, i)
  PROVE  /\ x.heap \subseteq h /\ x.next \in Nat /\ i \in Nat /\ x.next >= i
         /\ AtLeast(x.heap, x.next, x.uses) /\ x.uses \in Nat
         /\ TookSymbol(x, h, i) => x.uses >= 1
         /\ \A o \in h : o.uses \in Nat /\ o.made \in Nat
<1>1. PICK n \in Nat : n = Len(uses)
  BY UsesAre
<1>2. /\ i \in 1 .. n + 1 /\ h \subseteq Subtree
      /\ \A t \in h : t.leaves # {} /\ t.leaves \subseteq (1 .. i - 1) \ M
  BY <1>1 DEF Pool
<1>3. uses \in [1 .. n -> Nat \ {0}]
  BY <1>1 DEF UsesOK
<1>4. \A o \in h : o.uses \in Nat /\ o.made \in Nat
  BY <1>2 DEF Subtree
<1>5. x.uses \in Nat
  BY PoolTook
<1>8. TookSymbol(x, h, i) => x.uses >= 1
  <2>1. TookSymbol(x, h, i) => i \in 1 .. n /\ x.uses = uses[i]
    BY <1>1 DEF TookSymbol
  <2>2. \A j \in 1 .. n : uses[j] >= 1
    BY <1>3
  <2> QED BY <2>1, <2>2
<1>6. CASE TookSymbol(x, h, i)
  <2>1. /\ i \in 1 .. n /\ x.uses = uses[i] /\ x.heap = h /\ x.next = i + 1
        /\ \A o \in h : uses[i] <= o.uses
        /\ \A j \in i .. n : uses[i] <= uses[j]
    BY <1>1, <1>6 DEF TookSymbol
  <2>2. uses[i] \in Nat /\ uses[i] >= 1
    BY <1>3, <2>1
  <2>3. \A o \in h : o.uses >= uses[i]
    BY <1>4, <2>1, <2>2
  <2>4. ASSUME NEW j \in i + 1 .. n PROVE uses[j] >= uses[i]
    <3>1. j \in i .. n /\ j \in 1 .. n
      BY <2>1
    <3>2. uses[j] \in Nat
      BY <1>3, <3>1
    <3> QED BY <2>1, <2>2, <3>1, <3>2
  <2>5. AtLeast(h, i + 1, uses[i])
    BY <1>1, <2>3, <2>4 DEF AtLeast
  <2>6. i \in Nat /\ i + 1 \in Nat /\ i + 1 >= i
    BY <2>1
  <2> QED BY <1>4, <1>8, <2>1, <2>2, <2>5, <2>6
<1>7. CASE \E t \in h : TookTree(x, h, i, t)
  <2>1. PICK t \in h : TookTree(x, h, i, t)
    BY <1>7
  <2>2. /\ x.uses = t.uses /\ x.heap = h \ {t} /\ x.next = i
        /\ \A o \in h \ {t} : t.uses <= o.uses
        /\ \A j \in i .. n : t.uses < uses[j]
    BY <1>1, <2>1 DEF TookTree
  <2>3. \A o \in h \ {t} : o.uses >= t.uses
    BY <1>4, <2>2
  <2>4. ASSUME NEW j \in i .. n PROVE uses[j] >= t.uses
    <3>1. j \in 1 .. n
      BY <1>2
    <3>2. uses[j] \in Nat /\ t.uses \in Nat
      BY <1>3, <1>4, <3>1
    <3> QED BY <2>2, <3>2
  <2>5. AtLeast(h \ {t}, i, t.uses)
    BY <1>1, <2>3, <2>4 DEF AtLeast
  <2>6. i \in Nat /\ i >= i
    BY <1>2
  <2>7. x.heap \subseteq h
    BY <2>2
  <2> QED BY <1>4, <1>5, <1>8, <2>2, <2>5, <2>6, <2>7
<1> QED BY <1>6, <1>7 DEF Took

LEMMA AtLeastLess ==
  ASSUME UsesOK, NEW h, NEW i \in Nat, NEW v \in Nat, AtLeast(h, i, v), i >= 1,
         \A o \in h : o.uses \in Nat,
         NEW g, g \subseteq h, NEW k \in Nat, k >= i, NEW w \in Nat, w <= v
  PROVE  AtLeast(g, k, w)
<1>1. PICK n \in Nat : n = Len(uses) /\ uses \in [1 .. n -> Nat]
  BY UsesAre
<1>2. (\A o \in h : o.uses >= v) /\ (\A j \in i .. n : uses[j] >= v)
  BY <1>1 DEF AtLeast
<1>3. \A o \in g : o.uses >= w
  BY <1>2
<1>4. ASSUME NEW j \in k .. n PROVE uses[j] >= w
  <2>1. j \in i .. n /\ j \in 1 .. n
    OBVIOUS
  <2>2. uses[j] >= v /\ uses[j] \in Nat
    BY <1>1, <1>2, <2>1
  <2> QED BY <2>2
<1> QED BY <1>1, <1>3, <1>4 DEF AtLeast

\* A root that was taken, and those that are left.
LEMMA TookFew ==
  ASSUME UsesOK, NEW h, NEW i, NEW M, NEW m, Pool(h, i, M, m), NEW c, Codes(h, i, c),
         FewInv(h, i, c), NEW x, Took(x, h, i)
  PROVE  /\ FewInv(x.heap, x.next, c) /\ x.uses >= 1
         /\ \A d \in 1 .. MaxDepth + 1 :
              Reaches(x.leaves, d, c) => /\ x.uses >= FewestUses[d]
                                         /\ AtLeast(x.heap, x.next, Others(d))
                                         /\ AtLeast(x.heap, x.next, LeftOver(d))
         /\ \A d \in 1 .. MaxDepth + 1 : \A t \in x.heap :
              Reaches(t.leaves, d, c) => x.uses >= Others(d)
<1>1. PICK n \in Nat : n = Len(uses) /\ uses \in [1 .. n -> Nat] /\ Symbol = 1 .. n
  BY UsesAre
<1>2. PICK k : k = x.next
  OBVIOUS
<1>3. PICK g : g = x.heap
  OBVIOUS
<1>4. PICK u : u = x.uses
  OBVIOUS
<1>5. /\ g \subseteq h /\ k \in Nat /\ i \in Nat /\ k >= i
      /\ AtLeast(g, k, u) /\ u \in Nat
      /\ TookSymbol(x, h, i) => u >= 1
      /\ \A o \in h : o.uses \in Nat /\ o.made \in Nat
  BY <1>2, <1>3, <1>4, AtLeastTook
<1>6. i >= 1
  BY <1>5 DEF Pool
<1>7. /\ \A t \in h : t.uses >= 2
      /\ \A t \in h : \A d \in 1 .. MaxDepth + 1 :
           Reaches(t.leaves, d, c) =>
             t.uses >= FewestUses[d] /\ AtLeast(h \ {t}, i, Others(d))
      /\ \A t \in h : \A d \in 2 .. MaxDepth + 1 :
           Reaches(t.leaves, d, c) =>
             \A o \in h : t.made < o.made => o.uses >= FewestUses[d] + 1
  BY DEF FewInv
<1>8. \A d \in 1 .. MaxDepth + 1 : Others(d) \in Nat /\ FewestUses[d] \in Nat /\ LeftOver(d) \in Nat
  <2>1. \A d \in 1 .. MaxDepth + 1 : Others(d) \in Nat /\ FewestUses[d] \in Nat
    <3>1. \A d \in 0 .. MaxDepth + 1 : FewestUses[d] \in Nat
      BY FewestGrow
    <3>2. \A d \in 1 .. MaxDepth + 1 : Others(d) \in Nat
      BY FewestGrow
    <3>3. \A d \in 1 .. MaxDepth + 1 : d \in 0 .. MaxDepth + 1
      BY BitsAssumption
    <3> QED BY <3>1, <3>2, <3>3
  <2> QED BY <2>1, BitsAssumption DEF LeftOver
<1>9. FewInv(g, k, c)
  <2>1. ASSUME NEW t \in g, NEW d \in 1 .. MaxDepth + 1, Reaches(t.leaves, d, c)
        PROVE  t.uses >= FewestUses[d] /\ AtLeast(g \ {t}, k, Others(d))
    <3>1. PICK v \in Nat : v = Others(d)
      BY <1>8
    <3>2. PICK f : f = h \ {t}
      OBVIOUS
    <3>3. PICK e : e = g \ {t}
      OBVIOUS
    <3>4. e \subseteq f /\ (\A o \in f : o.uses \in Nat) /\ t \in h
      BY <1>5, <3>2, <3>3
    <3>5. t.uses >= FewestUses[d] /\ AtLeast(f, i, v)
      BY <1>7, <2>1, <3>1, <3>2, <3>4
    <3>6. v <= v
      OBVIOUS
    <3>7. AtLeast(e, k, v)
      BY <1>5, <1>6, <3>4, <3>5, <3>6, AtLeastLess
    <3> QED BY <3>1, <3>3, <3>5, <3>7
  <2> QED BY <1>5, <1>7, <2>1 DEF FewInv
<1>10. u >= 1
  <2>1. CASE TookSymbol(x, h, i)
    BY <1>5, <2>1
  <2>2. CASE \E t \in h : TookTree(x, h, i, t)
    <3>1. PICK t \in h : x.uses = t.uses
      BY <2>2 DEF TookTree
    <3>2. t.uses \in Nat /\ t.uses >= 2
      BY <1>5, <1>7
    <3> QED BY <1>4, <3>1, <3>2
  <2> QED BY <2>1, <2>2 DEF Took
<1>11. ASSUME NEW d \in 1 .. MaxDepth + 1, Reaches(x.leaves, d, c)
       PROVE  u >= FewestUses[d] /\ AtLeast(g, k, Others(d)) /\ AtLeast(g, k, LeftOver(d))
  <2>1. PICK s \in x.leaves : Len(c[s]) >= d
    BY <1>11 DEF Reaches
  <2>2. ~ TookSymbol(x, h, i)
    <3>1. SUFFICES ASSUME TookSymbol(x, h, i) PROVE FALSE
      OBVIOUS
    <3>2. s = i /\ i \in 1 .. n
      BY <1>1, <2>1, <3>1 DEF TookSymbol
    <3>3. c[i] = <<>>
      BY <1>1, <1>5, <3>2 DEF Codes
    <3>4. Len(c[s]) = 0
      BY <3>2, <3>3
    <3> QED BY <2>1, <3>4, BitsAssumption
  <2>3. PICK t \in h : TookTree(x, h, i, t)
    BY <2>2 DEF Took
  <2>4. /\ x.leaves = t.leaves /\ u = t.uses /\ g = h \ {t} /\ k = i
        /\ \A o \in h \ {t} : t.uses <= o.uses /\ (t.uses = o.uses => t.made < o.made)
        /\ \A j \in i .. n : t.uses < uses[j]
    BY <1>1, <1>2, <1>3, <1>4, <2>3 DEF TookTree
  <2>5. Reaches(t.leaves, d, c)
    BY <1>11, <2>4
  <2>6. t.uses >= FewestUses[d] /\ AtLeast(g, k, Others(d))
    BY <1>7, <2>4, <2>5
  <2>7. PICK v \in Nat : v = FewestUses[d]
    BY <1>8
  <2>8. t.uses \in Nat /\ t.made \in Nat /\ t.uses >= v
    BY <1>5, <2>6, <2>7
  <2>9. CASE d < 2
    <3>1. LeftOver(d) = v
      BY <1>8, <2>7, <2>9 DEF LeftOver
    <3>2. \A o \in g : o.uses \in Nat
      BY <1>5
    <3>3. k >= k /\ k >= 1 /\ g \subseteq g /\ v <= u
      BY <1>5, <1>6, <2>4, <2>8
    <3>4. AtLeast(g, k, v)
      BY <1>5, <3>2, <3>3, AtLeastLess
    <3> QED BY <2>4, <2>6, <3>1, <3>4
  <2>10. CASE ~(d < 2)
    <3>1. LeftOver(d) = v + 1
      BY <1>8, <2>7, <2>10 DEF LeftOver
    <3>2. d \in 2 .. MaxDepth + 1
      BY <2>10, BitsAssumption
    <3>3. ASSUME NEW o \in g PROVE o.uses >= v + 1
      <4>1. o \in h \ {t} /\ o \in h /\ o.uses \in Nat /\ o.made \in Nat
        BY <1>5, <2>4
      <4>2. CASE t.uses = o.uses
        <5>1. t.made < o.made
          BY <2>4, <4>1, <4>2
        <5> QED BY <1>7, <2>5, <2>7, <3>2, <4>1, <5>1
      <4>3. CASE t.uses # o.uses
        <5>1. t.uses <= o.uses
          BY <2>4, <4>1
        <5> QED BY <2>8, <4>1, <4>3, <5>1
      <4> QED BY <4>2, <4>3
    <3>4. ASSUME NEW j \in k .. n PROVE uses[j] >= v + 1
      <4>1. j \in 1 .. n /\ j \in i .. n
        BY <1>5, <1>6, <2>4
      <4>2. uses[j] \in Nat /\ t.uses < uses[j]
        BY <1>1, <2>4, <4>1
      <4> QED BY <2>8, <4>2
    <3>5. AtLeast(g, k, v + 1)
      BY <1>1, <3>3, <3>4 DEF AtLeast
    <3> QED BY <2>4, <2>6, <3>1, <3>5
  <2> QED BY <2>9, <2>10
<1>12. ASSUME NEW d \in 1 .. MaxDepth + 1, NEW t \in g, Reaches(t.leaves, d, c)
       PROVE  u >= Others(d)
  <2>1. AtLeast(h \ {t}, i, Others(d))
    BY <1>5, <1>7, <1>12
  <2>2. CASE TookSymbol(x, h, i)
    <3>1. i \in i .. n /\ u = uses[i]
      BY <1>1, <1>4, <1>5, <2>2 DEF TookSymbol
    <3> QED BY <1>1, <2>1, <3>1 DEF AtLeast
  <2>3. CASE \E o \in h : TookTree(x, h, i, o)
    <3>1. PICK o \in h : u = o.uses /\ g = h \ {o}
      BY <1>3, <1>4, <2>3 DEF TookTree
    <3>2. o \in h \ {t}
      BY <3>1
    <3> QED BY <2>1, <3>1, <3>2 DEF AtLeast
  <2> QED BY <2>2, <2>3 DEF Took
<1> QED BY <1>2, <1>3, <1>4, <1>9, <1>10, <1>11, <1>12

\* Two roots that are joined, and the roots beside them.
FewPair(g, k, x, y, c) ==
  /\ x.uses \in Nat /\ y.uses \in Nat /\ x.uses >= 1 /\ y.uses >= 1
  /\ AtLeast(g, k, 1)
  /\ \A d \in 1 .. MaxDepth + 1 :
       Reaches(x.leaves, d, c) \/ Reaches(y.leaves, d, c) =>
         x.uses + y.uses >= FewestUses[d] + Others(d) /\ AtLeast(g, k, LeftOver(d))
  /\ \A d \in 1 .. MaxDepth + 1 : \A t \in g :
       Reaches(t.leaves, d, c) => x.uses >= Others(d) /\ y.uses >= Others(d)

LEMMA FewJoined ==
  ASSUME UsesOK, NEW g, NEW k, NEW x, NEW y, NEW m, NEW c,
         Pool(g, k, x.leaves \cup y.leaves, m), Codes(g, k, c), FewInv(g, k, c),
         FewPair(g, k, x, y, c), NEW r, IsJoin(r, x, y, m)
  PROVE  FewInv(g \cup {r}, k, NewCodes(c, x.leaves, y.leaves))
<1>1. PICK n \in Nat : n = Len(uses) /\ uses \in [1 .. n -> Nat] /\ Symbol = 1 .. n
  BY UsesAre
<1>2. PICK L : L = x.leaves
  OBVIOUS
<1>3. PICK K : K = y.leaves
  OBVIOUS
<1>4. PICK e : e = NewCodes(c, L, K)
  OBVIOUS
<1>5. PICK v : v = r.uses
  OBVIOUS
<1>6. r.leaves = L \cup K /\ v = x.uses + y.uses /\ r.made = m
  BY <1>2, <1>3, <1>5 DEF IsJoin
<1>7. /\ k \in 1 .. n + 1 /\ m \in Nat /\ L \cup K \subseteq 1 .. k - 1 /\ g \subseteq Subtree
      /\ \A t \in g : t.leaves \subseteq (1 .. k - 1) \ (L \cup K) /\ t.made < m
  <2>1. Pool(g, k, L \cup K, m)
    BY <1>2, <1>3
  <2> QED BY <1>1, <2>1 DEF Pool
<1>8. k \in Nat /\ k >= 1 /\ \A t \in g : t.uses \in Nat /\ t.made \in Nat
  BY <1>7 DEF Subtree
<1>9. \A s \in L \cup K : s \in Symbol
  BY <1>1, <1>7
<1>10. ASSUME NEW s \in L \cup K
       PROVE  e[s] \in Seq(Bit) /\ Len(e[s]) = Len(c[s]) + 1 /\ Len(c[s]) \in Nat
  <2>1. c[s] \in Seq(Bit)
    BY <1>9 DEF Codes
  <2>2. 0 \in Bit /\ 1 \in Bit
    BY DEF Bit
  <2>3. PICK b \in Bit : e[s] = AddBit(b, c[s])
    BY <1>4, <1>9, <2>2 DEF NewCodes
  <2>4. /\ AddBit(b, c[s]) \in Seq(Bit) /\ Len(AddBit(b, c[s])) = Len(c[s]) + 1
        /\ Len(c[s]) \in Nat
    BY <2>1, AddBitIs
  <2> QED BY <2>3, <2>4
<1>11. ASSUME NEW t \in g PROVE \A s \in t.leaves : e[s] = c[s]
  <2>1. t.leaves \subseteq Symbol
    BY <1>7 DEF Subtree
  <2>2. \A s \in t.leaves : s \notin L /\ s \notin K
    BY <1>7
  <2> QED BY <1>4, <2>1, <2>2 DEF NewCodes
<1>12. \A t \in g : \A d : Reaches(t.leaves, d, e) <=> Reaches(t.leaves, d, c)
  BY <1>11 DEF Reaches
<1>13. ASSUME NEW d \in Nat, Reaches(r.leaves, d + 1, e)
       PROVE  Reaches(L, d, c) \/ Reaches(K, d, c)
  <2>1. PICK s \in L \cup K : Len(e[s]) >= d + 1
    BY <1>6, <1>13 DEF Reaches
  <2>2. Len(c[s]) >= d
    <3>1. PICK l \in Nat : l = Len(c[s])
      BY <1>10
    <3>2. Len(e[s]) = l + 1
      BY <1>10, <3>1
    <3>3. l >= d
      BY <2>1, <3>2
    <3> QED BY <3>1, <3>3
  <2> QED BY <2>2 DEF Reaches
<1>14. /\ x.uses \in Nat /\ y.uses \in Nat /\ x.uses >= 1 /\ y.uses >= 1
       /\ AtLeast(g, k, 1)
       /\ \A d \in 1 .. MaxDepth + 1 :
            Reaches(L, d, c) \/ Reaches(K, d, c) =>
              x.uses + y.uses >= FewestUses[d] + Others(d) /\ AtLeast(g, k, LeftOver(d))
       /\ \A d \in 1 .. MaxDepth + 1 : \A t \in g :
            Reaches(t.leaves, d, c) => x.uses >= Others(d) /\ y.uses >= Others(d)
  BY <1>2, <1>3 DEF FewPair
<1>15. v \in Nat /\ v >= 2
  <2>1. PICK p \in Nat : p = x.uses
    BY <1>14
  <2>2. PICK q \in Nat : q = y.uses
    BY <1>14
  <2> QED BY <1>6, <1>14, <2>1, <2>2
<1>16. ASSUME NEW d \in 1 .. MaxDepth + 1, Reaches(r.leaves, d, e)
       PROVE  v >= FewestUses[d] /\ AtLeast((g \cup {r}) \ {r}, k, Others(d))
  <2>1. r \notin g
    <3>1. \A t \in g : t.made # m
      BY <1>7, <1>8
    <3> QED BY <1>6, <3>1
  <2>2. (g \cup {r}) \ {r} = g
    BY <2>1
  <2>3. CASE d = 1
    <3>1. FewestUses[1] = 2 /\ Others(1) = 1
      <4>1. FewestUses[0] = 1 /\ FewestUses[1] = 2
        BY FewestGrow
      <4>2. 1 - 1 = 0 /\ 1 < 3
        OBVIOUS
      <4> QED BY <4>1, <4>2 DEF Others
    <3> QED BY <1>14, <1>15, <2>2, <2>3, <3>1
  <2>4. CASE d # 1
    <3>1. PICK b \in 1 .. MaxDepth : d = b + 1
      <4>1. d - 1 \in 1 .. MaxDepth /\ d = (d - 1) + 1
        BY <2>4, BitsAssumption
      <4> QED BY <4>1
    <3>2. b \in 1 .. MaxDepth + 1 /\ b \in Nat
      BY BitsAssumption
    <3>3. Reaches(L, b, c) \/ Reaches(K, b, c)
      BY <1>13, <1>16, <3>1, <3>2
    <3>4. v >= FewestUses[b] + Others(b) /\ AtLeast(g, k, LeftOver(b))
      BY <1>6, <1>14, <3>2, <3>3
    <3>5. FewestUses[b + 1] = FewestUses[b] + Others(b) /\ Others(b + 1) = LeftOver(b)
      BY FewestGrow DEF LeftOver
    <3> QED BY <2>2, <3>1, <3>4, <3>5
  <2> QED BY <2>3, <2>4
<1>17. FewInv(g, k, c)
  OBVIOUS
<1>18. ASSUME NEW t \in g, NEW d \in 1 .. MaxDepth + 1, Reaches(t.leaves, d, e)
       PROVE  /\ t.uses >= FewestUses[d]
              /\ AtLeast((g \cup {r}) \ {t}, k, Others(d))
              /\ (d >= 2 => v >= FewestUses[d] + 1)
  <2>1. Reaches(t.leaves, d, c)
    BY <1>12, <1>18
  <2>2. t.uses >= FewestUses[d] /\ AtLeast(g \ {t}, k, Others(d))
    BY <1>17, <2>1 DEF FewInv
  <2>3. x.uses >= Others(d) /\ y.uses >= Others(d)
    BY <1>14, <2>1
  <2>4. Others(d) \in Nat /\ FewestUses[d] \in Nat
    <3>1. d \in 0 .. MaxDepth + 1
      BY BitsAssumption
    <3> QED BY <3>1, FewestGrow
  <2>5. v >= 2 * Others(d)
    <3>1. PICK p \in Nat : p = x.uses
      BY <1>14
    <3>2. PICK q \in Nat : q = y.uses
      BY <1>14
    <3>3. PICK w \in Nat : w = Others(d)
      BY <2>4
    <3>4. p >= w /\ q >= w /\ v = p + q
      BY <1>6, <2>3, <3>1, <3>2, <3>3
    <3>5. v >= 2 * w
      BY <3>4
    <3> QED BY <3>3, <3>5
  <2>6. d >= 2 => v >= FewestUses[d] + 1
    <3>1. d >= 2 => 2 * Others(d) >= FewestUses[d] + 1
      BY FewestGrow
    <3> QED BY <1>15, <2>4, <2>5, <3>1
  <2>7. r.uses >= Others(d)
    BY <1>5, <1>15, <2>4, <2>5
  <2>8. AtLeast((g \cup {r}) \ {t}, k, Others(d))
    <3>1. \A o \in g \ {t} : o.uses >= Others(d)
      BY <2>2 DEF AtLeast
    <3>2. \A o \in (g \cup {r}) \ {t} : o.uses >= Others(d)
      BY <2>7, <3>1
    <3> QED BY <2>2, <3>2 DEF AtLeast
  <2> QED BY <2>2, <2>6, <2>8
<1>19. \A t \in g \cup {r} : t.uses >= 2
  BY <1>5, <1>15, <1>17 DEF FewInv
<1>20. ASSUME NEW t \in g \cup {r}, NEW d \in 1 .. MaxDepth + 1, Reaches(t.leaves, d, e)
       PROVE  t.uses >= FewestUses[d] /\ AtLeast((g \cup {r}) \ {t}, k, Others(d))
  <2>1. CASE t \in g
    BY <1>18, <1>20, <2>1
  <2>2. CASE t = r
    BY <1>5, <1>16, <1>20, <2>2
  <2> QED BY <2>1, <2>2
<1>21. ASSUME NEW t \in g \cup {r}, NEW d \in 2 .. MaxDepth + 1, Reaches(t.leaves, d, e),
              NEW o \in g \cup {r}, t.made < o.made
       PROVE  o.uses >= FewestUses[d] + 1
  <2>1. t \in g
    <3>1. SUFFICES ASSUME t = r PROVE FALSE
      OBVIOUS
    <3>2. \A u \in g : u.made < m /\ u.made \in Nat
      BY <1>7, <1>8
    <3>3. m < o.made
      BY <1>6, <1>21, <3>1
    <3>4. CASE o \in g
      BY <1>7, <3>2, <3>3, <3>4
    <3>5. CASE o = r
      BY <1>6, <1>7, <3>3, <3>5
    <3> QED BY <3>4, <3>5
  <2>2. d \in 1 .. MaxDepth + 1 /\ d >= 2
    BY BitsAssumption
  <2>3. CASE o = r
    BY <1>5, <1>18, <1>21, <2>1, <2>2, <2>3
  <2>4. CASE o \in g
    <3>1. Reaches(t.leaves, d, c)
      BY <1>12, <1>21, <2>1
    <3> QED BY <1>17, <1>21, <2>1, <2>4, <3>1 DEF FewInv
  <2> QED BY <2>3, <2>4
<1>22. FewInv(g \cup {r}, k, e)
  BY <1>19, <1>20, <1>21 DEF FewInv
<1> QED BY <1>2, <1>3, <1>4, <1>22

LEMMA FewStep ==
  ASSUME TreeInv, FewInv(heap, nextSym, codeOf), Combine
  PROVE  FewInv(heap, nextSym, codeOf)'
<1>1. PICK zero, one, r : IsStep(zero, one, r)
  BY CombineIs
<1>2. PICK h : h = heap
  OBVIOUS
<1>3. PICK i : i = nextSym
  OBVIOUS
<1>4. PICK m : m = Made
  OBVIOUS
<1>5. PICK c : c = codeOf
  OBVIOUS
<1>6. PICK f : f = zero.heap
  OBVIOUS
<1>7. PICK j : j = zero.next
  OBVIOUS
<1>8. PICK g : g = one.heap
  OBVIOUS
<1>9. PICK k : k = one.next
  OBVIOUS
<1>10. PICK L : L = zero.leaves
  OBVIOUS
<1>11. PICK K : K = one.leaves
  OBVIOUS
<1>12. /\ UsesOK /\ Pool(h, i, {}, m) /\ Codes(h, i, c) /\ FewInv(h, i, c)
  BY <1>2, <1>3, <1>4, <1>5 DEF TreeInv
<1>13. /\ Took(zero, h, i) /\ Took(one, f, j) /\ Pool(f, j, L, m) /\ Pool(g, k, L \cup K, m)
       /\ zero.uses \in Nat /\ one.uses \in Nat /\ IsJoin(r, zero, one, m)
       /\ heap' = g \cup {r} /\ nextSym' = k /\ codeOf' = NewCodes(c, L, K) /\ uses' = uses
  BY <1>1, <1>2, <1>3, <1>4, <1>5, <1>6, <1>7, <1>8, <1>9, <1>10, <1>11 DEF IsStep
<1>14. Codes(f, j, c)
  BY <1>6, <1>7, <1>12, <1>13, CodesTook
<1>15. Codes(g, k, c)
  BY <1>8, <1>9, <1>12, <1>13, <1>14, CodesTook
<1>16. /\ FewInv(f, j, c) /\ zero.uses >= 1
       /\ \A d \in 1 .. MaxDepth + 1 :
            Reaches(L, d, c) => /\ zero.uses >= FewestUses[d]
                                /\ AtLeast(f, j, Others(d))
                                /\ AtLeast(f, j, LeftOver(d))
       /\ \A d \in 1 .. MaxDepth + 1 : \A t \in f :
            Reaches(t.leaves, d, c) => zero.uses >= Others(d)
  BY <1>6, <1>7, <1>10, <1>12, <1>13, TookFew
<1>17. /\ FewInv(g, k, c) /\ one.uses >= 1
       /\ \A d \in 1 .. MaxDepth + 1 :
            Reaches(K, d, c) => /\ one.uses >= FewestUses[d]
                                /\ AtLeast(g, k, Others(d))
                                /\ AtLeast(g, k, LeftOver(d))
       /\ \A d \in 1 .. MaxDepth + 1 : \A t \in g :
            Reaches(t.leaves, d, c) => one.uses >= Others(d)
  BY <1>8, <1>9, <1>11, <1>12, <1>13, <1>14, <1>16, TookFew
<1>18. /\ g \subseteq f /\ k \in Nat /\ j \in Nat /\ k >= j
       /\ AtLeast(g, k, one.uses)
       /\ \A o \in f : o.uses \in Nat
  BY <1>8, <1>9, <1>12, <1>13, AtLeastTook
<1>19. j >= 1
  BY <1>13, <1>18 DEF Pool
<1>20. \A d \in 1 .. MaxDepth + 1 : Others(d) \in Nat /\ FewestUses[d] \in Nat /\ LeftOver(d) \in Nat
  <2>1. \A d \in 1 .. MaxDepth + 1 : Others(d) \in Nat
    BY FewestGrow
  <2>2. \A d \in 1 .. MaxDepth + 1 : FewestUses[d] \in Nat
    BY FewestGrow, BitsAssumption
  <2> QED BY <2>1, <2>2, BitsAssumption DEF LeftOver
<1>21. \A v \in Nat : AtLeast(f, j, v) => AtLeast(g, k, v) /\ one.uses >= v
  <2> SUFFICES ASSUME NEW v \in Nat, AtLeast(f, j, v)
               PROVE  AtLeast(g, k, v) /\ one.uses >= v
    OBVIOUS
  <2>1. v <= v
    OBVIOUS
  <2>2. AtLeast(g, k, v)
    BY <1>12, <1>18, <1>19, <2>1, AtLeastLess
  <2>3. one.uses >= v
    <3>1. CASE TookSymbol(one, f, j)
      <4>1. j \in j .. Len(uses) /\ one.uses = uses[j]
        BY <1>18, <3>1, UsesAre, <1>12 DEF TookSymbol
      <4> QED BY <4>1 DEF AtLeast
    <3>2. CASE \E t \in f : TookTree(one, f, j, t)
      BY <3>2 DEF AtLeast, TookTree
    <3> QED BY <1>13, <3>1, <3>2 DEF Took
  <2> QED BY <2>2, <2>3
<1>22. ASSUME NEW d \in 1 .. MaxDepth + 1, Reaches(L, d, c) \/ Reaches(K, d, c)
       PROVE  zero.uses + one.uses >= FewestUses[d] + Others(d) /\ AtLeast(g, k, LeftOver(d))
  <2>1. CASE Reaches(L, d, c)
    <3>1. zero.uses >= FewestUses[d] /\ one.uses >= Others(d) /\ AtLeast(g, k, LeftOver(d))
      BY <1>16, <1>20, <1>21, <2>1
    <3> QED BY <1>13, <1>20, <3>1
  <2>2. CASE Reaches(K, d, c)
    <3>1. one.uses >= FewestUses[d] /\ AtLeast(g, k, LeftOver(d))
      BY <1>17, <2>2
    <3>2. zero.uses >= Others(d)
      <4>1. PICK s \in K : Len(c[s]) >= d
        BY <2>2 DEF Reaches
      <4>2. CASE TookSymbol(one, f, j)
        <5>1. s = j /\ j \in Symbol /\ j >= j
          BY <1>11, <1>12, <1>18, <4>1, <4>2, UsesAre DEF TookSymbol
        <5>2. c[s] = <<>>
          BY <1>14, <5>1 DEF Codes
        <5>3. Len(c[s]) = 0
          BY <5>2
        <5> QED BY <4>1, <5>3, BitsAssumption
      <4>3. CASE \E t \in f : TookTree(one, f, j, t)
        <5>1. PICK t \in f : K = t.leaves
          BY <1>11, <4>3 DEF TookTree
        <5> QED BY <1>16, <2>2, <5>1
      <4> QED BY <1>13, <4>2, <4>3 DEF Took
    <3> QED BY <1>13, <1>20, <3>1, <3>2
  <2> QED BY <1>22, <2>1, <2>2
<1>23. AtLeast(g, k, 1)
  <2>1. g \subseteq g /\ k >= k /\ k >= 1 /\ 1 <= one.uses /\ \A o \in g : o.uses \in Nat
    BY <1>13, <1>17, <1>18, <1>19
  <2> QED BY <1>12, <1>13, <1>18, <2>1, AtLeastLess
<1>24. FewPair(g, k, zero, one, c)
  BY <1>10, <1>11, <1>13, <1>16, <1>17, <1>18, <1>22, <1>23 DEF FewPair
<1>25. FewInv(g \cup {r}, k, NewCodes(c, L, K))
  <2>1. Pool(g, k, zero.leaves \cup one.leaves, m)
    BY <1>10, <1>11, <1>13
  <2> QED BY <1>10, <1>11, <1>12, <1>13, <1>15, <1>17, <1>24, <2>1, FewJoined
<1> QED BY <1>13, <1>25 DEF FewInv, Reaches, AtLeast

(***************************************************************************)
(* The order of the codes.                                                 *)
(***************************************************************************)
LEMMA PartsCut ==
  ASSUME NEW a \in Seq(Bit), NEW b \in Seq(Bit), NEW c \in Seq(Bit), NEW i \in Nat, NEW j \in Nat,
         Parts(a, b, i), a[i] < b[i], Parts(b, c, j), b[j] < c[j]
  PROVE  \E k \in Nat : Parts(a, c, k) /\ a[k] < c[k]
<1>1. /\ i \in DOMAIN a /\ i \in DOMAIN b /\ \A l \in 1 .. i - 1 : a[l] = b[l]
      /\ j \in DOMAIN b /\ j \in DOMAIN c /\ \A l \in 1 .. j - 1 : b[l] = c[l]
  BY DEF Parts
<1>2. a[i] \in {0, 1} /\ b[i] \in {0, 1} /\ b[j] \in {0, 1} /\ c[j] \in {0, 1}
  BY <1>1 DEF Bit
<1>3. a[i] = 0 /\ b[i] = 1 /\ b[j] = 0 /\ c[j] = 1
  BY <1>2
<1>4. i >= 1 /\ j >= 1
  BY <1>1
<1>5. CASE i < j
  <2>1. i \in 1 .. j - 1 /\ i \in 1 .. Len(c)
    BY <1>1, <1>4, <1>5
  <2>2. c[i] = 1 /\ i \in DOMAIN c
    BY <1>1, <1>3, <2>1
  <2>3. \A l \in 1 .. i - 1 : a[l] = c[l]
    <3>1. \A l \in 1 .. i - 1 : l \in 1 .. j - 1
      BY <1>5
    <3> QED BY <1>1, <3>1
  <2>4. Parts(a, c, i) /\ a[i] < c[i]
    BY <1>1, <1>3, <2>2, <2>3 DEF Parts
  <2> QED BY <2>4
<1>6. CASE i = j
  BY <1>3, <1>6
<1>7. CASE i > j
  <2>1. j \in 1 .. i - 1 /\ j \in 1 .. Len(a)
    BY <1>1, <1>4, <1>7
  <2>2. a[j] = 0 /\ j \in DOMAIN a
    BY <1>1, <1>3, <2>1
  <2>3. \A l \in 1 .. j - 1 : a[l] = c[l]
    <3>1. \A l \in 1 .. j - 1 : l \in 1 .. i - 1
      BY <1>7
    <3> QED BY <1>1, <3>1
  <2>4. Parts(a, c, j) /\ a[j] < c[j]
    BY <1>1, <1>3, <2>2, <2>3 DEF Parts
  <2> QED BY <2>4
<1> QED BY <1>5, <1>6, <1>7

LEMMA BeforeTransitive ==
  ASSUME NEW a \in Seq(Bit), NEW b \in Seq(Bit), NEW c \in Seq(Bit), Before(a, b), Before(b, c)
  PROVE  Before(a, c)
<1>1. PICK i \in Nat : Parts(a, b, i) /\ a[i] < b[i]
  BY BeforeIs
<1>2. PICK j \in Nat : Parts(b, c, j) /\ b[j] < c[j]
  BY BeforeIs
<1>3. \E k \in Nat : Parts(a, c, k) /\ a[k] < c[k]
  BY <1>1, <1>2, PartsCut
<1> QED BY <1>3, BeforeIs

LEMMA BeforeIrreflexive ==
  ASSUME NEW a \in Seq(Bit)
  PROVE  ~ Before(a, a)
<1>1. \A k \in Nat : ~ Parts(a, a, k)
  BY DEF Parts
<1> QED BY <1>1, BeforeIs

\* R orders the numbers up to n.
Orders(R, n) ==
  /\ \A s \in 1 .. n : <<s, s>> \notin R
  /\ \A s, t, u \in 1 .. n : <<s, t>> \in R /\ <<t, u>> \in R => <<s, u>> \in R
  /\ \A s, t \in 1 .. n : s # t => <<s, t>> \in R \/ <<t, s>> \in R

\* Those before s.
Below(R, n, s) == {t \in 1 .. n : <<t, s>> \in R}

LEMMA BelowIs ==
  ASSUME NEW n \in Nat, NEW R, Orders(R, n), NEW s \in 1 .. n
  PROVE  /\ IsFiniteSet(Below(R, n, s)) /\ Cardinality(Below(R, n, s)) \in 0 .. n - 1
         /\ \A t \in 1 .. n : <<s, t>> \in R =>
              Cardinality(Below(R, n, s)) < Cardinality(Below(R, n, t))
<1>1. IsFiniteSet(1 .. n) /\ Cardinality(1 .. n) = n
  BY FS_Interval
<1>2. ASSUME NEW t \in 1 .. n
      PROVE  /\ Below(R, n, t) \in SUBSET (1 .. n) /\ IsFiniteSet(Below(R, n, t))
             /\ Cardinality(Below(R, n, t)) \in Nat
  <2>1. Below(R, n, t) \in SUBSET (1 .. n)
    BY DEF Below
  <2>2. IsFiniteSet(Below(R, n, t))
    BY <1>1, <2>1, FS_Subset
  <2> QED BY <2>1, <2>2, FS_CardinalityType
<1>3. PICK B : B = Below(R, n, s)
  OBVIOUS
<1>4. B \in SUBSET (1 .. n) /\ IsFiniteSet(B) /\ Cardinality(B) \in Nat /\ s \notin B
  BY <1>2, <1>3 DEF Below, Orders
<1>5. IsFiniteSet(B \cup {s}) /\ Cardinality(B \cup {s}) = Cardinality(B) + 1
  BY <1>4, FS_AddElement
<1>6. Cardinality(B) + 1 <= n
  <2>1. B \cup {s} \in SUBSET (1 .. n)
    BY <1>4
  <2>2. Cardinality(B \cup {s}) <= Cardinality(1 .. n)
    BY <1>1, <2>1, FS_Subset
  <2> QED BY <1>1, <1>5, <2>2
<1>7. ASSUME NEW t \in 1 .. n, <<s, t>> \in R
      PROVE  Cardinality(B) < Cardinality(Below(R, n, t))
  <2>1. B \cup {s} \in SUBSET Below(R, n, t)
    BY <1>3, <1>4, <1>7 DEF Below, Orders
  <2>2. Cardinality(B \cup {s}) <= Cardinality(Below(R, n, t))
    BY <1>2, <2>1, FS_Subset
  <2> QED BY <1>2, <1>4, <1>5, <2>2
<1> QED BY <1>3, <1>4, <1>6, <1>7

LEMMA Ranks ==
  ASSUME NEW n \in Nat, NEW R, Orders(R, n)
  PROVE  /\ \A s, t \in 1 .. n : s # t =>
              Cardinality(Below(R, n, s)) # Cardinality(Below(R, n, t))
         /\ \A k \in 0 .. n - 1 : \E s \in 1 .. n : Cardinality(Below(R, n, s)) = k
<1> DEFINE rank == [s \in 1 .. n |-> Cardinality(Below(R, n, s))]
<1>1. rank \in [1 .. n -> 0 .. n - 1]
  BY BelowIs
<1>2. ASSUME NEW s \in 1 .. n, NEW t \in 1 .. n, s # t
      PROVE  Cardinality(Below(R, n, s)) # Cardinality(Below(R, n, t))
  <2>1. \A u \in 1 .. n : Cardinality(Below(R, n, u)) \in Nat
    BY BelowIs
  <2>2. <<s, t>> \in R \/ <<t, s>> \in R
    BY <1>2 DEF Orders
  <2>3. CASE <<s, t>> \in R
    <3>1. Cardinality(Below(R, n, s)) < Cardinality(Below(R, n, t))
      BY <2>3, BelowIs
    <3> QED BY <2>1, <3>1
  <2>4. CASE <<t, s>> \in R
    <3>1. Cardinality(Below(R, n, t)) < Cardinality(Below(R, n, s))
      BY <2>4, BelowIs
    <3> QED BY <2>1, <3>1
  <2> QED BY <2>2, <2>3, <2>4
<1>3. rank \in Injection(1 .. n, 0 .. n - 1)
  <2>1. \A s, t \in 1 .. n : rank[s] = rank[t] => s = t
    BY <1>2
  <2> HIDE DEF rank
  <2> QED BY <1>1, <2>1 DEF Injection, IsInjective
<1>4. /\ IsFiniteSet(1 .. n) /\ Cardinality(1 .. n) = n
      /\ IsFiniteSet(0 .. n - 1) /\ Cardinality(0 .. n - 1) = n
  <2>1. IsFiniteSet(1 .. n) /\ Cardinality(1 .. n) = n
    BY FS_Interval
  <2>2. PICK m \in Int : m = n - 1
    OBVIOUS
  <2>3. IsFiniteSet(0 .. m) /\ Cardinality(0 .. m) = IF 0 > m THEN 0 ELSE m - 0 + 1
    BY FS_Interval
  <2>4. Cardinality(0 .. m) = n
    BY <2>2, <2>3
  <2> QED BY <2>1, <2>2, <2>3, <2>4
<1>5. rank \in Surjection(1 .. n, 0 .. n - 1)
  <2> HIDE DEF rank
  <2> QED BY <1>3, <1>4, FS_Injection
<1>6. \A k \in 0 .. n - 1 : \E s \in 1 .. n : rank[s] = k
  <2> HIDE DEF rank
  <2> QED BY <1>5 DEF Surjection
<1> QED BY <1>2, <1>6

\* order are the symbols, in the order of their codes.
AreOrdered(order, n) ==
  /\ order \in [1 .. n -> 1 .. n]
  /\ \A s \in 1 .. n : \E k \in 1 .. n : order[k] = s
  /\ \A j, k \in 1 .. n : j < k => order[j] # order[k] /\ Before(codeOf[order[j]], codeOf[order[k]])

LEMMA OrderIs ==
  ASSUME NEW n \in Nat, Symbol = 1 .. n, codeOf \in [Symbol -> Seq(Bit)], IsTree(codeOf, Symbol)
  PROVE  AreOrdered(InOrder, n)
<1> DEFINE R == {ss \in (1 .. n) \X (1 .. n) : Before(codeOf[ss[1]], codeOf[ss[2]])}
<1>1. \A s \in 1 .. n : codeOf[s] \in Seq(Bit)
  OBVIOUS
<1>2. \A s, t \in 1 .. n : <<s, t>> \in R <=> Before(codeOf[s], codeOf[t])
  OBVIOUS
<1> HIDE DEF R
<1>3. Orders(R, n)
  <2>1. \A s \in 1 .. n : <<s, s>> \notin R
    BY <1>1, <1>2, BeforeIrreflexive
  <2>2. ASSUME NEW s \in 1 .. n, NEW t \in 1 .. n, NEW u \in 1 .. n,
               <<s, t>> \in R, <<t, u>> \in R
        PROVE  <<s, u>> \in R
    <3>1. Before(codeOf[s], codeOf[t]) /\ Before(codeOf[t], codeOf[u])
      BY <1>2, <2>2
    <3>2. Before(codeOf[s], codeOf[u])
      BY <1>1, <3>1, BeforeTransitive
    <3> QED BY <1>2, <3>2
  <2>3. \A s, t \in 1 .. n : s # t => <<s, t>> \in R \/ <<t, s>> \in R
    BY <1>2 DEF IsTree
  <2> QED BY <2>1, <2>2, <2>3 DEF Orders
<1>4. /\ \A s, t \in 1 .. n : s # t => Cardinality(Below(R, n, s)) # Cardinality(Below(R, n, t))
      /\ \A k \in 0 .. n - 1 : \E s \in 1 .. n : Cardinality(Below(R, n, s)) = k
  BY <1>3, Ranks
<1>5. \A s \in 1 .. n : {t \in Symbol : Before(codeOf[t], codeOf[s])} = Below(R, n, s)
  BY <1>2 DEF Below
<1>6. ASSUME NEW k \in 1 .. n
      PROVE  /\ InOrder[k] \in 1 .. n
             /\ \A s \in 1 .. n : s = InOrder[k] <=> Cardinality(Below(R, n, s)) = k - 1
  <2>1. InOrder[k] = CHOOSE s \in 1 .. n :
          Cardinality({t \in Symbol : Before(codeOf[t], codeOf[s])}) = k - 1
    BY DEF InOrder
  <2>2. k - 1 \in 0 .. n - 1
    OBVIOUS
  <2>3. PICK u \in 1 .. n : Cardinality(Below(R, n, u)) = k - 1
    BY <1>4, <2>2
  <2>4. \E s \in 1 .. n : Cardinality({t \in Symbol : Before(codeOf[t], codeOf[s])}) = k - 1
    BY <1>5, <2>3
  <2>5. /\ InOrder[k] \in 1 .. n
        /\ Cardinality({t \in Symbol : Before(codeOf[t], codeOf[InOrder[k]])}) = k - 1
    BY <2>1, <2>4
  <2>6. Cardinality(Below(R, n, InOrder[k])) = k - 1
    BY <1>5, <2>5
  <2> QED BY <1>4, <2>5, <2>6
<1>7. InOrder \in [1 .. n -> 1 .. n]
  BY <1>6 DEF InOrder
<1>8. ASSUME NEW s \in 1 .. n PROVE \E k \in 1 .. n : InOrder[k] = s
  <2>1. PICK c \in 0 .. n - 1 : c = Cardinality(Below(R, n, s))
    BY <1>3, BelowIs
  <2>2. c + 1 \in 1 .. n /\ (c + 1) - 1 = c
    BY <2>1
  <2>3. s = InOrder[c + 1]
    BY <1>6, <2>1, <2>2
  <2> QED BY <2>2, <2>3
<1>9. ASSUME NEW j \in 1 .. n, NEW k \in 1 .. n, j < k
      PROVE  InOrder[j] # InOrder[k] /\ Before(codeOf[InOrder[j]], codeOf[InOrder[k]])
  <2>1. PICK s \in 1 .. n : s = InOrder[j]
    BY <1>6
  <2>2. PICK t \in 1 .. n : t = InOrder[k]
    BY <1>6
  <2>3. Cardinality(Below(R, n, s)) = j - 1 /\ Cardinality(Below(R, n, t)) = k - 1
    BY <1>6, <2>1, <2>2
  <2>4. s # t
    BY <1>9, <2>3
  <2>5. <<t, s>> \notin R
    <3>1. SUFFICES ASSUME <<t, s>> \in R PROVE FALSE
      OBVIOUS
    <3>2. Cardinality(Below(R, n, t)) < Cardinality(Below(R, n, s))
      BY <1>3, <3>1, BelowIs
    <3> QED BY <1>9, <2>3, <3>2
  <2>6. <<s, t>> \in R
    BY <1>3, <2>4, <2>5 DEF Orders
  <2> QED BY <1>2, <2>1, <2>2, <2>4, <2>6
<1> QED BY <1>7, <1>8, <1>9 DEF AreOrdered

(***************************************************************************)
(* Sequences one after the other.                                          *)
(***************************************************************************)
\* e[k] is where the first k of n sequences end.
AreEnds(e, q, n) ==
  e \in [0 .. n -> Nat] /\ e[0] = 0 /\ \A k \in 1 .. n : e[k] = e[k - 1] + Len(q[k])

\* b are the first k of them.
FlatTo(b, q, e, k) ==
  /\ Len(b) = e[k]
  /\ \A i \in 1 .. k : \A j \in 1 .. Len(q[i]) : b[e[i - 1] + j] = q[i][j]

IsFlat(b, q, n, e) == AreEnds(e, q, n) /\ FlatTo(b, q, e, n)

LEMMA EndsGrow ==
  ASSUME NEW n \in Nat, NEW q, \A k \in 1 .. n : Len(q[k]) \in Nat, NEW e, AreEnds(e, q, n)
  PROVE  \A i, k \in 0 .. n : i <= k => e[i] <= e[k]
<1>1. e \in [0 .. n -> Nat] /\ \A k \in 1 .. n : e[k] = e[k - 1] + Len(q[k])
  BY DEF AreEnds
<1> SUFFICES ASSUME NEW i \in 0 .. n PROVE \A k \in 0 .. n : i <= k => e[i] <= e[k]
  OBVIOUS
<1> DEFINE T == {k \in 0 .. n : i <= k => e[i] <= e[k]}
<1>2. 0 \in T
  BY <1>1
<1>3. ASSUME NEW k \in 1 .. n, k - 1 \in T PROVE k \in T
  <2>1. e[k] = e[k - 1] + Len(q[k]) /\ e[k - 1] \in Nat /\ Len(q[k]) \in Nat /\ e[i] \in Nat
    BY <1>1
  <2>2. i <= k - 1 => e[i] <= e[k - 1]
    BY <1>3
  <2>3. i = k \/ i <= k - 1 \/ i > k
    OBVIOUS
  <2> QED BY <2>1, <2>2, <2>3
<1> HIDE DEF T
<1>4. \A k \in 0 .. n : k \in T
  BY <1>2, <1>3, Upto
<1> QED BY <1>4 DEF T

LEMMA Concatenated ==
  ASSUME NEW S, NEW a \in Seq(S), NEW c \in Seq(S), NEW l, l = Len(a), NEW b, b = a \o c
  PROVE  /\ b \in Seq(S) /\ l \in Nat /\ Len(c) \in Nat /\ Len(b) = l + Len(c)
         /\ DOMAIN b = 1 .. l + Len(c)
         /\ \A i \in 1 .. l : b[i] = a[i]
         /\ \A i \in 1 .. Len(c) : b[l + i] = c[i]
<1>1. a \o c \in Seq(S) /\ Len(a) \in Nat /\ Len(c) \in Nat /\ Len(a \o c) = Len(a) + Len(c)
  OBVIOUS
<1>2. \A i \in 1 .. Len(a) : (a \o c)[i] = a[i]
  OBVIOUS
<1>3. ASSUME NEW i \in 1 .. Len(c) PROVE (a \o c)[Len(a) + i] = c[i]
  <2>1. PICK k \in Len(a) + 1 .. Len(a) + Len(c) : k = Len(a) + i
    BY <1>1
  <2>2. (a \o c)[k] = c[k - Len(a)]
    BY <1>1
  <2>3. k - Len(a) = i
    BY <1>1, <2>1
  <2> QED BY <2>1, <2>2, <2>3
<1> QED BY <1>1, <1>2, <1>3

LEMMA FlatStep ==
  ASSUME NEW S, NEW n \in Nat, NEW q \in [1 .. n -> Seq(S)], NEW e, AreEnds(e, q, n),
         NEW k \in 1 .. n, NEW a \in Seq(S), FlatTo(a, q, e, k - 1)
  PROVE  FlatTo(a \o q[k], q, e, k)
<1>1. e \in [0 .. n -> Nat] /\ \A i \in 1 .. n : e[i] = e[i - 1] + Len(q[i])
  BY DEF AreEnds
<1>2. \A i \in 1 .. n : q[i] \in Seq(S) /\ Len(q[i]) \in Nat
  OBVIOUS
<1>3. k - 1 \in 0 .. n
  OBVIOUS
<1>4. PICK c \in Seq(S) : c = q[k]
  BY <1>2
<1>5. PICK l : l = Len(a)
  OBVIOUS
<1>6. PICK b : b = a \o c
  OBVIOUS
<1>7. /\ l \in Nat /\ Len(c) \in Nat /\ Len(b) = l + Len(c)
      /\ \A i \in 1 .. l : b[i] = a[i]
      /\ \A i \in 1 .. Len(c) : b[l + i] = c[i]
  BY <1>5, <1>6, Concatenated
<1>8. l = e[k - 1] /\ \A i \in 1 .. k - 1 : \A j \in 1 .. Len(q[i]) : a[e[i - 1] + j] = q[i][j]
  BY <1>5 DEF FlatTo
<1>9. Len(b) = e[k]
  BY <1>1, <1>4, <1>7, <1>8
<1>10. ASSUME NEW i \in 1 .. k, NEW j \in 1 .. Len(q[i]) PROVE b[e[i - 1] + j] = q[i][j]
  <2>1. CASE i = k
    BY <1>4, <1>7, <1>8, <2>1
  <2>2. CASE i # k
    <3>1. i \in 1 .. k - 1 /\ i \in 1 .. n /\ i \in 0 .. n /\ i - 1 \in 0 .. n /\ i <= k - 1
      BY <2>2
    <3>2. e[i] <= e[k - 1]
      BY <1>2, <1>3, <3>1, EndsGrow
    <3>3. e[i - 1] \in Nat /\ e[i] = e[i - 1] + Len(q[i]) /\ Len(q[i]) \in Nat
      BY <1>1, <1>2, <3>1
    <3>4. e[i - 1] + j \in 1 .. l
      <4>1. PICK x \in Nat : x = e[i - 1]
        BY <3>3
      <4>2. PICK y \in Nat : y = Len(q[i])
        BY <3>3
      <4>3. x + y <= l /\ j \in 1 .. y
        BY <1>8, <3>2, <3>3, <4>1, <4>2
      <4>4. x + j \in 1 .. l
        BY <1>7, <4>3
      <4> QED BY <4>1, <4>4
    <3>5. a[e[i - 1] + j] = q[i][j]
      BY <1>8, <3>1
    <3> QED BY <1>7, <3>4, <3>5
  <2> QED BY <2>1, <2>2
<1> QED BY <1>4, <1>6, <1>9, <1>10 DEF FlatTo

LEMMA FlattenIs ==
  ASSUME NEW S, NEW n \in Nat, NEW q \in [1 .. n -> Seq(S)]
  PROVE  FlattenSeq(q) \in Seq(S) /\ \E e : IsFlat(FlattenSeq(q), q, n, e)
<1> DEFINE step == [k \in 1 .. n |-> [x \in Seq(S) |-> x \o q[k]]]
<1>1. AreSteps(step, n, Seq(S)) /\ <<>> \in Seq(S)
  BY DEF AreSteps
<1>2. PICK f : AreRounds(f, n, Seq(S), <<>>, step)
  <2> HIDE DEF step
  <2> QED BY <1>1, Rounds
<1>3. /\ f \in [0 .. n -> Seq(S)] /\ f[0] = <<>>
      /\ \A k \in 1 .. n : f[k] = step[k][f[k - 1]]
  BY <1>2 DEF AreRounds
<1>4. ASSUME NEW k \in 1 .. n PROVE f[k] = f[k - 1] \o q[k]
  <2>1. f[k - 1] \in Seq(S)
    BY <1>3
  <2> QED BY <1>3, <2>1
<1> DEFINE e == [k \in 0 .. n |-> Len(f[k])]
<1>5. AreEnds(e, q, n)
  <2>1. \A k \in 0 .. n : e[k] = Len(f[k]) /\ Len(f[k]) \in Nat
    BY <1>3
  <2>2. e[0] = 0
    BY <1>3
  <2>3. ASSUME NEW k \in 1 .. n PROVE e[k] = e[k - 1] + Len(q[k])
    <3>1. f[k - 1] \in Seq(S) /\ q[k] \in Seq(S) /\ k - 1 \in 0 .. n /\ k \in 0 .. n
      BY <1>3
    <3>2. Len(f[k]) = Len(f[k - 1]) + Len(q[k])
      <4>1. PICK x \in Seq(S) : x = f[k - 1]
        BY <3>1
      <4>2. PICK y \in Seq(S) : y = q[k]
        BY <3>1
      <4>3. f[k] = x \o y
        BY <1>4, <4>1, <4>2
      <4>4. Len(x \o y) = Len(x) + Len(y)
        OBVIOUS
      <4> QED BY <4>1, <4>2, <4>3, <4>4
    <3> QED BY <2>1, <3>1, <3>2
  <2>4. e \in [0 .. n -> Nat]
    BY <2>1
  <2> HIDE DEF e
  <2> QED BY <2>2, <2>3, <2>4 DEF AreEnds
<1>6. \A k \in 0 .. n : e[k] = Len(f[k])
  OBVIOUS
<1> HIDE DEF e, step
<1> DEFINE T == {k \in 0 .. n : FlatTo(f[k], q, e, k)}
<1>7. 0 \in T
  BY <1>6 DEF FlatTo
<1>8. ASSUME NEW k \in 1 .. n, k - 1 \in T PROVE k \in T
  <2>1. PICK a \in Seq(S) : a = f[k - 1]
    <3>1. k - 1 \in 0 .. n
      OBVIOUS
    <3> QED BY <1>3, <3>1
  <2>2. FlatTo(a, q, e, k - 1)
    BY <1>8, <2>1
  <2>3. FlatTo(a \o q[k], q, e, k)
    BY <1>5, <2>2, FlatStep
  <2>4. f[k] = a \o q[k]
    BY <1>4, <2>1
  <2>5. FlatTo(f[k], q, e, k)
    BY <2>3, <2>4
  <2> QED BY <2>5
<1>9. FlatTo(f[n], q, e, n)
  <2>1. \A k \in 0 .. n : k \in T
    <3> HIDE DEF T
    <3> QED BY <1>7, <1>8, Upto
  <2> QED BY <2>1
<1>10. FlattenSeq(q) = f[n]
  <2>1. Len(q) = n
    OBVIOUS
  <2>2. CASE n = 0
    <3>1. q = <<>>
      BY <2>2
    <3>2. FlattenSeq(q) = q
      BY <2>1, <2>2 DEF FlattenSeq
    <3> QED BY <1>3, <2>2, <3>1, <3>2
  <2>3. CASE n # 0
    <3> DEFINE rec(g) == g = [i \in 1 .. n |-> IF i = 1 THEN q[i] ELSE g[i - 1] \o q[i]]
    <3>1. FlattenSeq(q) = (CHOOSE g : rec(g))[n]
      BY <2>1, <2>3 DEF FlattenSeq
    <3>2. rec([i \in 1 .. n |-> f[i]])
      <4>1. ASSUME NEW i \in 1 .. n
            PROVE  f[i] = IF i = 1 THEN q[i] ELSE [k \in 1 .. n |-> f[k]][i - 1] \o q[i]
        <5>1. CASE i = 1
          <6>1. f[1] = <<>> \o q[1] /\ q[1] \in Seq(S)
            <7>1. 1 - 1 = 0 /\ 1 \in 1 .. n
              BY <5>1
            <7> QED BY <1>3, <1>4, <7>1
          <6> QED BY <5>1, <6>1
        <5>2. CASE i # 1
          <6>1. i - 1 \in 1 .. n
            BY <5>2
          <6> QED BY <1>4, <5>2, <6>1
        <5> QED BY <5>1, <5>2
      <4> QED BY <4>1
    <3>3. PICK g : g = CHOOSE h : rec(h)
      OBVIOUS
    <3>4. rec(g)
      <4> HIDE DEF rec
      <4> QED BY <3>2, <3>3
    <3>5. \A i \in 1 .. n : g[i] = IF i = 1 THEN q[i] ELSE g[i - 1] \o q[i]
      BY <3>4
    <3> HIDE DEF rec
    <3> DEFINE V == {k \in 0 .. n : k = 0 \/ g[k] = f[k]}
    <3>6. 0 \in V
      OBVIOUS
    <3>7. ASSUME NEW k \in 1 .. n, k - 1 \in V PROVE k \in V
      <4>1. CASE k = 1
        <5>1. f[1] = <<>> \o q[1] /\ q[1] \in Seq(S)
          <6>1. 1 - 1 = 0 /\ 1 \in 1 .. n
            BY <4>1
          <6> QED BY <1>3, <1>4, <6>1
        <5> QED BY <3>5, <4>1, <5>1
      <4>2. CASE k # 1
        <5>1. g[k - 1] = f[k - 1]
          BY <3>7, <4>2
        <5>2. g[k] = g[k - 1] \o q[k]
          BY <3>5, <4>2
        <5>3. g[k] = f[k]
          BY <1>4, <5>1, <5>2
        <5> QED BY <5>3
      <4> QED BY <4>1, <4>2
    <3>8. \A k \in 0 .. n : k \in V
      <4> HIDE DEF V
      <4> QED BY <3>6, <3>7, Upto
    <3>9. g[n] = f[n]
      BY <2>3, <3>8
    <3> QED BY <3>1, <3>3, <3>9
  <2> QED BY <2>2, <2>3
<1>11. f[n] \in Seq(S)
  BY <1>3
<1>12. IsFlat(f[n], q, n, e)
  BY <1>5, <1>9 DEF IsFlat
<1> QED BY <1>10, <1>11, <1>12

(***************************************************************************)
(* The dictionary is read as it was written.                               *)
(***************************************************************************)
\* f is computed from what comes after, but for those that stop.
AreOnward(f, n, S, stop, base, to, step) ==
  f \in [0 .. n -> S] /\ \A d \in 0 .. n : f[d] = IF d \in stop THEN base[d] ELSE step[d][f[to[d]]]

LEMMA Onwards ==
  ASSUME NEW n \in Nat, NEW S, NEW stop, NEW base \in [0 .. n -> S], NEW to,
         NEW step \in [0 .. n -> [S -> S]], \A d \in 0 .. n : d \notin stop => to[d] \in d + 1 .. n
  PROVE  \E f : AreOnward(f, n, S, stop, base, to, step)
<1> DEFINE here(f, d) == IF d \in stop THEN base[d] ELSE step[d][f[to[d]]]
           good(f, m) == f \in [n - m .. n -> S] /\ \A d \in n - m .. n : f[d] = here(f, d)
           T == {m \in 0 .. n : \E f : good(f, m)}
<1>1. n \in stop
  BY SMT
<1>2. 0 \in T
  <2>1. \A d \in n .. n : d = n
    OBVIOUS
  <2>2. base[n] \in S
    OBVIOUS
  <2>3. good([d \in n .. n |-> base[n]], 0)
    BY <1>1, <2>1, <2>2
  <2> HIDE DEF good
  <2> QED BY <2>3
<1>3. ASSUME NEW m \in 1 .. n, m - 1 \in T PROVE m \in T
  <2>1. PICK f : good(f, m - 1)
    BY <1>3
  <2>2. PICK a \in 0 .. n : a = n - m
    OBVIOUS
  <2>3. n - (m - 1) = a + 1 /\ \A d \in a .. n : d = a \/ d \in a + 1 .. n
    BY <2>2
  <2>4. f \in [a + 1 .. n -> S] /\ \A d \in a + 1 .. n : f[d] = here(f, d)
    <3> HIDE DEF here
    <3> QED BY <2>1, <2>3
  <2>5. PICK v \in S : v = here(f, a)
    <3>1. CASE a \in stop
      BY <3>1
    <3>2. CASE a \notin stop
      <4>1. to[a] \in a + 1 .. n
        BY <3>2
      <4>2. f[to[a]] \in S
        BY <2>4, <4>1
      <4> QED BY <3>2, <4>2
    <3> QED BY <3>1, <3>2
  <2> DEFINE g == [d \in a .. n |-> IF d = a THEN v ELSE f[d]]
  <2>6. g \in [a .. n -> S]
    BY <2>3, <2>4
  <2>7. g[a] = v /\ \A d \in a + 1 .. n : g[d] = f[d] /\ d # a
    BY <2>2
  <2>8. \A d \in a .. n : d \notin stop => to[d] \in a + 1 .. n
    BY <2>2
  <2> HIDE DEF g
  <2>9. \A d \in a .. n : here(g, d) = here(f, d)
    BY <2>7, <2>8
  <2>10. \A d \in a .. n : g[d] = here(g, d)
    <3> HIDE DEF here
    <3> QED BY <2>3, <2>4, <2>5, <2>7, <2>9
  <2>11. good(g, m)
    <3> HIDE DEF here
    <3> QED BY <2>2, <2>6, <2>10
  <2> HIDE DEF good
  <2> QED BY <2>11
<1>4. n \in T
  <2> HIDE DEF T
  <2>1. \A k \in 0 .. n : k \in T
    BY <1>2, <1>3, Upto
  <2> QED BY <2>1
<1>5. PICK f : good(f, n)
  <2> HIDE DEF good
  <2> QED BY <1>4
<1>6. n - n = 0
  OBVIOUS
<1>7. f \in [0 .. n -> S] /\ \A d \in 0 .. n : f[d] = here(f, d)
  <2> HIDE DEF here
  <2> QED BY <1>5, <1>6
<1>8. AreOnward(f, n, S, stop, base, to, step)
  BY <1>7 DEF AreOnward
<1> QED BY <1>8

\* uvarint takes some of the bytes it is given.
LEMMA UvarintTakes ==
  ASSUME NEW b \in Seq(Nat), Uvarint(b).ok
  PROVE  Uvarint(b).used \in 1 .. Len(b)
<1> DEFINE ends == {k \in DOMAIN b : b[k] < Flag}
<1>1. ends # {} /\ Uvarint(b).used = Min(ends)
  BY DEF Uvarint, Decode, Failed
<1>2. ends \in SUBSET Nat /\ ends \subseteq 1 .. Len(b)
  OBVIOUS
<1> HIDE DEF ends
<1>3. \E x \in ends : \A y \in ends : x <= y
  BY <1>1, <1>2, LeastIs
<1>4. Min(ends) \in ends
  BY <1>3 DEF Min
<1> QED BY <1>1, <1>2, <1>4

\* What is left of bytes.
LEMMA BytesFrom ==
  ASSUME NEW b \in Seq(Nat), NEW off \in 0 .. Len(b)
  PROVE  /\ SubSeq(b, off + 1, Len(b)) \in Seq(Nat)
         /\ Len(SubSeq(b, off + 1, Len(b))) = Len(b) - off
         /\ DOMAIN SubSeq(b, off + 1, Len(b)) = 1 .. Len(b) - off
         /\ \A j \in 1 .. Len(b) - off : SubSeq(b, off + 1, Len(b))[j] = b[off + j]
<1>1. PICK n \in Nat : n = Len(b)
  OBVIOUS
<1>2. off \in Nat /\ off <= n /\ n <= n
  BY <1>1
<1>3. PICK part : part = SubSeq(b, off + 1, n)
  OBVIOUS
<1>4. /\ part \in Seq(Nat) /\ Len(part) = n - off /\ DOMAIN part = 1 .. n - off
      /\ \A j \in 1 .. n - off : part[j] = b[off + j]
  BY <1>1, <1>2, <1>3, PartIs
<1> QED BY <1>1, <1>3, <1>4

\* A varint of value v is read from b, at.
IsVarint(b, off, v, l) ==
  Uvarint(SubSeq(b, off + 1, Len(b))) = [ok |-> TRUE, value |-> v, used |-> l]

LEMMA UvarintAt ==
  ASSUME NEW b \in Seq(Nat), NEW off \in Nat, NEW v \in 0 .. Pow2[ValueBits] - 1,
         NEW p, p = PutUvarint[v], off + Len(p) <= Len(b), \A j \in 1 .. Len(p) : b[off + j] = p[j]
  PROVE  /\ p \in Seq(Nat) /\ Len(p) \in Nat \ {0}
         /\ IsVarint(b, off, v, Len(p))
<1>1. p \in Seq(Nat)
  BY PutFits DEF IsPut
<1>2. PICK l \in Nat : l = Len(p)
  BY <1>1
<1>3. PICK n \in Nat : n = Len(b)
  OBVIOUS
<1>4. off \in 0 .. n /\ l <= n - off /\ n - off \in Nat
  BY <1>2, <1>3
<1>5. PICK c : c = SubSeq(b, off + 1, n)
  OBVIOUS
<1>6. DOMAIN c = 1 .. n - off /\ \A j \in 1 .. n - off : c[j] = b[off + j]
  <2>1. off <= n /\ n <= n
    BY <1>4
  <2> QED BY <1>3, <1>5, <2>1, PartIs
<1>7. ASSUME NEW j \in 1 .. l PROVE c[j] = p[j]
  <2>1. j \in 1 .. n - off
    BY <1>4
  <2>2. b[off + j] = p[j]
    BY <1>2
  <2> QED BY <1>6, <2>1, <2>2
<1>8. Len(p) \in Nat \ {0} /\ DecodesAs(c, v, Len(p))
  <2>1. PICK m \in Nat : m = n - off
    BY <1>4
  <2>2. Begins(c, p, m)
    BY <1>2, <1>4, <1>6, <1>7, <2>1 DEF Begins
  <2>3. p = PutUvarint[v]
    OBVIOUS
  <2> QED BY <2>2, <2>3, DecodeIs
<1> QED BY <1>1, <1>3, <1>5, <1>8 DEF DecodesAs, Uvarint, IsVarint

\* One turn of the loop over the dictionary's bytes b.
DepthRead(b, dp) == Uvarint(SubSeq(b, dp + 1, Len(b)))

SymbolRead(b, dp) == Uvarint(SubSeq(b, dp + DepthRead(b, dp).used + 1, Len(b)))

Refuses(b, dp) ==
  ~DepthRead(b, dp).ok \/ DepthRead(b, dp).value > MaxDepth \/ ~SymbolRead(b, dp).ok

EntryRead(b, dp) == [symbol |-> SymbolRead(b, dp).value, depth |-> DepthRead(b, dp).value]

NextRead(b, dp) == dp + DepthRead(b, dp).used + SymbolRead(b, dp).used

Turn(f, b, dp) ==
  IF dp = Len(b) THEN [ok |-> TRUE, entries |-> <<>>]
  ELSE IF Refuses(b, dp) THEN [ok |-> FALSE, entries |-> <<>>]
  ELSE [f[NextRead(b, dp)] EXCEPT !.entries = <<EntryRead(b, dp)>> \o @]

IsReading(f, b) == \A dp \in 0 .. Len(b) : f[dp] = Turn(f, b, dp)

LEMMA NextIs ==
  ASSUME NEW b \in Seq(Nat), NEW dp \in 0 .. Len(b), dp # Len(b), ~ Refuses(b, dp)
  PROVE  NextRead(b, dp) \in dp + 1 .. Len(b)
<1>1. PICK n \in Nat : n = Len(b)
  OBVIOUS
<1>2. PICK c : c = SubSeq(b, dp + 1, n)
  OBVIOUS
<1>3. c \in Seq(Nat) /\ Len(c) = n - dp
  BY <1>1, <1>2, BytesFrom
<1>4. PICK u : u = Uvarint(c).used
  OBVIOUS
<1>5. DepthRead(b, dp) = Uvarint(c)
  BY <1>1, <1>2 DEF DepthRead
<1>6. u \in 1 .. n - dp
  <2>1. Uvarint(c).ok
    BY <1>5 DEF Refuses
  <2> QED BY <1>3, <1>4, <2>1, UvarintTakes
<1>7. PICK m : m = dp + u
  OBVIOUS
<1>8. m \in 0 .. n
  BY <1>1, <1>6, <1>7
<1>9. PICK d : d = SubSeq(b, m + 1, n)
  OBVIOUS
<1>10. d \in Seq(Nat) /\ Len(d) = n - m
  BY <1>1, <1>8, <1>9, BytesFrom
<1>11. SymbolRead(b, dp) = Uvarint(d)
  BY <1>1, <1>4, <1>5, <1>7, <1>9 DEF SymbolRead
<1>12. Uvarint(d).used \in 1 .. n - m
  <2>1. Uvarint(d).ok
    BY <1>11 DEF Refuses
  <2> QED BY <1>10, <2>1, UvarintTakes
<1>13. NextRead(b, dp) = dp + u + Uvarint(d).used
  BY <1>4, <1>5, <1>11 DEF NextRead
<1>14. PICK w : w = Uvarint(d).used
  OBVIOUS
<1>15. PICK q \in Nat, x \in Nat, y \in Nat : q = dp /\ x = u /\ y = w
  <2>1. dp \in Nat /\ u \in Nat
    BY <1>1, <1>6
  <2>2. w \in Nat
    BY <1>8, <1>12, <1>14
  <2> QED BY <2>1, <2>2
<1>16. q + x + y <= n /\ x >= 1
  <2>1. m = q + x /\ x >= 1
    BY <1>6, <1>7, <1>15
  <2>2. y <= n - m
    BY <1>12, <1>14, <1>15
  <2> QED BY <2>1, <2>2
<1>17. q + x + y \in q + 1 .. n
  BY <1>16
<1> QED BY <1>1, <1>13, <1>14, <1>15, <1>17

LEMMA SomeReading ==
  ASSUME NEW b \in Seq(Nat)
  PROVE  \E f : DOMAIN f = 0 .. Len(b) /\ IsReading(f, b) /\ f = [dp \in 0 .. Len(b) |-> f[dp]]
<1>1. PICK n \in Nat : n = Len(b)
  OBVIOUS
<1> DEFINE E == {EntryRead(b, dp) : dp \in 0 .. n}
           S == [ok : BOOLEAN, entries : Seq(E)]
           stop == {dp \in 0 .. n : dp = n \/ Refuses(b, dp)}
           base == [dp \in 0 .. n |-> [ok |-> dp = n, entries |-> <<>>]]
           to == [dp \in 0 .. n |-> NextRead(b, dp)]
           step == [dp \in 0 .. n |-> [x \in S |-> [x EXCEPT !.entries = <<EntryRead(b, dp)>> \o @]]]
<1>2. base \in [0 .. n -> S]
  <2>1. <<>> \in Seq(E)
    OBVIOUS
  <2> HIDE DEF E
  <2> QED BY <2>1
<1>3. ASSUME NEW dp \in 0 .. n, dp \notin stop PROVE to[dp] \in dp + 1 .. n
  BY <1>1, <1>3, NextIs
<1>4. ASSUME NEW dp \in 0 .. n, NEW x \in S
      PROVE  [x EXCEPT !.entries = <<EntryRead(b, dp)>> \o @] \in S
  <2>1. PICK y : y = EntryRead(b, dp)
    OBVIOUS
  <2>2. y \in E
    BY <2>1
  <2> HIDE DEF E
  <2>3. x.entries \in Seq(E) /\ x.ok \in BOOLEAN
    OBVIOUS
  <2>4. <<y>> \in Seq(E)
    BY <2>2
  <2>5. <<y>> \o x.entries \in Seq(E)
    BY <2>3, <2>4
  <2>6. [x EXCEPT !.entries = <<y>> \o x.entries] \in S
    BY <2>5
  <2> QED BY <2>1, <2>6
<1>5. step \in [0 .. n -> [S -> S]]
  <2> HIDE DEF S
  <2> QED BY <1>4
<1>6. PICK f : AreOnward(f, n, S, stop, base, to, step)
  <2>1. \A dp \in 0 .. n : dp \notin stop => to[dp] \in dp + 1 .. n
    BY <1>3
  <2> HIDE DEF S, stop, base, to, step
  <2> QED BY <1>2, <1>5, <2>1, Onwards
<1>7. /\ f \in [0 .. n -> S]
      /\ \A dp \in 0 .. n : f[dp] = IF dp \in stop THEN base[dp] ELSE step[dp][f[to[dp]]]
  <2> HIDE DEF S, stop, base, to, step
  <2> QED BY <1>6 DEF AreOnward
<1>8. ASSUME NEW dp \in 0 .. n PROVE f[dp] = Turn(f, b, dp)
  <2>1. f[dp] = IF dp \in stop THEN base[dp] ELSE step[dp][f[to[dp]]]
    <3> HIDE DEF S, stop, base, to, step
    <3> QED BY <1>7
  <2>2. CASE dp = n
    <3>1. dp \in stop /\ base[dp] = [ok |-> TRUE, entries |-> <<>>]
      BY <2>2
    <3> HIDE DEF S, stop, base, to, step
    <3> QED BY <1>1, <2>1, <2>2, <3>1 DEF Turn
  <2>3. CASE dp # n /\ Refuses(b, dp)
    <3>1. dp \in stop /\ base[dp] = [ok |-> FALSE, entries |-> <<>>]
      BY <2>3
    <3> HIDE DEF S, stop, base, to, step
    <3> QED BY <1>1, <2>1, <2>3, <3>1 DEF Turn
  <2>4. CASE dp # n /\ ~ Refuses(b, dp)
    <3>1. dp \notin stop /\ to[dp] = NextRead(b, dp)
      BY <2>4
    <3>2. to[dp] \in 0 .. n
      BY <1>3, <3>1
    <3>3. PICK x \in S : x = f[to[dp]]
      <4> HIDE DEF S, stop, base, to, step
      <4> QED BY <1>7, <3>2
    <3>4. step[dp][x] = [x EXCEPT !.entries = <<EntryRead(b, dp)>> \o @]
      <4> HIDE DEF S
      <4> QED OBVIOUS
    <3> HIDE DEF S, stop, base, to, step
    <3> QED BY <1>1, <2>1, <2>4, <3>1, <3>3, <3>4 DEF Turn
  <2> QED BY <2>2, <2>3, <2>4
<1>9. DOMAIN f = 0 .. n /\ f = [dp \in 0 .. n |-> f[dp]]
  <2> HIDE DEF S, stop, base, to, step
  <2> QED BY <1>7
<1> HIDE DEF S, stop, base, to, step
<1> QED BY <1>1, <1>8, <1>9 DEF IsReading

LEMMA EntriesAre ==
  ASSUME dictBytes \in Seq(Nat)
  PROVE  \E f : IsReading(f, dictBytes) /\ Entries = f[0]
<1>1. PICK b \in Seq(Nat) : b = dictBytes
  OBVIOUS
<1>2. PICK n \in Nat : n = Len(b)
  OBVIOUS
<1> DEFINE rec(f) == f = [dp \in 0 .. n |-> Turn(f, b, dp)]
<1>3. \E f : rec(f)
  <2>1. PICK f : DOMAIN f = 0 .. n /\ IsReading(f, b) /\ f = [dp \in 0 .. n |-> f[dp]]
    BY <1>2, SomeReading
  <2>2. \A dp \in 0 .. n : f[dp] = Turn(f, b, dp)
    BY <1>2, <2>1 DEF IsReading
  <2>3. rec(f)
    BY <2>1, <2>2
  <2> QED BY <2>3
<1>4. Entries = (CHOOSE f : rec(f))[0]
  BY <1>1, <1>2 DEF Entries, Turn, Refuses, EntryRead, NextRead, SymbolRead, DepthRead
<1>5. PICK f : f = CHOOSE g : rec(g)
  OBVIOUS
<1>6. rec(f)
  <2> HIDE DEF rec
  <2> QED BY <1>3, <1>5
<1>7. IsReading(f, b)
  BY <1>2, <1>6 DEF IsReading
<1> QED BY <1>1, <1>4, <1>5, <1>7

LEMMA SeqSame ==
  ASSUME NEW S, NEW a \in Seq(S), NEW n \in Nat, Len(a) = n, NEW c, c = [k \in 1 .. n |-> c[k]],
         \A k \in 1 .. n : a[k] = c[k]
  PROVE  a = c
<1>1. a = [k \in 1 .. n |-> a[k]]
  OBVIOUS
<1> QED BY <1>1

LEMMA OneMore ==
  ASSUME NEW S, NEW x \in S, NEW n \in Nat, NEW a, a \in [1 .. n -> S],
         NEW c \in [1 .. n + 1 -> S], c[1] = x, \A k \in 1 .. n : c[k + 1] = a[k]
  PROVE  <<x>> \o a = c
<1>1. a \in Seq(S) /\ Len(a) = n /\ <<x>> \in Seq(S) /\ Len(<<x>>) = 1 /\ <<x>>[1] = x
  OBVIOUS
<1>2. PICK b : b = <<x>> \o a
  OBVIOUS
<1>3. /\ b \in Seq(S) /\ Len(b) = 1 + n
      /\ \A i \in 1 .. 1 : b[i] = <<x>>[i]
      /\ \A i \in 1 .. n : b[1 + i] = a[i]
  BY <1>1, <1>2, Concatenated
<1>4. ASSUME NEW k \in 1 .. n + 1 PROVE b[k] = c[k]
  <2>1. CASE k = 1
    BY <1>1, <1>3, <2>1
  <2>2. CASE k # 1
    <3>1. PICK i \in 1 .. n : k = i + 1
      <4>1. k - 1 \in 1 .. n /\ k = (k - 1) + 1
        BY <2>2
      <4> QED BY <4>1
    <3>2. i + 1 = 1 + i
      OBVIOUS
    <3> QED BY <1>3, <3>1, <3>2
  <2> QED BY <2>1, <2>2
<1>5. b = c
  <2>1. c = [k \in 1 .. n + 1 |-> c[k]] /\ n + 1 \in Nat /\ Len(b) = n + 1
    BY <1>3
  <2> QED BY <1>3, <1>4, <2>1, SeqSame
<1> QED BY <1>2, <1>5

\* x is read from entry m + 1 on.
ReadsFrom(x, m, n, dep, sym) ==
  \/ /\ \A j \in m + 1 .. n : dep[j] <= MaxDepth
     /\ x = [ok |-> TRUE,
             entries |-> [j \in 1 .. n - m |-> [symbol |-> sym[m + j], depth |-> dep[m + j]]]]
  \/ /\ \E j \in m + 1 .. n : dep[j] > MaxDepth
     /\ x = [ok |-> FALSE, entries |-> x.entries]

\* What a turn at the start of an entry makes of the rest x.
Onto(x, d, s) ==
  IF d > MaxDepth THEN [ok |-> FALSE, entries |-> <<>>]
  ELSE [x EXCEPT !.entries = <<[symbol |-> s, depth |-> d]>> \o @]

TurnsTo(b, off, c, d, s) == \A f : Turn(f, b, off) = Onto(f[off + Len(c)], d, s)

\* A turn at the start of an entry.
LEMMA TurnIs ==
  ASSUME NEW b \in Seq(Nat), NEW off \in Nat, NEW d \in Values, NEW s \in Values,
         NEW c, c = PutUvarint[d] \o PutUvarint[s], off + Len(c) <= Len(b),
         \A j \in 1 .. Len(c) : b[off + j] = c[j]
  PROVE  /\ c \in Seq(Nat) /\ off # Len(b) /\ off \in 0 .. Len(b)
         /\ TurnsTo(b, off, c, d, s)
<1>1. PICK p : p = PutUvarint[d]
  OBVIOUS
<1>2. PICK r : r = PutUvarint[s]
  OBVIOUS
<1>3. d \in 0 .. Pow2[ValueBits] - 1 /\ s \in 0 .. Pow2[ValueBits] - 1
  BY DEF Values
<1>4. p \in Seq(Nat)
  BY <1>1, <1>3, PutFits DEF IsPut
<1>5. r \in Seq(Nat)
  BY <1>2, <1>3, PutFits DEF IsPut
<1>6. PICK l \in Nat : l = Len(p)
  BY <1>4
<1>7. PICK m \in Nat : m = Len(r)
  BY <1>5
<1>8. /\ c \in Seq(Nat) /\ Len(c) = l + m
      /\ \A i \in 1 .. l : c[i] = p[i]
      /\ \A i \in 1 .. m : c[l + i] = r[i]
  <2>1. PICK z : z = p \o r
    OBVIOUS
  <2>2. /\ z \in Seq(Nat) /\ Len(z) = l + m
        /\ \A i \in 1 .. l : z[i] = p[i]
        /\ \A i \in 1 .. m : z[l + i] = r[i]
    BY <1>4, <1>5, <1>6, <1>7, <2>1, Concatenated
  <2>3. c = z
    BY <1>1, <1>2, <2>1
  <2> QED BY <2>2, <2>3
<1>9. PICK n \in Nat : n = Len(b)
  OBVIOUS
<1>10. off + (l + m) <= n /\ off + l <= n /\ (off + l) + m <= n
  BY <1>8, <1>9
<1>11. ASSUME NEW i \in 1 .. l PROVE b[off + i] = p[i]
  <2>1. i \in 1 .. Len(c)
    BY <1>8
  <2> QED BY <1>8, <2>1
<1>12. Len(p) \in Nat \ {0} /\ DepthRead(b, off) = [ok |-> TRUE, value |-> d, used |-> l]
  <2>1. off + Len(p) <= Len(b)
    BY <1>6, <1>9, <1>10
  <2>2. \A j \in 1 .. Len(p) : b[off + j] = p[j]
    BY <1>6, <1>11
  <2>3. PICK v \in 0 .. Pow2[ValueBits] - 1 : v = d
    BY <1>3
  <2>4. p = PutUvarint[v]
    BY <1>1, <2>3
  <2>5. Len(p) \in Nat \ {0}
    BY <2>1, <2>2, <2>4, UvarintAt
  <2>6. IsVarint(b, off, v, Len(p))
    BY <2>1, <2>2, <2>4, UvarintAt
  <2> QED BY <1>6, <2>3, <2>5, <2>6 DEF DepthRead, IsVarint
<1>13. PICK k \in Nat : k = off + l
  OBVIOUS
<1>14. ASSUME NEW i \in 1 .. m PROVE b[k + i] = r[i]
  <2>1. l + i \in 1 .. Len(c) /\ off + (l + i) = k + i
    BY <1>8, <1>13
  <2>2. b[off + (l + i)] = c[l + i]
    BY <2>1
  <2> QED BY <1>8, <2>1, <2>2
<1>15. Uvarint(SubSeq(b, k + 1, Len(b))) = [ok |-> TRUE, value |-> s, used |-> m]
  <2>1. k + Len(r) <= Len(b)
    BY <1>7, <1>9, <1>10, <1>13
  <2>2. \A j \in 1 .. Len(r) : b[k + j] = r[j]
    BY <1>7, <1>14
  <2>3. PICK v \in 0 .. Pow2[ValueBits] - 1 : v = s
    BY <1>3
  <2>4. r = PutUvarint[v]
    BY <1>2, <2>3
  <2>5. IsVarint(b, k, v, Len(r))
    BY <2>1, <2>2, <2>4, UvarintAt
  <2> QED BY <1>7, <2>3, <2>5 DEF IsVarint
<1>16. SymbolRead(b, off) = [ok |-> TRUE, value |-> s, used |-> m]
  BY <1>12, <1>13, <1>15 DEF SymbolRead
<1>17. off # Len(b) /\ off \in 0 .. Len(b)
  BY <1>6, <1>9, <1>10, <1>12
<1>18. NextRead(b, off) = off + Len(c)
  <2>1. NextRead(b, off) = off + l + m
    BY <1>12, <1>16 DEF NextRead
  <2> QED BY <1>8, <2>1
<1>19. EntryRead(b, off) = [symbol |-> s, depth |-> d]
  BY <1>12, <1>16 DEF EntryRead
<1>20. Refuses(b, off) <=> d > MaxDepth
  BY <1>12, <1>16 DEF Refuses
<1> QED BY <1>8, <1>17, <1>18, <1>19, <1>20 DEF Turn, Onto, TurnsTo

LEMMA ReadBack ==
  ASSUME NEW n \in Nat, NEW dep \in [1 .. n -> Values], NEW sym \in [1 .. n -> Values],
         dictBytes = FlattenSeq([k \in 1 .. n |-> PutUvarint[dep[k]] \o PutUvarint[sym[k]]])
  PROVE  ReadsFrom(Entries, 0, n, dep, sym)
<1> DEFINE q == [k \in 1 .. n |-> PutUvarint[dep[k]] \o PutUvarint[sym[k]]]
<1>1. \A v \in Values : PutUvarint[v] \in Seq(Nat)
  BY PutFits DEF IsPut, Values
<1>2. q \in [1 .. n -> Seq(Nat)]
  BY <1>1
<1>3. PICK b : b = dictBytes
  OBVIOUS
<1>4. PICK e : b \in Seq(Nat) /\ IsFlat(b, q, n, e)
  <2>1. b = FlattenSeq(q)
    BY <1>3
  <2> HIDE DEF q
  <2> QED BY <1>2, <2>1, FlattenIs
<1>5. \A k \in 1 .. n : q[k] = PutUvarint[dep[k]] \o PutUvarint[sym[k]]
  OBVIOUS
<1> HIDE DEF q
<1>6. PICK f : IsReading(f, b) /\ Entries = f[0]
  BY <1>3, <1>4, EntriesAre
<1>7. /\ e \in [0 .. n -> Nat] /\ e[0] = 0 /\ \A k \in 1 .. n : e[k] = e[k - 1] + Len(q[k])
      /\ Len(b) = e[n] /\ \A k \in 1 .. n : \A j \in 1 .. Len(q[k]) : b[e[k - 1] + j] = q[k][j]
  BY <1>4 DEF IsFlat, FlatTo, AreEnds
<1>8. \A k \in 0 .. n : e[k] <= e[n]
  <2>1. \A k \in 1 .. n : Len(q[k]) \in Nat
    BY <1>2
  <2>2. \A i, k \in 0 .. n : i <= k => e[i] <= e[k]
    BY <1>4, <2>1, EndsGrow DEF IsFlat
  <2> QED BY <2>2
<1> DEFINE T == {j \in 0 .. n : ReadsFrom(f[e[n - j]], n - j, n, dep, sym)}
<1>9. 0 \in T
  <2>1. f[e[n]] = [ok |-> TRUE, entries |-> <<>>]
    <3>1. e[n] \in 0 .. Len(b)
      BY <1>7
    <3> QED BY <1>6, <1>7, <3>1 DEF IsReading, Turn
  <2>2. n - 0 = n /\ n - n = 0
    OBVIOUS
  <2>3. \A j \in n + 1 .. n : FALSE
    OBVIOUS
  <2>4. [j \in 1 .. 0 |-> [symbol |-> sym[n + j], depth |-> dep[n + j]]] = <<>>
    OBVIOUS
  <2>5. ReadsFrom(f[e[n]], n, n, dep, sym)
    BY <2>1, <2>2, <2>3, <2>4 DEF ReadsFrom
  <2> QED BY <2>2, <2>5
<1>10. ASSUME NEW j \in 1 .. n, j - 1 \in T PROVE j \in T
  <2>1. PICK m \in 0 .. n - 1 : m = n - j
    OBVIOUS
  <2>2. n - (j - 1) = m + 1 /\ m + 1 \in 1 .. n /\ m \in 0 .. n /\ (m + 1) - 1 = m
    BY <2>1
  <2>3. ReadsFrom(f[e[m + 1]], m + 1, n, dep, sym)
    BY <1>10, <2>2
  <2>4. PICK x : x = f[e[m + 1]]
    OBVIOUS
  <2>5. PICK c : c = q[m + 1]
    OBVIOUS
  <2>6. PICK d \in Values : d = dep[m + 1]
    BY <2>2
  <2>7. PICK s \in Values : s = sym[m + 1]
    BY <2>2
  <2>8. PICK off \in Nat : off = e[m]
    BY <1>7, <2>2
  <2>9. c = PutUvarint[d] \o PutUvarint[s]
    BY <1>5, <2>2, <2>5, <2>6, <2>7
  <2>10. off + Len(c) = e[m + 1] /\ \A i \in 1 .. Len(c) : b[off + i] = c[i]
    BY <1>7, <2>2, <2>5, <2>8
  <2>11. off + Len(c) <= Len(b)
    BY <1>7, <1>8, <2>2, <2>10
  <2>12. /\ off \in 0 .. Len(b)
         /\ Turn(f, b, off) = Onto(f[off + Len(c)], d, s)
    <3>1. b \in Seq(Nat)
      BY <1>4
    <3>2. \A p \in 1 .. Len(c) : b[off + p] = c[p]
      BY <2>10
    <3> HIDE DEF T
    <3>3. off \in 0 .. Len(b)
      BY <2>9, <2>11, <3>1, <3>2, TurnIs
    <3>4. TurnsTo(b, off, c, d, s)
      BY <2>9, <2>11, <3>1, <3>2, TurnIs
    <3> QED BY <3>3, <3>4 DEF TurnsTo
  <2>13. f[off] = Onto(x, d, s)
    BY <1>6, <2>4, <2>10, <2>12 DEF IsReading
  <2>14. d \in Nat /\ MaxDepth \in Nat /\ \A i \in 1 .. n : dep[i] \in Nat
    <3>1. ValueBits \in Nat
      BY VarintAssumption
    <3>2. Pow2[ValueBits] \in Nat
      BY <3>1, Pow2Is
    <3> QED BY <3>2, BitsAssumption DEF Values
  <2>15. \A i : i \in m + 1 .. n <=> (i = m + 1 \/ i \in (m + 1) + 1 .. n)
    BY <2>1
  <2>16. CASE d > MaxDepth
    <3>1. f[off] = [ok |-> FALSE, entries |-> <<>>]
      BY <2>13, <2>16 DEF Onto
    <3>2. \E i \in m + 1 .. n : dep[i] > MaxDepth
      BY <2>6, <2>15, <2>16
    <3>3. ReadsFrom(f[off], m, n, dep, sym)
      BY <3>1, <3>2 DEF ReadsFrom
    <3> QED BY <2>1, <2>8, <3>3
  <2>17. CASE ~(d > MaxDepth)
    <3>1. f[off] = [x EXCEPT !.entries = <<[symbol |-> s, depth |-> d]>> \o x.entries]
      BY <2>13, <2>17 DEF Onto
    <3>2. d <= MaxDepth
      BY <2>14, <2>17
    <3>3. CASE \A i \in (m + 1) + 1 .. n : dep[i] <= MaxDepth
      <4> DEFINE list(k) == [i \in 1 .. n - k |-> [symbol |-> sym[k + i], depth |-> dep[k + i]]]
      <4>1. x = [ok |-> TRUE, entries |-> list(m + 1)]
        <5>1. ~ \E i \in (m + 1) + 1 .. n : dep[i] > MaxDepth
          BY <2>14, <3>3, <2>2
        <5> QED BY <2>3, <2>4, <5>1 DEF ReadsFrom
      <4>2. f[off] = [ok |-> TRUE,
                     entries |-> <<[symbol |-> s, depth |-> d]>> \o list(m + 1)]
        <5>1. PICK w : w = list(m + 1)
          OBVIOUS
        <5>2. PICK g : g = <<[symbol |-> s, depth |-> d]>> \o w
          OBVIOUS
        <5>3. x = [ok |-> TRUE, entries |-> w]
          BY <4>1, <5>1
        <5> HIDE DEF list
        <5>4. f[off] = [ok |-> TRUE, entries |-> g]
          BY <3>1, <5>2, <5>3
        <5> QED BY <5>1, <5>2, <5>4
      <4>3. <<[symbol |-> s, depth |-> d]>> \o list(m + 1) = list(m)
        <5> DEFINE S == [symbol : Values, depth : Values]
        <5>1. PICK y : y = [symbol |-> s, depth |-> d]
          OBVIOUS
        <5>2. PICK u \in Nat : u = n - (m + 1)
          BY <2>1
        <5>3. n - m = u + 1
          BY <2>1, <5>2
        <5>4. \A i \in 1 .. u + 1 : m + i \in 1 .. n
          BY <2>1, <5>2
        <5>5. PICK a : a = list(m + 1)
          OBVIOUS
        <5>6. PICK z : z = list(m)
          OBVIOUS
        <5>7. \A i \in 1 .. u : (m + 1) + i = m + (i + 1) /\ (m + 1) + i \in 1 .. n
          BY <2>1, <5>2
        <5>8. a \in [1 .. u -> S]
          BY <5>2, <5>5, <5>7
        <5>9. z \in [1 .. u + 1 -> S]
          BY <5>3, <5>4, <5>6
        <5>10. z[1] = y
          <6>1. 1 \in 1 .. u + 1
            OBVIOUS
          <6> QED BY <2>6, <2>7, <5>1, <5>3, <5>6, <6>1
        <5>11. \A i \in 1 .. u : z[i + 1] = a[i]
          <6>1. \A i \in 1 .. u : i + 1 \in 1 .. u + 1
            OBVIOUS
          <6> QED BY <5>2, <5>3, <5>5, <5>6, <5>7, <6>1
        <5>12. y \in S
          BY <5>1
        <5> HIDE DEF list, S
        <5>13. <<y>> \o a = z
          BY <5>8, <5>9, <5>10, <5>11, <5>12, OneMore
        <5> QED BY <5>1, <5>5, <5>6, <5>13
      <4>4. \A i \in m + 1 .. n : dep[i] <= MaxDepth
        BY <2>6, <2>15, <3>2, <3>3
      <4>5. ReadsFrom(f[off], m, n, dep, sym)
        BY <4>2, <4>3, <4>4 DEF ReadsFrom
      <4> QED BY <2>1, <2>8, <4>5
    <3>4. CASE ~ \A i \in (m + 1) + 1 .. n : dep[i] <= MaxDepth
      <4>1. x = [ok |-> FALSE, entries |-> x.entries]
        BY <2>3, <2>4, <3>4 DEF ReadsFrom
      <4>2. f[off] = [ok |-> FALSE, entries |-> f[off].entries]
        <5>1. PICK w : w = x.entries
          OBVIOUS
        <5>2. PICK g : g = <<[symbol |-> s, depth |-> d]>> \o w
          OBVIOUS
        <5>3. x = [ok |-> FALSE, entries |-> w]
          BY <4>1, <5>1
        <5>4. f[off] = [ok |-> FALSE, entries |-> g]
          BY <3>1, <5>2, <5>3
        <5> QED BY <5>4
      <4>3. \E i \in m + 1 .. n : dep[i] > MaxDepth
        <5>1. PICK i \in (m + 1) + 1 .. n : ~(dep[i] <= MaxDepth)
          BY <3>4
        <5>2. i \in 1 .. n
          BY <2>1
        <5>3. dep[i] > MaxDepth /\ i \in m + 1 .. n
          BY <2>14, <2>15, <5>1, <5>2
        <5> QED BY <5>3
      <4>4. ReadsFrom(f[off], m, n, dep, sym)
        BY <4>2, <4>3 DEF ReadsFrom
      <4> QED BY <2>1, <2>8, <4>4
    <3> QED BY <3>3, <3>4
  <2> QED BY <2>16, <2>17
<1>11. n \in T
  <2> HIDE DEF T
  <2>1. \A j \in 0 .. n : j \in T
    BY <1>9, <1>10, Upto
  <2> QED BY <2>1
<1>12. n - n = 0
  OBVIOUS
<1> QED BY <1>6, <1>7, <1>11, <1>12

(***************************************************************************)
(* The dictionary of a tree that is done.                                  *)
(***************************************************************************)
\* The tree is one, of n symbols, whose codes are shorter than n.
IsDone(n) ==
  /\ n \in Nat /\ n = Len(uses) /\ n >= 1 /\ n <= MaxSymbols /\ Symbol = 1 .. n
  /\ codeOf \in [1 .. n -> Seq(Bit)] /\ IsTree(codeOf, 1 .. n)
  /\ \A s \in 1 .. n : Len(codeOf[s]) \in 0 .. n - 1
  /\ n = 1 \/ \E t : heap = {t} /\ t.leaves = 1 .. n /\ t.uses = Total(uses)

LEMMA TreeDone ==
  ASSUME TreeInv, Roots = 1
  PROVE  \E n : IsDone(n)
<1>1. UsesOK /\ Pool(heap, nextSym, {}, Made) /\ Codes(heap, nextSym, codeOf)
  BY DEF TreeInv
<1>2. PICK n \in Nat : /\ n = Len(uses) /\ n >= 1 /\ n <= MaxSymbols
                       /\ Symbol = 1 .. n /\ uses \in [1 .. n -> Nat]
  BY <1>1, UsesAre
<1>3. PICK c \in Nat : c = Cardinality(heap)
  BY <1>1, Counts
<1>4. nextSym \in 1 .. n + 1
  BY <1>1, <1>2 DEF Pool
<1>5. nextSym = n + c /\ Made = nextSym - 1 - c /\ Made = n - 1
  <2>1. Made = nextSym - 1 - c
    BY <1>3 DEF Made
  <2>2. c + n + 1 - nextSym = 1
    BY <1>2, <1>3 DEF Roots
  <2> QED BY <1>2, <1>4, <2>1, <2>2
<1>6. codeOf \in [1 .. n -> Seq(Bit)] /\ \A s \in 1 .. n : s >= nextSym => codeOf[s] = <<>>
  BY <1>1, <1>2 DEF Codes
<1>7. c = 0 \/ c = 1
  BY <1>4, <1>5
<1>8. CASE c = 0
  <2>1. heap = {}
    BY <1>1, <1>3, <1>8, Counts
  <2>2. 1 .. nextSym - 1 = {}
    BY <1>1, <2>1 DEF Pool
  <2>3. n = 1
    <3>1. nextSym = n /\ (n # 1 => 1 \in 1 .. n - 1)
      BY <1>2, <1>5, <1>8
    <3> QED BY <2>2, <3>1
  <2>4. \A s \in 1 .. n : s = 1
    BY <2>3
  <2>5. codeOf[1] = <<>>
    BY <1>5, <1>6, <1>8, <2>3
  <2>6. \A s \in 1 .. n : codeOf[s] = <<>> /\ Len(codeOf[s]) = 0 /\ DOMAIN codeOf[s] = {}
    <3>1. Len(<<>>) = 0 /\ DOMAIN <<>> = {}
      OBVIOUS
    <3> QED BY <2>4, <2>5, <3>1
  <2>7. IsTree(codeOf, 1 .. n)
    BY <2>4, <2>6 DEF IsTree
  <2>8. \A s \in 1 .. n : Len(codeOf[s]) \in 0 .. n - 1
    <3>1. 0 \in 0 .. n - 1
      BY <2>3
    <3> QED BY <2>6, <3>1
  <2> QED BY <1>2, <1>6, <2>3, <2>7, <2>8 DEF IsDone
<1>9. CASE c = 1
  <2>1. IsFiniteSet(heap)
    BY <1>1 DEF Pool
  <2>2. PICK t : heap = {t}
    <3>1. Cardinality(heap) = 1
      BY <1>3, <1>9
    <3> QED BY <2>1, <3>1, FS_Singleton
  <2>3. t \in heap /\ t \in Subtree
    BY <1>1, <2>2 DEF Pool
  <2>4. nextSym - 1 = n /\ nextSym = n + 1
    BY <1>5, <1>9
  <2>5. t.leaves = 1 .. n
    <3>1. t.leaves \subseteq 1 .. n
      BY <1>1, <2>3, <2>4 DEF Pool
    <3>2. \A s \in 1 .. n : \E o \in heap : s \in o.leaves
      BY <1>1, <2>4 DEF Pool
    <3> QED BY <2>2, <3>1, <3>2
  <2>6. IsTree(codeOf, 1 .. n) /\ t.uses = UsesIn(1 .. n)
        /\ \A s \in 1 .. n : Len(codeOf[s]) <= t.made + 1
    BY <1>1, <2>3, <2>5 DEF Codes
  <2>7. t.made \in Nat /\ t.made < n - 1
    BY <1>1, <1>5, <2>3 DEF Pool, Subtree
  <2>8. \A s \in 1 .. n : Len(codeOf[s]) \in 0 .. n - 1
    <3>1. \A s \in 1 .. n : Len(codeOf[s]) \in Nat
      BY <1>6
    <3> QED BY <2>6, <2>7, <3>1
  <2>9. t.uses = Total(uses)
    <3>1. [s \in 1 .. n |-> IF s \in 1 .. n THEN uses[s] ELSE 0] = uses
      BY <1>2
    <3> QED BY <1>2, <2>6, <3>1 DEF UsesIn
  <2> QED BY <1>2, <1>6, <2>2, <2>5, <2>6, <2>8, <2>9 DEF IsDone
<1> QED BY <1>7, <1>8, <1>9

\* The file has the depths and the symbols in the order of the codes,
DictWritten ==
  dictBytes = FlattenSeq([k \in Symbol |->
                PutUvarint[Len(codeOf[InOrder[k]])] \o PutUvarint[InOrder[k]]])

\* and so has the reader, if no code is too long.
DictRead ==
  /\ dict = [k \in Symbol |-> [symbol |-> InOrder[k], depth |-> Len(codeOf[InOrder[k]])]]
  /\ \A s \in Symbol : Len(codeOf[s]) <= MaxDepth

TooDeep == \E s \in Symbol : Len(codeOf[s]) > MaxDepth

DictInv ==
  /\ stage = "open" => DictWritten
  /\ stage \in {"tables", "encode", "read", "panic"} => DictRead
  /\ stage = "refused" => TooDeep

\* What the reader makes of the dictionary.
LEMMA DictEntries ==
  ASSUME NEW n, IsDone(n), DictWritten
  PROVE  \/ /\ \A s \in Symbol : Len(codeOf[s]) <= MaxDepth
            /\ Entries.ok = TRUE
            /\ Entries.entries =
                 [k \in Symbol |-> [symbol |-> InOrder[k], depth |-> Len(codeOf[InOrder[k]])]]
         \/ TooDeep /\ Entries.ok = FALSE
<1>1. n \in Nat /\ Symbol = 1 .. n /\ codeOf \in [1 .. n -> Seq(Bit)]
      /\ n >= 1 /\ n <= MaxSymbols /\ \A s \in 1 .. n : Len(codeOf[s]) \in 0 .. n - 1
  BY DEF IsDone
<1>2. AreOrdered(InOrder, n)
  BY <1>1, OrderIs DEF IsDone
<1>3. PICK sym : sym = InOrder
  OBVIOUS
<1>4. sym \in [1 .. n -> 1 .. n] /\ \A s \in 1 .. n : \E k \in 1 .. n : sym[k] = s
  BY <1>2, <1>3 DEF AreOrdered
<1>5. \A x \in 0 .. n : x \in Values
  <2>1. PICK m \in Nat : m = Pow2[ValueBits]
    <3>1. ValueBits \in Nat
      BY VarintAssumption
    <3> QED BY <3>1, Pow2Is
  <2>2. PICK l \in Nat : l = MaxSymbols
    BY SymbolsAssumption
  <2>3. l < m
    <3>1. MaxSymbols < Pow2[ValueBits]
      BY SymbolsAssumption
    <3> QED BY <2>1, <2>2, <3>1
  <2>4. n <= l
    BY <1>1, <2>2
  <2>5. \A x \in 0 .. n : x \in 0 .. m - 1
    BY <1>1, <2>3, <2>4
  <2> QED BY <2>1, <2>5 DEF Values
<1>6. PICK dep : dep = [k \in 1 .. n |-> Len(codeOf[sym[k]])]
  OBVIOUS
<1>7. \A k \in 1 .. n : dep[k] = Len(codeOf[sym[k]]) /\ dep[k] \in 0 .. n
  <2>1. \A s \in 1 .. n : Len(codeOf[s]) \in 0 .. n
    <3>1. \A x \in 0 .. n - 1 : x \in 0 .. n
      BY <1>1
    <3> QED BY <1>1, <3>1
  <2> QED BY <1>4, <1>6, <2>1
<1>8. dep \in [1 .. n -> Values]
  BY <1>5, <1>6, <1>7
<1>9. sym \in [1 .. n -> Values]
  BY <1>4, <1>5
<1>10. dictBytes = FlattenSeq([k \in 1 .. n |-> PutUvarint[dep[k]] \o PutUvarint[sym[k]]])
  <2>1. [k \in 1 .. n |-> PutUvarint[Len(codeOf[sym[k]])] \o PutUvarint[sym[k]]]
          = [k \in 1 .. n |-> PutUvarint[dep[k]] \o PutUvarint[sym[k]]]
    BY <1>7
  <2> QED BY <1>1, <1>3, <2>1 DEF DictWritten
<1>11. PICK x : x = Entries
  OBVIOUS
<1>12. ReadsFrom(x, 0, n, dep, sym)
  BY <1>1, <1>8, <1>9, <1>10, <1>11, ReadBack
<1>13. n - 0 = n /\ 0 + 1 = 1 /\ \A j \in 1 .. n : 0 + j = j
  BY <1>1
<1>14. CASE \A j \in 1 .. n : dep[j] <= MaxDepth
  <2>1. \A s \in 1 .. n : Len(codeOf[s]) <= MaxDepth
    <3> TAKE s \in 1 .. n
    <3>1. PICK k \in 1 .. n : sym[k] = s
      BY <1>4
    <3>2. dep[k] = Len(codeOf[s]) /\ dep[k] <= MaxDepth
      BY <1>7, <1>14, <3>1
    <3> QED BY <3>2
  <2>2. ~ \E j \in 0 + 1 .. n : dep[j] > MaxDepth
    <3>1. \A j \in 1 .. n : dep[j] \in Nat
      BY <1>7
    <3> QED BY <1>13, <1>14, <3>1, BitsAssumption
  <2>3. x = [ok |-> TRUE,
             entries |-> [j \in 1 .. n - 0 |-> [symbol |-> sym[0 + j], depth |-> dep[0 + j]]]]
    BY <1>12, <2>2 DEF ReadsFrom
  <2>4. x.entries = [j \in 1 .. n - 0 |-> [symbol |-> sym[0 + j], depth |-> dep[0 + j]]]
        /\ x.ok = TRUE
    BY <2>3
  <2>5. x.entries = [j \in 1 .. n |-> [symbol |-> sym[j], depth |-> Len(codeOf[sym[j]])]]
    BY <1>7, <1>13, <2>4
  <2> QED BY <1>1, <1>3, <1>11, <2>1, <2>4, <2>5
<1>15. CASE ~ \A j \in 1 .. n : dep[j] <= MaxDepth
  <2>1. PICK j \in 1 .. n : ~(dep[j] <= MaxDepth)
    BY <1>15
  <2>2. x.ok = FALSE
    <3>1. ~ \A i \in 0 + 1 .. n : dep[i] <= MaxDepth
      BY <1>13, <2>1
    <3>2. x = [ok |-> FALSE, entries |-> x.entries]
      BY <1>12, <3>1 DEF ReadsFrom
    <3>3. PICK w : w = x.entries
      OBVIOUS
    <3>4. x = [ok |-> FALSE, entries |-> w]
      BY <3>2, <3>3
    <3> QED BY <3>4
  <2>3. dep[j] > MaxDepth
    <3>1. dep[j] \in Nat
      BY <1>7
    <3> QED BY <2>1, <3>1, BitsAssumption
  <2>4. TooDeep
    BY <1>1, <1>4, <1>7, <2>3 DEF TooDeep
  <2> QED BY <1>11, <2>2, <2>4
<1> QED BY <1>14, <1>15

Stages == {"build", "open", "tables", "encode", "read", "refused", "panic"}

\* Everything that holds up to the tables.
BuildInv ==
  TreeInv /\ FewInv(heap, nextSym, codeOf) /\ DictInv /\ stage \in Stages

LEMMA BuildInit ==
  HuffInit => BuildInv
<1>1. SUFFICES ASSUME HuffInit PROVE BuildInv
  OBVIOUS
<1>2. TreeInv
  BY <1>1, TreeInit
<1>3. heap = {} /\ stage = "build"
  BY <1>1 DEF HuffInit
<1>4. FewInv(heap, nextSym, codeOf)
  BY <1>3 DEF FewInv
<1>5. DictInv /\ stage \in Stages
  BY <1>3 DEF DictInv, Stages
<1> QED BY <1>2, <1>4, <1>5 DEF BuildInv

\* What a step leaves alone of the tree and of the dictionary.
LEMMA DictKept ==
  ASSUME UNCHANGED <<codeOf, uses>>
  PROVE  /\ InOrder' = InOrder
         /\ UNCHANGED dictBytes => DictWritten' = DictWritten
         /\ UNCHANGED dict => DictRead' = DictRead
         /\ TooDeep' = TooDeep
<1>1. InOrder' = InOrder
  BY DEF InOrder, Symbol
<1> QED BY <1>1 DEF DictWritten, DictRead, TooDeep, Symbol

LEMMA FewKept ==
  ASSUME UNCHANGED tree, FewInv(heap, nextSym, codeOf)
  PROVE  FewInv(heap, nextSym, codeOf)'
BY DEF FewInv, tree, AtLeast, Others

LEMMA DictSteps ==
  ASSUME TreeInv, DictInv, HuffNext
  PROVE  DictInv' /\ stage' \in Stages
<1>1. CASE Combine
  <2>1. stage' = "build"
    BY <1>1 DEF Combine
  <2> QED BY <2>1 DEF DictInv, Stages
<1>2. CASE WriteDictionary
  <2>1. stage' = "open" /\ UNCHANGED <<codeOf, uses>>
    BY <1>2 DEF WriteDictionary, tree
  <2>2. InOrder' = InOrder /\ Symbol' = Symbol
    BY <2>1, DictKept DEF Symbol
  <2>3. dictBytes' = FlattenSeq([k \in Symbol |->
                       PutUvarint[Len(codeOf[InOrder[k]])] \o PutUvarint[InOrder[k]]])
    BY <1>2 DEF WriteDictionary
  <2>4. DictWritten'
    BY <2>1, <2>2, <2>3 DEF DictWritten
  <2> QED BY <2>1, <2>4 DEF DictInv, Stages
<1>3. CASE ReadDictionary
  <2>1. stage = "open" /\ UNCHANGED <<codeOf, uses>>
    BY <1>3 DEF ReadDictionary, tree
  <2>2. DictWritten
    BY <2>1 DEF DictInv
  <2>3. PICK n : IsDone(n)
    <3>1. Roots = 1
      BY <2>1 DEF TreeInv
    <3> QED BY <3>1, TreeDone
  <2>4. /\ Entries.ok => dict' = Entries.entries /\ stage' = "tables"
        /\ ~Entries.ok => stage' = "refused"
    BY <1>3 DEF ReadDictionary
  <2>5. CASE TooDeep /\ Entries.ok = FALSE
    <3>1. stage' = "refused" /\ TooDeep'
      BY <2>1, <2>4, <2>5, DictKept
    <3> QED BY <3>1 DEF DictInv, Stages
  <2>6. CASE /\ \A s \in Symbol : Len(codeOf[s]) <= MaxDepth
             /\ Entries.ok = TRUE
             /\ Entries.entries =
                  [k \in Symbol |-> [symbol |-> InOrder[k], depth |-> Len(codeOf[InOrder[k]])]]
    <3>1. stage' = "tables" /\ dict' = Entries.entries
      BY <2>4, <2>6
    <3>2. InOrder' = InOrder /\ Symbol' = Symbol /\ codeOf' = codeOf
      BY <2>1, DictKept DEF Symbol
    <3>3. DictRead'
      BY <2>6, <3>1, <3>2 DEF DictRead
    <3> QED BY <3>1, <3>3 DEF DictInv, Stages
  <2> QED BY <2>2, <2>3, <2>5, <2>6, DictEntries
<1>4. ASSUME UNCHANGED <<tree, dict>>, stage \in {"tables", "encode", "read"},
             stage' \in {"encode", "read", "panic"}
      PROVE  DictInv' /\ stage' \in Stages
  <2>1. DictRead'
    <3>1. DictRead
      BY <1>4 DEF DictInv
    <3> QED BY <1>4, <3>1, DictKept DEF tree
  <2> QED BY <1>4, <2>1 DEF DictInv, Stages
<1>5. CASE Open
  BY <1>4, <1>5 DEF Open
<1>6. CASE Encode
  BY <1>4, <1>6 DEF Encode, built
<1>7. CASE Step
  <2>1. stage' = stage \/ stage' = "panic"
    BY <1>7 DEF Step
  <2>2. UNCHANGED <<tree, dict>> /\ stage = "read"
    BY <1>7 DEF Step, built
  <2> QED BY <1>4, <2>1, <2>2
<1> QED BY <1>1, <1>2, <1>3, <1>5, <1>6, <1>7 DEF HuffNext

LEMMA BuildSteps ==
  ASSUME BuildInv, [HuffNext]_huffVars
  PROVE  BuildInv'
<1>1. TreeInv'
  BY TreeSteps DEF BuildInv
<1>2. CASE HuffNext
  <2>1. DictInv' /\ stage' \in Stages
    BY <1>2, DictSteps DEF BuildInv
  <2>2. FewInv(heap, nextSym, codeOf)'
    <3>1. CASE Combine
      BY <3>1, FewStep DEF BuildInv
    <3>2. CASE ~ Combine
      <4>1. UNCHANGED tree
        BY <1>2, <3>2 DEF HuffNext, WriteDictionary, ReadDictionary, Open, Encode, Step
      <4> QED BY <4>1, FewKept DEF BuildInv
    <3> QED BY <3>1, <3>2
  <2> QED BY <1>1, <2>1, <2>2 DEF BuildInv
<1>3. CASE UNCHANGED huffVars
  <2>1. UNCHANGED tree /\ UNCHANGED <<codeOf, uses, stage, dictBytes, dict>>
    BY <1>3 DEF huffVars, tree, built
  <2>2. FewInv(heap, nextSym, codeOf)'
    BY <2>1, FewKept DEF BuildInv
  <2>3. DictInv'
    <3>1. DictWritten' = DictWritten /\ DictRead' = DictRead /\ TooDeep' = TooDeep
      BY <2>1, DictKept
    <3> QED BY <2>1, <3>1 DEF DictInv, BuildInv
  <2> QED BY <1>1, <2>1, <2>2, <2>3 DEF BuildInv
<1> QED BY <1>2, <1>3

\* The tree's roots, at every step: each subtree has the leaves, the uses and the codes
\* of the symbols below it, and no two have one in common.
THEOREM TreeKeepsRoots ==
  HuffSpec => []BuildInv
<1>1. HuffInit => BuildInv
  BY BuildInit
<1>2. BuildInv /\ [HuffNext]_huffVars => BuildInv'
  BY BuildSteps
<1> QED BY <1>1, <1>2, PTL DEF HuffSpec

LEMMA HugeWhenRefused ==
  ASSUME BuildInv
  PROVE  RefusedOnlyWhenHuge
<1>1. SUFFICES ASSUME stage = "refused" PROVE Total(uses) >= FewestUses[MaxDepth + 1]
  BY DEF RefusedOnlyWhenHuge
<1>2. PICK n : IsDone(n)
  <2>1. Roots = 1
    BY <1>1 DEF BuildInv, TreeInv
  <2> QED BY <2>1, TreeDone DEF BuildInv
<1>3. PICK s \in 1 .. n : Len(codeOf[s]) > MaxDepth
  BY <1>1, <1>2 DEF BuildInv, DictInv, TooDeep, IsDone
<1>4. n \in Nat /\ Len(codeOf[s]) \in 0 .. n - 1
  BY <1>2 DEF IsDone
<1>5. PICK l \in Nat : l = Len(codeOf[s])
  BY <1>4
<1>6. n # 1 /\ l >= MaxDepth + 1 /\ MaxDepth + 1 \in 1 .. MaxDepth + 1
  BY <1>3, <1>4, <1>5, BitsAssumption
<1>7. PICK t : heap = {t} /\ t.leaves = 1 .. n /\ t.uses = Total(uses)
  BY <1>2, <1>6 DEF IsDone
<1>8. Reaches(t.leaves, MaxDepth + 1, codeOf)
  BY <1>5, <1>6, <1>7 DEF Reaches
<1>9. t.uses >= FewestUses[MaxDepth + 1]
  <2>1. t \in heap /\ FewInv(heap, nextSym, codeOf)
    BY <1>7 DEF BuildInv
  <2> QED BY <1>6, <1>8, <2>1 DEF FewInv
<1> QED BY <1>7, <1>9

\* RefusedOnlyWhenHuge: whatever the uses of the words, the reader refuses what the writer
\* wrote only when they add up to the FewestUses of the depth it refuses.
THEOREM RefusedNeedsHugeUses ==
  HuffSpec => []RefusedOnlyWhenHuge
<1>1. BuildInv => RefusedOnlyWhenHuge
  BY HugeWhenRefused
<1> QED BY <1>1, TreeKeepsRoots, PTL

(***************************************************************************)
(* Sums over some of the numbers up to n.                                  *)
(***************************************************************************)
Only(R, f, n) == [s \in 1 .. n |-> IF s \in R THEN f[s] ELSE 0]

SumOver(R, f, n) == Total(Only(R, f, n))

\* g are the members of R, and 0 for the others.
IsOnly(g, R, f, n) ==
  /\ g \in [1 .. n -> Nat] /\ \A s \in 1 .. n : g[s] = IF s \in R THEN f[s] ELSE 0
  /\ SumOver(R, f, n) = Total(g)

LEMMA OnlyIs ==
  ASSUME NEW n \in Nat, NEW f \in [1 .. n -> Nat], NEW R
  PROVE  SumOver(R, f, n) \in Nat /\ \E g : IsOnly(g, R, f, n)
<1>1. /\ Only(R, f, n) \in [1 .. n -> Nat]
      /\ \A s \in 1 .. n : Only(R, f, n)[s] = IF s \in R THEN f[s] ELSE 0
  BY DEF Only
<1>2. PICK g \in [1 .. n -> Nat] : g = Only(R, f, n)
  BY <1>1
<1>3. Total(g) \in Nat
  BY TotalNat
<1>4. IsOnly(g, R, f, n)
  BY <1>1, <1>2 DEF IsOnly, SumOver
<1> QED BY <1>2, <1>3, <1>4 DEF SumOver

LEMMA SumOne ==
  ASSUME NEW n \in Nat, NEW f \in [1 .. n -> Nat], NEW a \in 1 .. n
  PROVE  SumOver({a}, f, n) = f[a]
<1>1. PICK R : R = {a}
  OBVIOUS
<1>2. PICK g \in [1 .. n -> Nat] : /\ SumOver(R, f, n) = Total(g)
                                   /\ \A s \in 1 .. n : g[s] = IF s \in R THEN f[s] ELSE 0
  <2>1. PICK g : IsOnly(g, R, f, n)
    BY OnlyIs
  <2> QED BY <2>1 DEF IsOnly
<1>3. \A s \in 1 .. n : s # a => g[s] = 0
  BY <1>1, <1>2
<1>4. Total(g) = g[a]
  BY <1>3, TotalOne
<1> QED BY <1>1, <1>2, <1>4

\* Each member of R is one of L, or one of K.
IsSplit(R, L, K, n) ==
  \A s \in 1 .. n : (s \in R <=> s \in L \/ s \in K) /\ ~(s \in L /\ s \in K)

LEMMA SumSplit ==
  ASSUME NEW n \in Nat, NEW f \in [1 .. n -> Nat], NEW R, NEW L, NEW K, IsSplit(R, L, K, n)
  PROVE  SumOver(R, f, n) = SumOver(L, f, n) + SumOver(K, f, n)
<1>1. PICK g : IsOnly(g, R, f, n)
  BY OnlyIs
<1>2. PICK u : IsOnly(u, L, f, n)
  BY OnlyIs
<1>3. PICK v : IsOnly(v, K, f, n)
  BY OnlyIs
<1>4. g \in [1 .. n -> Nat] /\ u \in [1 .. n -> Nat] /\ v \in [1 .. n -> Nat]
  BY <1>1, <1>2, <1>3 DEF IsOnly
<1>5. ASSUME NEW s \in 1 .. n PROVE g[s] = u[s] + v[s]
  <2>1. (s \in R <=> s \in L \/ s \in K) /\ ~(s \in L /\ s \in K)
    BY DEF IsSplit
  <2>2. PICK x \in Nat : x = f[s]
    OBVIOUS
  <2>3. /\ g[s] = IF s \in R THEN x ELSE 0
        /\ u[s] = IF s \in L THEN x ELSE 0
        /\ v[s] = IF s \in K THEN x ELSE 0
    BY <1>1, <1>2, <1>3, <2>2 DEF IsOnly
  <2> QED BY <2>1, <2>3
<1>6. AreAdded(g, u, v, n)
  BY <1>4, <1>5 DEF AreAdded
<1>7. Total(g) = Total(u) + Total(v)
  BY <1>6, TotalAdd
<1> QED BY <1>1, <1>2, <1>3, <1>7 DEF IsOnly

LEMMA SumBoth ==
  ASSUME NEW n \in Nat, NEW f \in [1 .. n -> Nat], NEW L, NEW K, L \cap K = {}
  PROVE  SumOver(L \cup K, f, n) = SumOver(L, f, n) + SumOver(K, f, n)
<1>1. PICK R : R = L \cup K
  OBVIOUS
<1>2. IsSplit(R, L, K, n)
  BY <1>1 DEF IsSplit
<1> QED BY <1>1, <1>2, SumSplit

LEMMA SumSame ==
  ASSUME NEW n \in Nat, NEW f \in [1 .. n -> Nat], NEW g \in [1 .. n -> Nat], NEW R,
         \A s \in 1 .. n : s \in R => f[s] = g[s]
  PROVE  SumOver(R, f, n) = SumOver(R, g, n)
<1>1. Only(R, f, n) = Only(R, g, n)
  BY DEF Only
<1> QED BY <1>1 DEF SumOver

LEMMA SumLeq ==
  ASSUME NEW n \in Nat, NEW f \in [1 .. n -> Nat], NEW g \in [1 .. n -> Nat], NEW R,
         \A s \in 1 .. n : s \in R => f[s] <= g[s]
  PROVE  SumOver(R, f, n) <= SumOver(R, g, n)
<1>1. PICK u \in [1 .. n -> Nat] : /\ SumOver(R, f, n) = Total(u)
                                   /\ \A s \in 1 .. n : u[s] = IF s \in R THEN f[s] ELSE 0
  <2>1. PICK u : IsOnly(u, R, f, n)
    BY OnlyIs
  <2> QED BY <2>1 DEF IsOnly
<1>2. PICK v \in [1 .. n -> Nat] : /\ SumOver(R, g, n) = Total(v)
                                   /\ \A s \in 1 .. n : v[s] = IF s \in R THEN g[s] ELSE 0
  <2>1. PICK v : IsOnly(v, R, g, n)
    BY OnlyIs
  <2> QED BY <2>1 DEF IsOnly
<1>3. ASSUME NEW s \in 1 .. n PROVE u[s] <= v[s]
  <2>1. CASE s \in R
    <3>1. u[s] = f[s] /\ v[s] = g[s]
      BY <1>1, <1>2, <2>1
    <3> QED BY <2>1, <3>1
  <2>2. CASE s \notin R
    <3>1. u[s] = 0 /\ v[s] = 0
      BY <1>1, <1>2, <2>2
    <3> QED BY <3>1
  <2> QED BY <2>1, <2>2
<1>4. Total(u) <= Total(v)
  <2>1. \A s \in 1 .. n : u[s] <= v[s]
    BY <1>3
  <2> QED BY <2>1, TotalLeq
<1> QED BY <1>1, <1>2, <1>4

LEMMA SumTimes ==
  ASSUME NEW n \in Nat, NEW f \in [1 .. n -> Nat], NEW g \in [1 .. n -> Nat], NEW R, NEW c \in Nat,
         \A s \in 1 .. n : s \in R => g[s] = c * f[s]
  PROVE  SumOver(R, g, n) = c * SumOver(R, f, n)
<1>1. PICK u \in [1 .. n -> Nat] : /\ SumOver(R, f, n) = Total(u)
                                   /\ \A s \in 1 .. n : u[s] = IF s \in R THEN f[s] ELSE 0
  <2>1. PICK u : IsOnly(u, R, f, n)
    BY OnlyIs
  <2> QED BY <2>1 DEF IsOnly
<1>2. PICK v \in [1 .. n -> Nat] : /\ SumOver(R, g, n) = Total(v)
                                   /\ \A s \in 1 .. n : v[s] = IF s \in R THEN g[s] ELSE 0
  <2>1. PICK v : IsOnly(v, R, g, n)
    BY OnlyIs
  <2> QED BY <2>1 DEF IsOnly
<1>3. ASSUME NEW s \in 1 .. n PROVE v[s] = c * u[s]
  <2>1. CASE s \in R
    BY <1>1, <1>2, <2>1
  <2>2. CASE s \notin R
    <3>1. u[s] = 0 /\ v[s] = 0
      BY <1>1, <1>2, <2>2
    <3> QED BY <3>1
  <2> QED BY <2>1, <2>2
<1>4. Total(v) = c * Total(u)
  <2>1. \A s \in 1 .. n : v[s] = c * u[s]
    BY <1>3
  <2> QED BY <2>1, TotalTimes
<1> QED BY <1>1, <1>2, <1>4

\* One of them, and the others.
LEMMA SumWithout ==
  ASSUME NEW n \in Nat, NEW f \in [1 .. n -> Nat], NEW R, NEW a \in 1 .. n, a \in R
  PROVE  SumOver(R, f, n) = SumOver(R \ {a}, f, n) + f[a]
<1>1. PICK S : S = R \ {a}
  OBVIOUS
<1>2. R = S \cup {a} /\ S \cap {a} = {}
  BY <1>1
<1>3. SumOver(S \cup {a}, f, n) = SumOver(S, f, n) + SumOver({a}, f, n)
  BY <1>2, SumBoth
<1>4. SumOver({a}, f, n) = f[a]
  BY SumOne
<1> QED BY <1>1, <1>2, <1>3, <1>4

\* All of them.
LEMMA SumAll ==
  ASSUME NEW n \in Nat, NEW f \in [1 .. n -> Nat], NEW R, 1 .. n \subseteq R
  PROVE  SumOver(R, f, n) = Total(f)
<1>1. Only(R, f, n) = f
  BY DEF Only
<1> QED BY <1>1 DEF SumOver

LEMMA SumTwo ==
  ASSUME NEW n \in Nat, NEW f \in [1 .. n -> Nat], NEW R, NEW a \in 1 .. n, NEW b \in 1 .. n,
         a \in R, b \in R, a # b
  PROVE  SumOver(R, f, n) = SumOver(R \ {a, b}, f, n) + f[a] + f[b]
<1>1. PICK S : S = R \ {a}
  OBVIOUS
<1>2. PICK T : T = S \ {b}
  OBVIOUS
<1>3. b \in S /\ T = R \ {a, b}
  BY <1>1, <1>2
<1>4. SumOver(R, f, n) = SumOver(S, f, n) + f[a]
  BY <1>1, SumWithout
<1>5. SumOver(S, f, n) = SumOver(T, f, n) + f[b]
  BY <1>2, <1>3, SumWithout
<1>6. SumOver(T, f, n) \in Nat /\ f[a] \in Nat /\ f[b] \in Nat
  BY OnlyIs
<1>7. SumOver(R, f, n) = SumOver(T, f, n) + f[a] + f[b]
  <2>1. PICK x \in Nat, y \in Nat, z \in Nat : x = SumOver(T, f, n) /\ y = f[a] /\ z = f[b]
    BY <1>6
  <2>2. SumOver(S, f, n) = x + z
    BY <1>5, <2>1
  <2>3. SumOver(R, f, n) = x + z + y
    BY <1>4, <2>1, <2>2
  <2> QED BY <2>1, <2>3
<1> QED BY <1>3, <1>7

\* S are the others of R.
IsBut(S, R, a) == a \in R /\ S = R \ {a}

IsButTwo(S, R, a, b) == a \in R /\ b \in R /\ a # b /\ S = R \ {a, b}

LEMMA SumBut ==
  ASSUME NEW n \in Nat, NEW f \in [1 .. n -> Nat], NEW R, NEW S, NEW a \in 1 .. n, IsBut(S, R, a)
  PROVE  SumOver(R, f, n) = SumOver(S, f, n) + f[a]
<1>1. a \in R /\ S = R \ {a}
  BY DEF IsBut
<1>2. SumOver(R, f, n) = SumOver(R \ {a}, f, n) + f[a]
  BY <1>1, SumWithout
<1> QED BY <1>1, <1>2

LEMMA SumButTwo ==
  ASSUME NEW n \in Nat, NEW f \in [1 .. n -> Nat], NEW R, NEW S, NEW a \in 1 .. n,
         NEW b \in 1 .. n, IsButTwo(S, R, a, b)
  PROVE  SumOver(R, f, n) = SumOver(S, f, n) + f[a] + f[b]
<1>1. a \in R /\ b \in R /\ a # b /\ S = R \ {a, b}
  BY DEF IsButTwo
<1>2. SumOver(R, f, n) = SumOver(R \ {a, b}, f, n) + f[a] + f[b]
  BY <1>1, SumTwo
<1> QED BY <1>1, <1>2

IsRow(f, n) == f \in [1 .. n -> Nat]

\* Two members apart, and the others S.
IsLessTwo(S, R, a, b, n) == a \in 1 .. n /\ b \in 1 .. n /\ IsButTwo(S, R, a, b)

LEMMA SumLessTwo ==
  ASSUME NEW n \in Nat, NEW f, IsRow(f, n), NEW R, NEW S, NEW a, NEW b, IsLessTwo(S, R, a, b, n)
  PROVE  SumOver(R, f, n) = SumOver(S, f, n) + f[a] + f[b]
<1>1. a \in 1 .. n /\ b \in 1 .. n /\ IsButTwo(S, R, a, b)
  BY DEF IsLessTwo
<1>2. f \in [1 .. n -> Nat]
  BY DEF IsRow
<1> QED BY <1>1, <1>2, SumButTwo

(***************************************************************************)
(* Lengths of codes.                                                       *)
(***************************************************************************)
\* What codes of lengths D take of all the codes there are, and what they cost.
Powers(D, n, N) == [s \in 1 .. n |-> Pow2[N - D[s]]]

Costs(W, D, n) == [s \in 1 .. n |-> W[s] * D[s]]

Taking(R, D, n, N) == SumOver(R, Powers(D, n, N), n)

CostOver(R, W, D, n) == SumOver(R, Costs(W, D, n), n)

\* There are codes of these lengths.
Feasible(R, D, n, N) == D \in [1 .. n -> 0 .. N] /\ Taking(R, D, n, N) <= Pow2[N]

ArePowers(f, D, n, N) ==
  f \in [1 .. n -> Nat] /\ f = Powers(D, n, N) /\ \A s \in 1 .. n : f[s] = Pow2[N - D[s]]

AreCosts(f, W, D, n) ==
  f \in [1 .. n -> Nat] /\ f = Costs(W, D, n) /\ \A s \in 1 .. n : f[s] = W[s] * D[s]

LEMMA PowersAre ==
  ASSUME NEW n \in Nat, NEW N \in Nat, NEW D \in [1 .. n -> 0 .. N]
  PROVE  ArePowers(Powers(D, n, N), D, n, N)
<1>1. PICK f : f = Powers(D, n, N)
  OBVIOUS
<1>2. ASSUME NEW s \in 1 .. n PROVE f[s] = Pow2[N - D[s]] /\ f[s] \in Nat
  <2>1. PICK k \in Nat : k = N - D[s]
    OBVIOUS
  <2>2. Pow2[k] \in Nat
    BY Pow2Is
  <2>3. f[s] = Pow2[k]
    BY <1>1, <2>1 DEF Powers
  <2> QED BY <2>1, <2>2, <2>3
<1>3. DOMAIN f = 1 .. n /\ f = [s \in 1 .. n |-> f[s]]
  BY <1>1 DEF Powers
<1>4. f \in [1 .. n -> Nat]
  BY <1>2, <1>3
<1>5. ArePowers(f, D, n, N)
  BY <1>1, <1>2, <1>4 DEF ArePowers
<1> QED BY <1>1, <1>5

LEMMA CostsAre ==
  ASSUME NEW n \in Nat, NEW N \in Nat, NEW D \in [1 .. n -> 0 .. N], NEW W \in [1 .. n -> Nat]
  PROVE  AreCosts(Costs(W, D, n), W, D, n)
<1>1. PICK f : f = Costs(W, D, n)
  OBVIOUS
<1>2. ASSUME NEW s \in 1 .. n PROVE f[s] = W[s] * D[s] /\ f[s] \in Nat
  <2>1. PICK x \in Nat, y \in Nat : x = W[s] /\ y = D[s]
    OBVIOUS
  <2>2. f[s] = x * y
    BY <1>1, <2>1 DEF Costs
  <2> QED BY <2>1, <2>2
<1>3. DOMAIN f = 1 .. n /\ f = [s \in 1 .. n |-> f[s]]
  BY <1>1 DEF Costs
<1>4. f \in [1 .. n -> Nat]
  BY <1>2, <1>3
<1>5. AreCosts(f, W, D, n)
  BY <1>1, <1>2, <1>4 DEF AreCosts
<1> QED BY <1>1, <1>5

LEMMA TakingNat ==
  ASSUME NEW n \in Nat, NEW N \in Nat, NEW D \in [1 .. n -> 0 .. N], NEW W \in [1 .. n -> Nat],
         NEW R
  PROVE  Taking(R, D, n, N) \in Nat /\ CostOver(R, W, D, n) \in Nat
<1>1. PICK f : f = Powers(D, n, N) /\ f \in [1 .. n -> Nat]
  BY PowersAre DEF ArePowers
<1>2. PICK g : g = Costs(W, D, n) /\ g \in [1 .. n -> Nat]
  BY CostsAre DEF AreCosts
<1>3. SumOver(R, f, n) \in Nat /\ SumOver(R, g, n) \in Nat
  BY <1>1, <1>2, OnlyIs
<1> QED BY <1>1, <1>2, <1>3 DEF Taking, CostOver

\* Products in the other order are not more.
LEMMA Crossed ==
  ASSUME NEW x \in Nat, NEW y \in Nat, NEW p \in Nat, NEW q \in Nat, x <= y, p <= q
  PROVE  x * q + y * p <= x * p + y * q
<1>1. PICK u \in Nat : y = x + u
  <2>1. y - x \in Nat /\ y = x + (y - x)
    OBVIOUS
  <2> QED BY <2>1
<1>2. PICK v \in Nat : q = p + v
  <2>1. q - p \in Nat /\ q = p + (q - p)
    OBVIOUS
  <2> QED BY <2>1
<1>3. x * q = x * p + x * v /\ y * p = x * p + u * p /\ y * q = x * p + x * v + u * p + u * v
  BY <1>1, <1>2
<1>4. x * p \in Nat /\ x * v \in Nat /\ u * p \in Nat /\ u * v \in Nat
  OBVIOUS
<1> QED BY <1>3, <1>4

\* The lengths of a and t, the other way round.
Exchanged(D, a, t) == [D EXCEPT ![a] = D[t], ![t] = D[a]]

\* E is as good as D.
AsGood(E, D, R, W, n, N) ==
  Feasible(R, E, n, N) /\ CostOver(R, W, E, n) <= CostOver(R, W, D, n)

LEMMA Swapped ==
  ASSUME NEW n \in Nat, NEW N \in Nat, NEW R, NEW W \in [1 .. n -> Nat],
         NEW D, Feasible(R, D, n, N), NEW a \in 1 .. n, NEW t \in 1 .. n, a \in R, t \in R,
         a # t, W[a] <= W[t], D[a] <= D[t]
  PROVE  AsGood(Exchanged(D, a, t), D, R, W, n, N)
<1>1. D \in [1 .. n -> 0 .. N]
  BY DEF Feasible
<1>2. PICK E : E = Exchanged(D, a, t)
  OBVIOUS
<1>3. /\ E \in [1 .. n -> 0 .. N] /\ E[a] = D[t] /\ E[t] = D[a]
      /\ \A s \in 1 .. n : s # a /\ s # t => E[s] = D[s]
  BY <1>1, <1>2 DEF Exchanged
<1>4. PICK f : ArePowers(f, D, n, N)
  BY <1>1, PowersAre
<1>5. PICK g : ArePowers(g, E, n, N)
  BY <1>3, PowersAre
<1>6. PICK u : AreCosts(u, W, D, n)
  BY <1>1, CostsAre
<1>7. PICK v : AreCosts(v, W, E, n)
  BY <1>3, CostsAre
<1>8. /\ f \in [1 .. n -> Nat] /\ g \in [1 .. n -> Nat]
      /\ u \in [1 .. n -> Nat] /\ v \in [1 .. n -> Nat]
  BY <1>4, <1>5, <1>6, <1>7 DEF ArePowers, AreCosts
<1>9. PICK S : S = R \ {a, t}
  OBVIOUS
<1>10. \A s \in 1 .. n : s \in S => f[s] = g[s]
  BY <1>3, <1>4, <1>5, <1>9 DEF ArePowers
<1>11. \A s \in 1 .. n : s \in S => u[s] = v[s]
  BY <1>3, <1>6, <1>7, <1>9 DEF AreCosts
<1>12. SumOver(S, f, n) = SumOver(S, g, n)
  BY <1>8, <1>10, SumSame
<1>13. SumOver(S, u, n) = SumOver(S, v, n)
  BY <1>8, <1>11, SumSame
<1>14. IsLessTwo(S, R, a, t, n) /\ IsRow(f, n) /\ IsRow(g, n) /\ IsRow(u, n) /\ IsRow(v, n)
  BY <1>8, <1>9 DEF IsButTwo, IsLessTwo, IsRow
<1>15. /\ SumOver(R, f, n) = SumOver(S, f, n) + f[a] + f[t]
       /\ SumOver(R, g, n) = SumOver(S, g, n) + g[a] + g[t]
       /\ SumOver(R, u, n) = SumOver(S, u, n) + u[a] + u[t]
       /\ SumOver(R, v, n) = SumOver(S, v, n) + v[a] + v[t]
  <2>1. SumOver(R, f, n) = SumOver(S, f, n) + f[a] + f[t]
    BY <1>14, SumLessTwo
  <2>2. SumOver(R, g, n) = SumOver(S, g, n) + g[a] + g[t]
    BY <1>14, SumLessTwo
  <2>3. SumOver(R, u, n) = SumOver(S, u, n) + u[a] + u[t]
    BY <1>14, SumLessTwo
  <2>4. SumOver(R, v, n) = SumOver(S, v, n) + v[a] + v[t]
    BY <1>14, SumLessTwo
  <2> QED BY <2>1, <2>2, <2>3, <2>4
<1>16. f[a] = g[t] /\ f[t] = g[a]
  BY <1>3, <1>4, <1>5 DEF ArePowers
<1>17. v[a] + v[t] <= u[a] + u[t]
  <2>1. PICK x \in Nat, y \in Nat, p \in Nat, q \in Nat :
          x = W[a] /\ y = W[t] /\ p = D[a] /\ q = D[t]
    BY <1>1
  <2>2. x * q + y * p <= x * p + y * q
    BY <2>1, Crossed
  <2>3. v[a] = x * q /\ v[t] = y * p /\ u[a] = x * p /\ u[t] = y * q
    BY <1>3, <1>6, <1>7, <2>1 DEF AreCosts
  <2> QED BY <2>2, <2>3
<1>18. /\ SumOver(S, f, n) \in Nat /\ SumOver(S, g, n) \in Nat
       /\ SumOver(S, u, n) \in Nat /\ SumOver(S, v, n) \in Nat
  BY <1>8, OnlyIs
<1>19. /\ f[a] \in Nat /\ f[t] \in Nat /\ g[a] \in Nat /\ g[t] \in Nat
       /\ u[a] \in Nat /\ u[t] \in Nat /\ v[a] \in Nat /\ v[t] \in Nat
  BY <1>8
<1>20. SumOver(R, g, n) = SumOver(R, f, n)
  <2>1. PICK z \in Nat, x \in Nat, y \in Nat :
          z = SumOver(S, f, n) /\ x = f[a] /\ y = f[t]
    BY <1>18, <1>19
  <2>2. SumOver(R, f, n) = z + x + y
    BY <1>15, <2>1
  <2>3. SumOver(R, g, n) = z + y + x
    BY <1>12, <1>15, <1>16, <2>1
  <2> QED BY <2>2, <2>3
<1>21. SumOver(R, v, n) <= SumOver(R, u, n)
  <2>1. PICK z \in Nat, x \in Nat, y \in Nat, p \in Nat, q \in Nat :
          z = SumOver(S, u, n) /\ x = u[a] /\ y = u[t] /\ p = v[a] /\ q = v[t]
    BY <1>18, <1>19
  <2>2. SumOver(R, u, n) = z + x + y
    BY <1>15, <2>1
  <2>3. SumOver(R, v, n) = z + p + q
    BY <1>13, <1>15, <2>1
  <2>4. p + q <= x + y
    BY <1>17, <2>1
  <2>5. z + p + q <= z + x + y
    BY <2>4
  <2> QED BY <2>2, <2>3, <2>5
<1>22. Taking(R, E, n, N) = Taking(R, D, n, N)
  BY <1>4, <1>5, <1>20 DEF ArePowers, Taking
<1>23. CostOver(R, W, E, n) <= CostOver(R, W, D, n)
  BY <1>6, <1>7, <1>21 DEF AreCosts, CostOver
<1>24. Feasible(R, E, n, N)
  BY <1>3, <1>22 DEF Feasible
<1> QED BY <1>2, <1>23, <1>24 DEF AsGood

LEMMA Deepest ==
  ASSUME NEW n \in Nat, NEW N \in Nat, NEW R, R \subseteq 1 .. n, R # {},
         NEW D \in [1 .. n -> 0 .. N]
  PROVE  \E t \in R : \A s \in R : D[s] <= D[t]
<1> DEFINE S == {D[s] : s \in R}
<1>1. S \in SUBSET (0 .. N) /\ S # {}
  OBVIOUS
<1>2. PICK m \in S : \A k \in S : k <= m
  <2> HIDE DEF S
  <2> QED BY <1>1, Greatest
<1>3. PICK t \in R : m = D[t]
  BY <1>2
<1>4. \A s \in R : D[s] \in S
  OBVIOUS
<1> QED BY <1>2, <1>3, <1>4

\* The symbol a of T is as deep as any of T, in lengths E that are as good, and have
\* those of the others.
IsRaised(E, D, a, T, R, W, n, N) ==
  /\ AsGood(E, D, R, W, n, N)
  /\ \A s \in T : E[s] <= E[a]
  /\ \A s \in (1 .. n) \ T : E[s] = D[s]
  /\ \A s \in T : \E r \in T : E[s] = D[r]

LEMMA Raised ==
  ASSUME NEW n \in Nat, NEW N \in Nat, NEW R, R \subseteq 1 .. n, NEW W \in [1 .. n -> Nat],
         NEW D, Feasible(R, D, n, N), NEW T, T \subseteq R, NEW a \in T,
         \A s \in T : W[a] <= W[s]
  PROVE  \E E : IsRaised(E, D, a, T, R, W, n, N)
<1>1. D \in [1 .. n -> 0 .. N]
  BY DEF Feasible
<1>2. PICK t \in T : \A s \in T : D[s] <= D[t]
  <2>1. T \subseteq 1 .. n /\ T # {}
    OBVIOUS
  <2> QED BY <1>1, <2>1, Deepest
<1>3. /\ a \in 1 .. n /\ t \in 1 .. n /\ a \in R /\ t \in R /\ W[a] <= W[t] /\ D[a] <= D[t]
  BY <1>2
<1>4. CASE a = t
  <2>1. CostOver(R, W, D, n) \in Nat
    BY <1>1, TakingNat
  <2>2. AsGood(D, D, R, W, n, N)
    BY <2>1 DEF AsGood
  <2>3. IsRaised(D, D, a, T, R, W, n, N)
    BY <1>2, <1>4, <2>2 DEF IsRaised
  <2> QED BY <2>3
<1>5. CASE a # t
  <2>1. PICK E : E = Exchanged(D, a, t)
    OBVIOUS
  <2>2. AsGood(E, D, R, W, n, N)
    BY <1>3, <1>5, <2>1, Swapped
  <2>3. E[a] = D[t] /\ E[t] = D[a] /\ \A s \in 1 .. n : s # a /\ s # t => E[s] = D[s]
    BY <1>1, <1>3, <2>1 DEF Exchanged
  <2>4. ASSUME NEW s \in T PROVE \E r \in T : E[s] = D[r]
    BY <1>2, <2>3
  <2>5. \A s \in T : E[s] <= E[a]
    BY <1>2, <2>3, <2>4
  <2>6. IsRaised(E, D, a, T, R, W, n, N)
    BY <1>2, <2>2, <2>3, <2>4, <2>5 DEF IsRaised
  <2> QED BY <2>6
<1> QED BY <1>4, <1>5

\* a is deepest, and b after it.
IsLowest(E, D, a, b, R, W, n, N) ==
  AsGood(E, D, R, W, n, N) /\ E[b] <= E[a] /\ \A s \in R \ {a} : E[s] <= E[b]

\* a is used least, and b after it.
Rarest(a, b, R, W) ==
  /\ a \in R /\ b \in R /\ a # b
  /\ \A s \in R : W[a] <= W[s]
  /\ \A s \in R \ {a} : W[b] <= W[s]

LEMMA Lowest ==
  ASSUME NEW n \in Nat, NEW N \in Nat, NEW R, R \subseteq 1 .. n, NEW W \in [1 .. n -> Nat],
         NEW D, Feasible(R, D, n, N), NEW a, NEW b, Rarest(a, b, R, W)
  PROVE  \E E : IsLowest(E, D, a, b, R, W, n, N)
<1>1. a \in R /\ (\A s \in R : W[a] <= W[s]) /\ R \subseteq R
  BY DEF Rarest
<1>2. PICK E : IsRaised(E, D, a, R, R, W, n, N)
  BY <1>1, Raised
<1>3. PICK T : T = R \ {a}
  OBVIOUS
<1>4. T \subseteq R /\ b \in T /\ \A s \in T : W[b] <= W[s]
  BY <1>3 DEF Rarest
<1>5. Feasible(R, E, n, N)
  BY <1>2 DEF IsRaised, AsGood
<1>6. PICK F : IsRaised(F, E, b, T, R, W, n, N)
  BY <1>4, <1>5, Raised
<1>7. D \in [1 .. n -> 0 .. N] /\ E \in [1 .. n -> 0 .. N] /\ Feasible(R, F, n, N)
  BY <1>5, <1>6 DEF Feasible, IsRaised, AsGood
<1>8. AsGood(F, D, R, W, n, N)
  <2>1. F \in [1 .. n -> 0 .. N]
    BY <1>7 DEF Feasible
  <2>2. PICK x \in Nat, y \in Nat, z \in Nat :
          x = CostOver(R, W, D, n) /\ y = CostOver(R, W, E, n) /\ z = CostOver(R, W, F, n)
    BY <1>7, <2>1, TakingNat
  <2>3. y <= x /\ z <= y
    BY <1>2, <1>6, <2>2 DEF IsRaised, AsGood
  <2>4. z <= x
    BY <2>3
  <2> QED BY <1>7, <2>2, <2>4 DEF AsGood
<1>9. F[b] <= F[a]
  <2>1. PICK r \in T : F[b] = E[r]
    BY <1>4, <1>6 DEF IsRaised
  <2>2. F[a] = E[a]
    BY <1>1, <1>3, <1>6 DEF IsRaised
  <2>3. E[r] <= E[a]
    BY <1>2, <1>3 DEF IsRaised
  <2> QED BY <2>1, <2>2, <2>3
<1>10. \A s \in R \ {a} : F[s] <= F[b]
  BY <1>3, <1>6 DEF IsRaised
<1>11. IsLowest(F, D, a, b, R, W, n, N)
  BY <1>8, <1>9, <1>10 DEF IsLowest
<1> QED BY <1>11

\* What a multiple of P, P and something else leave room for.
LEMMA RoomForTwo ==
  ASSUME NEW P \in Nat, NEW q \in Nat, NEW K \in Nat, NEW z \in Nat, z >= 1,
         P * q + P + z <= P * K
  PROVE  P * q + 2 * P <= P * K
<1>1. ASSUME K <= q + 1 PROVE FALSE
  <2>1. PICK d \in Nat : q + 1 = K + d
    <3>1. q + 1 - K \in Nat /\ q + 1 = K + (q + 1 - K)
      BY <1>1
    <3> QED BY <3>1
  <2>2. P * (q + 1) = P * K + P * d /\ P * (q + 1) = P * q + P
    <3>1. P * (q + 1) = P * q + P /\ P * (K + d) = P * K + P * d
      OBVIOUS
    <3> QED BY <2>1, <3>1
  <2>3. P * d \in Nat /\ P * K \in Nat /\ P * q \in Nat
    OBVIOUS
  <2> QED BY <2>2, <2>3
<1>2. PICK d \in Nat : K = (q + 2) + d
  <2>1. K - (q + 2) \in Nat /\ K = (q + 2) + (K - (q + 2))
    BY <1>1
  <2> QED BY <2>1
<1>3. P * K = P * q + 2 * P + P * d
  <2>1. P * ((q + 2) + d) = P * q + 2 * P + P * d
    OBVIOUS
  <2> QED BY <1>2, <2>1
<1>4. P * d \in Nat /\ P * q \in Nat
  OBVIOUS
<1> QED BY <1>3, <1>4

\* Over R, g is c times f.
IsTimes(g, f, R, c, n) ==
  /\ f \in [1 .. n -> Nat] /\ g \in [1 .. n -> Nat]
  /\ \A s \in 1 .. n : s \in R => g[s] = c * f[s]

LEMMA SumTimed ==
  ASSUME NEW n \in Nat, NEW f, NEW g, NEW R, NEW c \in Nat, IsTimes(g, f, R, c, n)
  PROVE  SumOver(R, g, n) = c * SumOver(R, f, n)
<1>1. f \in [1 .. n -> Nat] /\ g \in [1 .. n -> Nat]
  BY DEF IsTimes
<1>2. \A s \in 1 .. n : s \in R => g[s] = c * f[s]
  BY DEF IsTimes
<1> QED BY <1>1, <1>2, SumTimes

Among(R, n) == R \subseteq 1 .. n

\* a one bit shorter than b, in place of both.
IsShorter(E, D, a, b, n) ==
  E[a] = D[b] - 1 /\ \A s \in 1 .. n : s # a => E[s] = D[s]

\* No other of R is longer than b, which is no longer than a.
BothDeepest(D, a, b, R) ==
  a \in R /\ b \in R /\ a # b /\ D[b] <= D[a] /\ \A s \in R \ {a} : D[s] <= D[b]

\* Two deepest symbols leave room for one that is one bit shorter.
LEMMA MergedFits ==
  ASSUME NEW n \in Nat, NEW N \in Nat, NEW R, Among(R, n),
         NEW D, Feasible(R, D, n, N), NEW a, NEW b, BothDeepest(D, a, b, R)
  PROVE  /\ D[b] >= 1
         /\ \A E \in [1 .. n -> 0 .. N] :
              IsShorter(E, D, a, b, n) => Feasible(R \ {b}, E, n, N)
<1>1. D \in [1 .. n -> 0 .. N] /\ a \in 1 .. n /\ b \in 1 .. n /\ a \in R /\ b \in R /\ a # b
  BY DEF Feasible, BothDeepest, Among
<1>2. PICK M \in 0 .. N : M = D[b]
  BY <1>1
<1>3. PICK S : S = R \ {a, b}
  OBVIOUS
<1>4. S \subseteq 1 .. n /\ \A s \in S : D[s] <= M /\ D[s] \in 0 .. N
  BY <1>1, <1>2, <1>3 DEF BothDeepest, Among
<1>5. PICK f : ArePowers(f, D, n, N)
  BY <1>1, PowersAre
<1>6. f \in [1 .. n -> Nat] /\ \A s \in 1 .. n : f[s] = Pow2[N - D[s]]
  BY <1>5 DEF ArePowers
<1>7. PICK P \in Nat \ {0}, K \in Nat \ {0} : P = Pow2[N - M] /\ K = Pow2[M]
  <2>1. N - M \in Nat /\ M \in Nat
    OBVIOUS
  <2> QED BY <2>1, Pow2Is
<1>8. Pow2[N] = P * K
  <2>1. N - M \in Nat /\ M \in Nat /\ (N - M) + M = N
    OBVIOUS
  <2>2. Pow2[(N - M) + M] = Pow2[N - M] * Pow2[M]
    BY <2>1, Pow2Add
  <2> QED BY <1>7, <2>1, <2>2
<1> DEFINE h == [s \in 1 .. n |-> IF s \in S THEN Pow2[M - D[s]] ELSE 0]
<1>9. ASSUME NEW s \in S
      PROVE  Pow2[M - D[s]] \in Nat /\ Pow2[N - D[s]] = P * Pow2[M - D[s]]
  <2>1. PICK d \in Nat : d = M - D[s]
    BY <1>4
  <2>2. N - M \in Nat /\ N - D[s] = (N - M) + d
    BY <1>4, <2>1
  <2>3. Pow2[(N - M) + d] = Pow2[N - M] * Pow2[d]
    BY <2>2, Pow2Add
  <2>4. Pow2[d] \in Nat
    BY Pow2Is
  <2> QED BY <1>7, <2>1, <2>2, <2>3, <2>4
<1>10. h \in [1 .. n -> Nat] /\ \A s \in S : h[s] = Pow2[M - D[s]]
  BY <1>4, <1>9
<1> HIDE DEF h
<1>11. \A s \in 1 .. n : s \in S => f[s] = P * h[s]
  BY <1>6, <1>9, <1>10
<1>12. PICK q \in Nat : q = SumOver(S, h, n)
  BY <1>10, OnlyIs
<1>13. SumOver(S, f, n) = P * q
  <2>1. f \in [1 .. n -> Nat] /\ h \in [1 .. n -> Nat] /\ P \in Nat
    BY <1>6, <1>10
  <2>2. IsTimes(f, h, S, P, n)
    BY <1>11, <2>1 DEF IsTimes
  <2>3. SumOver(S, f, n) = P * SumOver(S, h, n)
    BY <2>1, <2>2, SumTimed
  <2> QED BY <1>12, <2>3
<1>14. SumOver(R, f, n) = SumOver(S, f, n) + f[a] + f[b]
  <2>1. IsButTwo(S, R, a, b)
    BY <1>1, <1>3 DEF IsButTwo
  <2>2. f \in [1 .. n -> Nat] /\ a \in 1 .. n /\ b \in 1 .. n
    BY <1>1, <1>6
  <2> QED BY <2>1, <2>2, SumButTwo
<1>15. f[b] = P
  BY <1>1, <1>2, <1>6, <1>7
<1>16. PICK z \in Nat \ {0} : f[a] = z
  <2>1. PICK d \in Nat : d = N - D[a]
    BY <1>1
  <2>2. Pow2[d] \in Nat \ {0}
    BY Pow2Is
  <2> QED BY <1>1, <1>6, <2>1, <2>2
<1>17. SumOver(R, f, n) <= Pow2[N]
  BY <1>5 DEF ArePowers, Feasible, Taking
<1>18. P * q + P + z <= P * K
  <2>1. PICK x \in Nat : x = P * q
    OBVIOUS
  <2>2. x + z + P <= Pow2[N]
    BY <1>13, <1>14, <1>15, <1>16, <1>17, <2>1
  <2>3. Pow2[N] \in Nat
    BY Pow2Is
  <2>4. x + P + z <= Pow2[N]
    BY <2>2, <2>3
  <2> QED BY <1>8, <2>1, <2>4
<1>19. P * q + 2 * P <= P * K
  BY <1>18, RoomForTwo
<1>20. ASSUME M = 0 PROVE FALSE
  <2>1. K = 1 /\ P * K = P
    <3>1. K = Pow2[0]
      BY <1>7, <1>20
    <3>2. Pow2[0] = 1
      BY Pow2Is
    <3> QED BY <3>1, <3>2
  <2>2. P * q \in Nat
    OBVIOUS
  <2> QED BY <1>18, <2>1, <2>2
<1>21. ASSUME NEW E \in [1 .. n -> 0 .. N], IsShorter(E, D, a, b, n)
       PROVE  Feasible(R \ {b}, E, n, N)
  <2>1. E[a] = M - 1 /\ \A s \in 1 .. n : s # a => E[s] = D[s]
    BY <1>2, <1>21 DEF IsShorter
  <2>2. PICK g : ArePowers(g, E, n, N)
    BY PowersAre
  <2>3. g \in [1 .. n -> Nat] /\ \A s \in 1 .. n : g[s] = Pow2[N - E[s]]
    BY <2>2 DEF ArePowers
  <2>4. PICK U : U = R \ {b}
    OBVIOUS
  <2>5. a \in U /\ S = U \ {a}
    BY <1>1, <1>3, <2>4
  <2>6. SumOver(U, g, n) = SumOver(S, g, n) + g[a]
    <3>1. IsBut(S, U, a)
      BY <2>5 DEF IsBut
    <3>2. g \in [1 .. n -> Nat] /\ a \in 1 .. n
      BY <1>1, <2>3
    <3> QED BY <3>1, <3>2, SumBut
  <2>7. \A s \in 1 .. n : s \in S => g[s] = f[s]
    <3> SUFFICES ASSUME NEW s \in 1 .. n, s \in S PROVE g[s] = f[s]
      OBVIOUS
    <3>1. s # a
      BY <1>3
    <3>2. E[s] = D[s]
      BY <2>1, <3>1
    <3> QED BY <1>6, <2>3, <3>2
  <2>8. SumOver(S, g, n) = SumOver(S, f, n)
    BY <1>6, <2>3, <2>7, SumSame
  <2>9. g[a] = 2 * P
    <3>1. PICK k \in Nat : k = N - M
      OBVIOUS
    <3>2. k + 1 \in Nat /\ k + 1 # 0 /\ N - (M - 1) = k + 1 /\ (k + 1) - 1 = k
      BY <3>1
    <3>3. Pow2[k + 1] = 2 * Pow2[(k + 1) - 1]
      BY <3>2, Pow2Is
    <3>4. g[a] = Pow2[N - (M - 1)]
      BY <1>1, <2>1, <2>3
    <3> QED BY <1>7, <3>1, <3>2, <3>3, <3>4
  <2>10. SumOver(U, g, n) <= Pow2[N]
    BY <1>8, <1>13, <1>19, <2>6, <2>8, <2>9
  <2> QED BY <2>2, <2>4, <2>10 DEF ArePowers, Feasible, Taking
<1>22. D[b] >= 1
  BY <1>2, <1>20
<1> QED BY <1>21, <1>22

\* a counts for b too.
IsSumOfBoth(V, W, a, b, n) ==
  V[a] = W[a] + W[b] /\ \A s \in 1 .. n : s # a => V[s] = W[s]

AreLengths(D, n, N) == D \in [1 .. n -> 0 .. N]

AreUses(W, n) == W \in [1 .. n -> Nat]

LEMMA MergedCost ==
  ASSUME NEW n \in Nat, NEW N \in Nat, NEW R, Among(R, n), NEW W, AreUses(W, n),
         NEW D, AreLengths(D, n, N), NEW a, NEW b, BothDeepest(D, a, b, R), D[b] >= 1,
         NEW E, AreLengths(E, n, N), IsShorter(E, D, a, b, n),
         NEW V, AreUses(V, n), IsSumOfBoth(V, W, a, b, n)
  PROVE  CostOver(R \ {b}, V, E, n) + W[a] + W[b] <= CostOver(R, W, D, n)
<1>1. a \in 1 .. n /\ b \in 1 .. n /\ a \in R /\ b \in R /\ a # b /\ D[b] <= D[a]
  BY DEF BothDeepest, Among
<1>2. PICK S, U : S = R \ {a, b} /\ U = R \ {b}
  OBVIOUS
<1>3. a \in U /\ S = U \ {a}
  BY <1>1, <1>2
<1>4. PICK u : AreCosts(u, W, D, n)
  BY CostsAre DEF AreLengths, AreUses
<1>5. PICK v : AreCosts(v, V, E, n)
  BY CostsAre DEF AreLengths, AreUses
<1>6. /\ u \in [1 .. n -> Nat] /\ \A s \in 1 .. n : u[s] = W[s] * D[s]
      /\ v \in [1 .. n -> Nat] /\ \A s \in 1 .. n : v[s] = V[s] * E[s]
  BY <1>4, <1>5 DEF AreCosts
<1>7. \A s \in 1 .. n : s \in S => v[s] = u[s]
  BY <1>2, <1>6 DEF IsShorter, IsSumOfBoth
<1>8. SumOver(S, v, n) = SumOver(S, u, n)
  BY <1>6, <1>7, SumSame
<1>9. SumOver(R, u, n) = SumOver(S, u, n) + u[a] + u[b]
  <2>1. IsButTwo(S, R, a, b)
    BY <1>1, <1>2 DEF IsButTwo
  <2>2. u \in [1 .. n -> Nat] /\ a \in 1 .. n /\ b \in 1 .. n
    BY <1>1, <1>6
  <2> QED BY <2>1, <2>2, SumButTwo
<1>10. SumOver(U, v, n) = SumOver(S, v, n) + v[a]
  <2>1. IsBut(S, U, a)
    BY <1>3 DEF IsBut
  <2>2. v \in [1 .. n -> Nat] /\ a \in 1 .. n
    BY <1>1, <1>6
  <2> QED BY <2>1, <2>2, SumBut
<1>11. v[a] + W[a] + W[b] <= u[a] + u[b]
  <2>1. PICK x \in Nat, y \in Nat, p \in Nat, M \in Nat :
          x = W[a] /\ y = W[b] /\ p = D[a] /\ M = D[b] - 1 /\ D[b] = M + 1
    <3>1. D[a] \in Nat /\ D[b] \in Nat /\ W[a] \in Nat /\ W[b] \in Nat
      BY <1>1 DEF AreLengths, AreUses
    <3>2. D[b] - 1 \in Nat /\ D[b] = (D[b] - 1) + 1
      BY <3>1
    <3> QED BY <3>1, <3>2
  <2>2. PICK d \in Nat : p = (M + 1) + d
    <3>1. M + 1 <= p
      BY <1>1, <2>1
    <3>2. p - (M + 1) \in Nat /\ p = (M + 1) + (p - (M + 1))
      BY <3>1
    <3> QED BY <3>2
  <2>3. u[a] = x * p /\ u[b] = y * (M + 1) /\ v[a] = (x + y) * M
    <3>1. V[a] = x + y /\ E[a] = M /\ D[b] = M + 1
      BY <2>1 DEF IsShorter, IsSumOfBoth
    <3> QED BY <1>1, <1>6, <2>1, <3>1
  <2>4. x * p = x * M + x + x * d /\ y * (M + 1) = y * M + y /\ (x + y) * M = x * M + y * M
    BY <2>2
  <2>5. PICK i \in Nat, j \in Nat, k \in Nat : i = x * M /\ j = y * M /\ k = x * d
    OBVIOUS
  <2>6. u[a] = i + x + k /\ u[b] = j + y /\ v[a] = i + j
    BY <2>3, <2>4, <2>5
  <2>7. (i + j) + x + y <= (i + x + k) + (j + y)
    OBVIOUS
  <2> QED BY <2>1, <2>6, <2>7
<1>12. PICK z \in Nat, p \in Nat, q \in Nat, r \in Nat, x \in Nat, y \in Nat :
         /\ z = SumOver(S, u, n) /\ p = u[a] /\ q = u[b] /\ r = v[a]
         /\ x = W[a] /\ y = W[b]
  <2>1. SumOver(S, u, n) \in Nat
    BY <1>6, OnlyIs
  <2>2. u[a] \in Nat /\ u[b] \in Nat /\ v[a] \in Nat /\ W[a] \in Nat /\ W[b] \in Nat
    BY <1>1, <1>6 DEF AreUses
  <2> QED BY <2>1, <2>2
<1>13. SumOver(R, u, n) = z + p + q /\ SumOver(U, v, n) = z + r
  BY <1>8, <1>9, <1>10, <1>12
<1>14. r + x + y <= p + q
  BY <1>11, <1>12
<1>15. (z + r) + x + y <= z + p + q
  BY <1>14
<1>16. SumOver(U, v, n) + x + y <= SumOver(R, u, n)
  BY <1>13, <1>15
<1> QED BY <1>2, <1>4, <1>5, <1>12, <1>16 DEF AreCosts, CostOver

\* E are lengths for S, with x less in costs than D for R.
IsShared(E, S, V, x, D, R, W, n, N) ==
  Feasible(S, E, n, N) /\ CostOver(S, V, E, n) + x <= CostOver(R, W, D, n)

\* The two symbols that are used least can share a code but for its last bit, and nothing
\* is lost.
LEMMA MergeLengths ==
  ASSUME NEW n \in Nat, NEW N \in Nat, NEW R, Among(R, n), NEW W, AreUses(W, n),
         NEW a, NEW b, Rarest(a, b, R, W), NEW V, AreUses(V, n), IsSumOfBoth(V, W, a, b, n),
         NEW D, Feasible(R, D, n, N)
  PROVE  \E E : IsShared(E, R \ {b}, V, W[a] + W[b], D, R, W, n, N)
<1>1. W \in [1 .. n -> Nat] /\ R \subseteq 1 .. n
  BY DEF AreUses, Among
<1>2. PICK F : IsLowest(F, D, a, b, R, W, n, N)
  BY <1>1, Lowest
<1>3. Feasible(R, F, n, N) /\ CostOver(R, W, F, n) <= CostOver(R, W, D, n)
  BY <1>2 DEF IsLowest, AsGood
<1>4. BothDeepest(F, a, b, R)
  BY <1>2 DEF IsLowest, BothDeepest, Rarest
<1>5. F \in [1 .. n -> 0 .. N] /\ D \in [1 .. n -> 0 .. N]
  BY <1>3 DEF Feasible
<1>6. /\ F[b] >= 1
      /\ \A E \in [1 .. n -> 0 .. N] :
           IsShorter(E, F, a, b, n) => Feasible(R \ {b}, E, n, N)
  BY <1>3, <1>4, MergedFits
<1>7. a \in 1 .. n /\ b \in 1 .. n
  BY <1>1, <1>4 DEF BothDeepest
<1>8. PICK m \in 0 .. N : m = F[b] - 1
  BY <1>5, <1>6, <1>7
<1>9. PICK E : E = [F EXCEPT ![a] = m]
  OBVIOUS
<1>10. E \in [1 .. n -> 0 .. N] /\ IsShorter(E, F, a, b, n)
  BY <1>5, <1>7, <1>8, <1>9 DEF IsShorter
<1>11. Feasible(R \ {b}, E, n, N)
  BY <1>6, <1>10
<1>12. CostOver(R \ {b}, V, E, n) + W[a] + W[b] <= CostOver(R, W, F, n)
  BY <1>4, <1>5, <1>6, <1>10, MergedCost DEF AreLengths
<1>13. CostOver(R \ {b}, V, E, n) + (W[a] + W[b]) <= CostOver(R, W, D, n)
  <2>1. V \in [1 .. n -> Nat]
    BY DEF AreUses
  <2>2. PICK x \in Nat, y \in Nat, z \in Nat, u \in Nat, v \in Nat :
          /\ x = CostOver(R \ {b}, V, E, n) /\ y = W[a] /\ z = W[b]
          /\ u = CostOver(R, W, F, n) /\ v = CostOver(R, W, D, n)
    BY <1>1, <1>5, <1>7, <1>10, <2>1, TakingNat
  <2>3. x + y + z <= u /\ u <= v
    BY <1>3, <1>12, <2>2
  <2>4. x + (y + z) <= v
    BY <2>3
  <2> QED BY <2>2, <2>4
<1>14. IsShared(E, R \ {b}, V, W[a] + W[b], D, R, W, n, N)
  BY <1>11, <1>13 DEF IsShared
<1> QED BY <1>14

(***************************************************************************)
(* One symbol for every root.                                              *)
(***************************************************************************)
\* R has one leaf of each subtree, and every symbol that is not in one; W are the uses of
\* their roots.
IsReps(R, W, h, i) ==
  /\ Among(R, Len(uses)) /\ AreUses(W, Len(uses))
  /\ \A t \in h : \E r \in R : R \cap t.leaves = {r} /\ W[r] = t.uses
  /\ \A s \in i .. Len(uses) : s \in R /\ W[s] = uses[s]
  /\ \A r \in R : r >= i \/ \E t \in h : r \in t.leaves

\* a stands for the root x that was taken.
IsRep(a, x, R, W) ==
  a \in R /\ R \cap x.leaves = {a} /\ W[a] = x.uses /\ \A s \in R : W[a] <= W[s]

LEMMA RepsTook ==
  ASSUME UsesOK, NEW h, NEW i, NEW M, NEW m, Pool(h, i, M, m), NEW x, Took(x, h, i),
         NEW R, NEW W, IsReps(R, W, h, i)
  PROVE  \E a : IsRep(a, x, R, W) /\ IsReps(R \ {a}, W, x.heap, x.next)
<1>1. PICK n \in Nat : n = Len(uses)
  BY UsesAre
<1>2. /\ i \in 1 .. n + 1 /\ h \subseteq Subtree
      /\ \A t, o \in h : t # o => t.leaves \cap o.leaves = {}
      /\ \A t \in h : t.leaves \subseteq 1 .. i - 1
  BY <1>1 DEF Pool
<1>3. /\ R \subseteq 1 .. n /\ W \in [1 .. n -> Nat]
      /\ \A t \in h : \E r \in R : R \cap t.leaves = {r} /\ W[r] = t.uses
      /\ \A s \in i .. n : s \in R /\ W[s] = uses[s]
      /\ \A r \in R : r >= i \/ \E t \in h : r \in t.leaves
  BY <1>1 DEF IsReps, Among, AreUses
<1>4. /\ AtLeast(x.heap, x.next, x.uses) /\ x.uses \in Nat
  BY AtLeastTook
<1>5. PICK a : /\ a \in R /\ R \cap x.leaves = {a} /\ W[a] = x.uses
               /\ \A t \in x.heap : t \in h /\ a \notin t.leaves
               /\ \A s \in x.next .. n : s \in i .. n /\ s # a
               /\ \A r \in R \ {a} : r >= x.next \/ \E t \in x.heap : r \in t.leaves
  <2>1. CASE TookSymbol(x, h, i)
    <3>1. /\ i \in 1 .. n /\ x.leaves = {i} /\ x.uses = uses[i]
          /\ x.heap = h /\ x.next = i + 1
      BY <1>1, <2>1 DEF TookSymbol
    <3>2. i \in R /\ W[i] = uses[i]
      BY <1>3, <3>1
    <3>3. R \cap x.leaves = {i}
      BY <3>1, <3>2
    <3>4. \A t \in x.heap : t \in h /\ i \notin t.leaves
      BY <1>2, <3>1
    <3>5. \A s \in x.next .. n : s \in i .. n /\ s # i
      BY <3>1
    <3>6. ASSUME NEW r \in R \ {i} PROVE r >= x.next \/ \E t \in x.heap : r \in t.leaves
      <4>1. r \in 1 .. n /\ (r >= i \/ \E t \in h : r \in t.leaves)
        BY <1>3
      <4>2. r >= i => r >= i + 1
        BY <3>1, <4>1
      <4> QED BY <3>1, <4>1, <4>2
    <3> QED BY <3>1, <3>2, <3>3, <3>4, <3>5, <3>6
  <2>2. ASSUME NEW t \in h, TookTree(x, h, i, t)
        PROVE  \E b : /\ b \in R /\ R \cap x.leaves = {b} /\ W[b] = x.uses
                      /\ \A o \in x.heap : o \in h /\ b \notin o.leaves
                      /\ \A s \in x.next .. n : s \in i .. n /\ s # b
                      /\ \A r \in R \ {b} : r >= x.next \/ \E o \in x.heap : r \in o.leaves
    <3>1. x.leaves = t.leaves /\ x.uses = t.uses /\ x.heap = h \ {t} /\ x.next = i
      BY <2>2 DEF TookTree
    <3>2. PICK b \in R : R \cap t.leaves = {b} /\ W[b] = t.uses
      BY <1>3
    <3>3. b \in t.leaves /\ b \in 1 .. i - 1
      BY <1>2, <3>2
    <3>4. \A o \in x.heap : o \in h /\ b \notin o.leaves
      BY <1>2, <3>1, <3>3
    <3>5. \A s \in x.next .. n : s \in i .. n /\ s # b
      BY <1>2, <3>1, <3>3
    <3>6. ASSUME NEW r \in R \ {b} PROVE r >= x.next \/ \E o \in x.heap : r \in o.leaves
      <4>1. r >= i \/ \E o \in h : r \in o.leaves
        BY <1>3
      <4>2. r \notin t.leaves
        BY <3>2
      <4> QED BY <3>1, <4>1, <4>2
    <3> QED BY <3>1, <3>2, <3>4, <3>5, <3>6
  <2>3. TookSymbol(x, h, i) \/ \E t \in h : TookTree(x, h, i, t)
    BY DEF Took
  <2> QED BY <2>1, <2>2, <2>3
<1>6. PICK Q : Q = R \ {a}
  OBVIOUS
<1>7. \A t \in x.heap : \E r \in Q : Q \cap t.leaves = {r} /\ W[r] = t.uses
  <2> SUFFICES ASSUME NEW t \in x.heap PROVE \E r \in Q : Q \cap t.leaves = {r} /\ W[r] = t.uses
    OBVIOUS
  <2>1. t \in h /\ a \notin t.leaves
    BY <1>5
  <2>2. PICK r \in R : R \cap t.leaves = {r} /\ W[r] = t.uses
    BY <1>3, <2>1
  <2>3. r \in Q /\ Q \cap t.leaves = {r}
    BY <1>6, <2>1, <2>2
  <2> QED BY <2>2, <2>3
<1>8. \A s \in x.next .. n : s \in Q /\ W[s] = uses[s]
  BY <1>3, <1>5, <1>6
<1>9. \A r \in Q : r >= x.next \/ \E t \in x.heap : r \in t.leaves
  BY <1>5, <1>6
<1>10. Q \subseteq 1 .. n
  BY <1>3, <1>6
<1>11. IsReps(Q, W, x.heap, x.next)
  BY <1>1, <1>3, <1>7, <1>8, <1>9, <1>10 DEF IsReps, Among, AreUses
<1>12. \A s \in R : W[a] <= W[s]
  <2> SUFFICES ASSUME NEW s \in R PROVE W[a] <= W[s]
    OBVIOUS
  <2>1. CASE s = a
    BY <1>4, <1>5, <2>1
  <2>2. CASE s # a
    <3>1. s \in Q /\ s \in 1 .. n
      BY <1>3, <1>6, <2>2
    <3>2. CASE s >= x.next
      <4>1. x.next \in Nat
        BY AtLeastTook
      <4>2. s \in x.next .. n
        BY <1>1, <3>1, <3>2, <4>1
      <4>3. W[s] = uses[s] /\ uses[s] >= x.uses
        BY <1>1, <1>4, <1>8, <4>2 DEF AtLeast
      <4> QED BY <1>5, <4>3
    <3>3. CASE \E t \in x.heap : s \in t.leaves
      <4>1. PICK t \in x.heap : s \in t.leaves
        BY <3>3
      <4>2. PICK r \in Q : Q \cap t.leaves = {r} /\ W[r] = t.uses
        BY <1>7
      <4>3. s = r
        BY <3>1, <4>1, <4>2
      <4>4. t.uses >= x.uses
        BY <1>4 DEF AtLeast
      <4> QED BY <1>5, <4>2, <4>3, <4>4
    <3> QED BY <1>9, <3>1, <3>2, <3>3
  <2> QED BY <2>1, <2>2
<1>13. IsRep(a, x, R, W)
  BY <1>5, <1>12 DEF IsRep
<1> QED BY <1>6, <1>11, <1>13

\* Two roots were taken, which a and b stand for; a stands for what they become.
LEMMA RepsJoined ==
  ASSUME UsesOK, NEW x, NEW y, NEW g, NEW k, NEW m, Pool(g, k, x.leaves \cup y.leaves, m),
         NEW R, NEW W, NEW a, NEW b, IsReps((R \ {a}) \ {b}, W, g, k),
         Among(R, Len(uses)), IsRep(a, x, R, W), IsRep(b, y, R \ {a}, W),
         NEW V, AreUses(V, Len(uses)), IsSumOfBoth(V, W, a, b, Len(uses)),
         NEW r, IsJoin(r, x, y, m)
  PROVE  IsReps(R \ {b}, V, g \cup {r}, k)
<1>1. PICK n \in Nat : n = Len(uses)
  BY UsesAre
<1>2. PICK M : M = x.leaves \cup y.leaves
  OBVIOUS
<1>3. M \subseteq 1 .. k - 1 /\ \A t \in g : t.leaves \subseteq (1 .. k - 1) \ M
  BY <1>2 DEF Pool
<1>4. PICK Q : Q = (R \ {a}) \ {b}
  OBVIOUS
<1>5. PICK U : U = R \ {b}
  OBVIOUS
<1>6. /\ Q \subseteq 1 .. n /\ W \in [1 .. n -> Nat]
      /\ \A t \in g : \E s \in Q : Q \cap t.leaves = {s} /\ W[s] = t.uses
      /\ \A s \in k .. n : s \in Q /\ W[s] = uses[s]
      /\ \A s \in Q : s >= k \/ \E t \in g : s \in t.leaves
  BY <1>1, <1>4 DEF IsReps, Among, AreUses
<1>7. /\ a \in R /\ R \cap x.leaves = {a} /\ W[a] = x.uses
      /\ b \in R \ {a} /\ (R \ {a}) \cap y.leaves = {b} /\ W[b] = y.uses
  BY DEF IsRep
<1>8. R \subseteq 1 .. n /\ U \subseteq 1 .. n
  BY <1>1, <1>5 DEF Among
<1>9. V \in [1 .. n -> Nat] /\ V[a] = W[a] + W[b] /\ \A s \in 1 .. n : s # a => V[s] = W[s]
  BY <1>1 DEF AreUses, IsSumOfBoth
<1>10. U = Q \cup {a} /\ a \notin Q
  BY <1>4, <1>5, <1>7
<1>11. r.leaves = M /\ r.uses = x.uses + y.uses
  BY <1>2 DEF IsJoin
<1>12. a \in M /\ a \in 1 .. k - 1
  BY <1>2, <1>3, <1>7
<1>13. U \cap r.leaves = {a}
  <2>1. a \in U /\ a \in r.leaves
    BY <1>10, <1>11, <1>12
  <2>2. ASSUME NEW s \in U, s \in r.leaves PROVE s = a
    <3>1. s \in R /\ s # b /\ (s \in x.leaves \/ s \in y.leaves)
      BY <1>2, <1>5, <1>11, <2>2
    <3>2. s \in x.leaves => s = a
      BY <1>7, <3>1
    <3>3. s \in y.leaves => s = a
      BY <1>7, <3>1
    <3> QED BY <3>1, <3>2, <3>3
  <2> QED BY <2>1, <2>2
<1>14. \E s \in U : U \cap r.leaves = {s} /\ V[s] = r.uses
  BY <1>7, <1>9, <1>10, <1>11, <1>13
<1>15. ASSUME NEW t \in g
       PROVE  \E s \in U : U \cap t.leaves = {s} /\ V[s] = t.uses
  <2>1. PICK s \in Q : Q \cap t.leaves = {s} /\ W[s] = t.uses
    BY <1>6
  <2>2. a \notin t.leaves
    BY <1>3, <1>12
  <2>3. U \cap t.leaves = {s} /\ s \in U
    BY <1>10, <2>1, <2>2
  <2>4. V[s] = W[s]
    BY <1>6, <1>9, <1>10
  <2> QED BY <2>1, <2>3, <2>4
<1>16. ASSUME NEW s \in k .. n PROVE s \in U /\ V[s] = uses[s]
  <2>1. s \in Q /\ W[s] = uses[s]
    BY <1>6
  <2> QED BY <1>6, <1>9, <1>10, <2>1
<1>17. ASSUME NEW s \in U PROVE s >= k \/ \E t \in g \cup {r} : s \in t.leaves
  BY <1>6, <1>10, <1>11, <1>12
<1>18. \A t \in g \cup {r} : \E s \in U : U \cap t.leaves = {s} /\ V[s] = t.uses
  BY <1>14, <1>15
<1>19. IsReps(U, V, g \cup {r}, k)
  BY <1>1, <1>8, <1>9, <1>16, <1>17, <1>18 DEF IsReps, Among, AreUses
<1> QED BY <1>5, <1>19

(***************************************************************************)
(* How long the codes are, and what they cost.                             *)
(***************************************************************************)
\* The lengths of codes.
Lens(c) == [s \in Symbol |-> Len(c[s])]

LEMMA LensAre ==
  ASSUME TreeInv
  PROVE  /\ AreLengths(Lens(codeOf), Len(uses), MaxSymbols)
         /\ \A s \in Symbol : Lens(codeOf)[s] = Len(codeOf[s]) /\ codeOf[s] \in Seq(Bit)
<1>1. UsesOK /\ Pool(heap, nextSym, {}, Made) /\ Codes(heap, nextSym, codeOf) /\ Roots >= 1
  BY DEF TreeInv
<1>2. PICK n \in Nat : n = Len(uses) /\ n <= MaxSymbols /\ Symbol = 1 .. n
  BY <1>1, UsesAre
<1>3. Cardinality(heap) \in Nat /\ nextSym \in Nat /\ Made \in Nat
  BY <1>1, Counts
<1>4. Made <= n - 1
  <2>1. Roots = Cardinality(heap) + n + 1 - nextSym /\ Made = nextSym - 1 - Cardinality(heap)
    BY <1>2 DEF Roots, Made
  <2> QED BY <1>1, <1>3, <2>1
<1>5. ASSUME NEW s \in Symbol PROVE codeOf[s] \in Seq(Bit) /\ Len(codeOf[s]) \in 0 .. MaxSymbols
  <2>1. codeOf[s] \in Seq(Bit) /\ Len(codeOf[s]) \in Nat
    BY <1>1 DEF Codes
  <2>2. MaxSymbols \in Nat
    BY SymbolsAssumption
  <2>3. CASE s >= nextSym
    <3>1. Len(codeOf[s]) = 0
      BY <1>1, <2>3 DEF Codes
    <3> QED BY <2>1, <2>2, <3>1
  <2>4. CASE ~(s >= nextSym)
    <3>1. s \in (1 .. nextSym - 1) \ {}
      BY <1>2, <1>3, <2>4
    <3>2. PICK t \in heap : s \in t.leaves
      BY <1>1, <3>1 DEF Pool
    <3>3. t.made < Made /\ t.made \in Nat
      BY <1>1 DEF Pool, Subtree
    <3>4. Len(codeOf[s]) <= t.made + 1
      BY <1>1, <3>2 DEF Codes
    <3>5. Len(codeOf[s]) <= MaxSymbols
      BY <1>2, <1>3, <1>4, <2>1, <2>2, <3>3, <3>4
    <3> QED BY <2>1, <2>2, <3>5
  <2> QED BY <2>3, <2>4
<1>6. Lens(codeOf) \in [1 .. n -> 0 .. MaxSymbols]
  BY <1>2, <1>5 DEF Lens
<1>7. \A s \in Symbol : Lens(codeOf)[s] = Len(codeOf[s])
  BY DEF Lens
<1> QED BY <1>2, <1>5, <1>6, <1>7 DEF AreLengths

\* The symbols of Q have a bit more in e than in d.
IsLonger(e, d, Q, n) == \A s \in 1 .. n : e[s] = d[s] + IF s \in Q THEN 1 ELSE 0

CostOf(d, n) == Total(Costs(uses, d, n))

LEMMA LongerCost ==
  ASSUME UsesOK, NEW n \in Nat, n = Len(uses), NEW N \in Nat, NEW d, AreLengths(d, n, N),
         NEW e, AreLengths(e, n, N), NEW Q, IsLonger(e, d, Q, n)
  PROVE  CostOf(e, n) = CostOf(d, n) + UsesIn(Q)
<1>1. Symbol = 1 .. n /\ uses \in [1 .. n -> Nat]
  BY UsesAre
<1>2. d \in [1 .. n -> 0 .. N] /\ e \in [1 .. n -> 0 .. N]
  BY DEF AreLengths
<1>3. PICK f : AreCosts(f, uses, d, n)
  BY <1>1, <1>2, CostsAre
<1>4. PICK h : AreCosts(h, uses, e, n)
  BY <1>1, <1>2, CostsAre
<1>5. PICK g : g = [s \in Symbol |-> IF s \in Q THEN uses[s] ELSE 0]
  OBVIOUS
<1>6. g \in [1 .. n -> Nat] /\ \A s \in 1 .. n : g[s] = IF s \in Q THEN uses[s] ELSE 0
  BY <1>1, <1>5
<1>7. f \in [1 .. n -> Nat] /\ h \in [1 .. n -> Nat]
  BY <1>3, <1>4 DEF AreCosts
<1>8. ASSUME NEW s \in 1 .. n PROVE h[s] = f[s] + g[s]
  <2>1. PICK x \in Nat, p \in Nat, q \in Nat : x = uses[s] /\ p = d[s] /\ q = e[s]
    BY <1>1, <1>2
  <2>2. f[s] = x * p /\ h[s] = x * q
    BY <1>3, <1>4, <2>1 DEF AreCosts
  <2>3. CASE s \in Q
    <3>1. q = p + 1 /\ g[s] = x
      BY <1>6, <2>1, <2>3 DEF IsLonger
    <3>2. x * (p + 1) = x * p + x
      OBVIOUS
    <3> QED BY <2>2, <3>1, <3>2
  <2>4. CASE s \notin Q
    <3>1. q = p /\ g[s] = 0
      BY <1>6, <2>1, <2>4 DEF IsLonger
    <3>2. x * p \in Nat
      OBVIOUS
    <3> QED BY <2>2, <3>1, <3>2
  <2> QED BY <2>3, <2>4
<1>9. AreAdded(h, f, g, n)
  <2>1. g \in [1 .. n -> Nat]
    BY <1>6
  <2> QED BY <1>7, <1>8, <2>1 DEF AreAdded
<1>10. Total(h) = Total(f) + Total(g)
  BY <1>9, TotalAdd
<1> QED BY <1>3, <1>4, <1>5, <1>10 DEF AreCosts, CostOf, UsesIn

\* Codes that are a bit longer take half as much.
LEMMA LongerTaking ==
  ASSUME NEW n \in Nat, NEW N \in Nat, NEW d, AreLengths(d, n, N), NEW e, AreLengths(e, n, N),
         NEW Q, IsLonger(e, d, Q, n), NEW L, L \subseteq Q
  PROVE  Taking(L, d, n, N) = 2 * Taking(L, e, n, N)
<1>1. d \in [1 .. n -> 0 .. N] /\ e \in [1 .. n -> 0 .. N]
  BY DEF AreLengths
<1>2. PICK f : ArePowers(f, d, n, N)
  BY <1>1, PowersAre
<1>3. PICK g : ArePowers(g, e, n, N)
  BY <1>1, PowersAre
<1>4. ASSUME NEW s \in 1 .. n, s \in L PROVE f[s] = 2 * g[s]
  <2>1. s \in Q /\ e[s] = d[s] + 1
    <3>1. s \in Q
      BY <1>4
    <3>2. e[s] = d[s] + IF s \in Q THEN 1 ELSE 0
      BY DEF IsLonger
    <3> QED BY <3>1, <3>2
  <2>2. PICK k \in Nat : k = N - e[s]
    BY <1>1
  <2>3. N - d[s] = k + 1 /\ k + 1 \in Nat /\ k + 1 # 0 /\ (k + 1) - 1 = k
    BY <1>1, <2>1, <2>2
  <2>4. Pow2[k + 1] = 2 * Pow2[(k + 1) - 1]
    BY <2>3, Pow2Is
  <2>5. f[s] = Pow2[N - d[s]] /\ g[s] = Pow2[N - e[s]]
    BY <1>2, <1>3 DEF ArePowers
  <2> QED BY <2>2, <2>3, <2>4, <2>5
<1>5. f \in [1 .. n -> Nat] /\ g \in [1 .. n -> Nat]
  BY <1>2, <1>3 DEF ArePowers
<1>6. PICK c \in Nat : c = 2
  OBVIOUS
<1>7. SumOver(L, f, n) = 2 * SumOver(L, g, n)
  <2>1. IsTimes(f, g, L, c, n)
    BY <1>4, <1>5, <1>6 DEF IsTimes
  <2>2. SumOver(L, f, n) = c * SumOver(L, g, n)
    BY <2>1, SumTimed
  <2> QED BY <1>6, <2>2
<1> QED BY <1>2, <1>3, <1>7 DEF ArePowers, Taking

LEMMA SameTaking ==
  ASSUME NEW n \in Nat, NEW N \in Nat, NEW d, AreLengths(d, n, N), NEW e, AreLengths(e, n, N),
         NEW Q, IsLonger(e, d, Q, n), NEW L, L \cap Q = {}
  PROVE  Taking(L, e, n, N) = Taking(L, d, n, N)
<1>1. d \in [1 .. n -> 0 .. N] /\ e \in [1 .. n -> 0 .. N]
  BY DEF AreLengths
<1>2. PICK f : ArePowers(f, d, n, N)
  BY <1>1, PowersAre
<1>3. PICK g : ArePowers(g, e, n, N)
  BY <1>1, PowersAre
<1>4. ASSUME NEW s \in 1 .. n, s \in L PROVE g[s] = f[s]
  <2>1. s \notin Q
    BY <1>4
  <2>2. e[s] = d[s] + IF s \in Q THEN 1 ELSE 0
    BY DEF IsLonger
  <2>3. e[s] = d[s]
    BY <1>1, <2>1, <2>2
  <2> QED BY <1>2, <1>3, <2>3 DEF ArePowers
<1>5. Only(L, g, n) = Only(L, f, n)
  BY <1>4 DEF Only
<1> QED BY <1>2, <1>3, <1>5 DEF ArePowers, Taking, SumOver

\* Two roots that take everything each are one that does, when their codes are a bit
\* longer.
LEMMA BothTaking ==
  ASSUME NEW n \in Nat, NEW N \in Nat, NEW d, AreLengths(d, n, N), NEW e, AreLengths(e, n, N),
         NEW L, NEW K, L \cap K = {}, IsLonger(e, d, L \cup K, n),
         Taking(L, d, n, N) = Pow2[N], Taking(K, d, n, N) = Pow2[N]
  PROVE  Taking(L \cup K, e, n, N) = Pow2[N]
<1>1. PICK Q : Q = L \cup K
  OBVIOUS
<1>2. IsLonger(e, d, Q, n) /\ L \subseteq Q /\ K \subseteq Q
  BY <1>1
<1>3. Taking(L, d, n, N) = 2 * Taking(L, e, n, N)
  BY <1>2, LongerTaking
<1>4. Taking(K, d, n, N) = 2 * Taking(K, e, n, N)
  BY <1>2, LongerTaking
<1>5. e \in [1 .. n -> 0 .. N]
  BY DEF AreLengths
<1>6. PICK g : ArePowers(g, e, n, N)
  BY <1>5, PowersAre
<1>7. g \in [1 .. n -> Nat]
  BY <1>6 DEF ArePowers
<1>8. IsSplit(Q, L, K, n)
  BY <1>1 DEF IsSplit
<1>9. SumOver(Q, g, n) = SumOver(L, g, n) + SumOver(K, g, n)
  BY <1>7, <1>8, SumSplit
<1>10. SumOver(L, g, n) \in Nat /\ SumOver(K, g, n) \in Nat
  BY <1>7, OnlyIs
<1>11. /\ Taking(L, e, n, N) = SumOver(L, g, n) /\ Taking(K, e, n, N) = SumOver(K, g, n)
       /\ Taking(Q, e, n, N) = SumOver(Q, g, n)
  BY <1>6 DEF ArePowers, Taking
<1>12. PICK x \in Nat, y \in Nat : x = SumOver(L, g, n) /\ y = SumOver(K, g, n)
  BY <1>10
<1>13. Pow2[N] = 2 * x /\ Pow2[N] = 2 * y
  BY <1>3, <1>4, <1>11, <1>12
<1>14. x + y = Pow2[N]
  BY <1>13
<1>15. Taking(Q, e, n, N) = x + y
  BY <1>9, <1>11, <1>12
<1> QED BY <1>1, <1>14, <1>15

\* Every subtree has all the codes there are.
KraftIn(h, d) ==
  \A t \in h : Taking(t.leaves, d, Len(uses), MaxSymbols) = Pow2[MaxSymbols]

LEMMA KraftTook ==
  ASSUME UsesOK, NEW h, NEW i, NEW x, Took(x, h, i), i >= 1, i \in Nat,
         NEW d, AreLengths(d, Len(uses), MaxSymbols), KraftIn(h, d),
         \A s \in Symbol : s >= i => d[s] = 0
  PROVE  /\ Taking(x.leaves, d, Len(uses), MaxSymbols) = Pow2[MaxSymbols]
         /\ KraftIn(x.heap, d)
<1>1. PICK n \in Nat : n = Len(uses) /\ Symbol = 1 .. n
  BY UsesAre
<1>2. MaxSymbols \in Nat
  BY SymbolsAssumption
<1>3. CASE TookSymbol(x, h, i)
  <2>1. i \in 1 .. n /\ x.leaves = {i} /\ x.heap = h
    BY <1>1, <1>3 DEF TookSymbol
  <2>2. d \in [1 .. n -> 0 .. MaxSymbols] /\ d[i] = 0
    BY <1>1, <2>1 DEF AreLengths
  <2>3. PICK f : ArePowers(f, d, n, MaxSymbols)
    BY <1>2, <2>2, PowersAre
  <2>4. f \in [1 .. n -> Nat]
    BY <2>3 DEF ArePowers
  <2>5. SumOver({i}, f, n) = f[i]
    BY <2>1, <2>4, SumOne
  <2>6. f[i] = Pow2[MaxSymbols]
    <3>1. f[i] = Pow2[MaxSymbols - d[i]] /\ MaxSymbols - 0 = MaxSymbols
      BY <1>2, <2>1, <2>3 DEF ArePowers
    <3> QED BY <2>2, <3>1
  <2>7. Taking({i}, d, n, MaxSymbols) = Pow2[MaxSymbols]
    BY <2>3, <2>5, <2>6 DEF ArePowers, Taking
  <2> QED BY <1>1, <2>1, <2>7
<1>4. CASE \E t \in h : TookTree(x, h, i, t)
  <2>1. PICK t \in h : x.leaves = t.leaves /\ x.heap = h \ {t}
    BY <1>4 DEF TookTree
  <2> QED BY <2>1 DEF KraftIn
<1> QED BY <1>3, <1>4 DEF Took

LEMMA KraftJoined ==
  ASSUME UsesOK, NEW x, NEW y, NEW g, NEW k, NEW m, Pool(g, k, x.leaves \cup y.leaves, m),
         x.leaves \cap y.leaves = {},
         NEW d, AreLengths(d, Len(uses), MaxSymbols),
         NEW e, AreLengths(e, Len(uses), MaxSymbols),
         IsLonger(e, d, x.leaves \cup y.leaves, Len(uses)), KraftIn(g, d),
         Taking(x.leaves, d, Len(uses), MaxSymbols) = Pow2[MaxSymbols],
         Taking(y.leaves, d, Len(uses), MaxSymbols) = Pow2[MaxSymbols],
         NEW r, IsJoin(r, x, y, m)
  PROVE  KraftIn(g \cup {r}, e)
<1>1. PICK n \in Nat : n = Len(uses)
  BY UsesAre
<1>2. PICK L, K, Q : L = x.leaves /\ K = y.leaves /\ Q = x.leaves \cup y.leaves
  OBVIOUS
<1>3. MaxSymbols \in Nat
  BY SymbolsAssumption
<1>4. PICK N \in Nat : N = MaxSymbols
  BY <1>3
<1>5. /\ AreLengths(d, n, N) /\ AreLengths(e, n, N) /\ IsLonger(e, d, L \cup K, n)
      /\ IsLonger(e, d, Q, n) /\ L \cap K = {}
      /\ Taking(L, d, n, N) = Pow2[N] /\ Taking(K, d, n, N) = Pow2[N]
  BY <1>1, <1>2, <1>4
<1>6. Taking(L \cup K, e, n, N) = Pow2[N]
  BY <1>5, BothTaking
<1>7. r.leaves = L \cup K
  BY <1>2 DEF IsJoin
<1>8. ASSUME NEW t \in g PROVE Taking(t.leaves, e, n, N) = Pow2[N]
  <2>1. t.leaves \cap Q = {}
    BY <1>2 DEF Pool
  <2>2. PICK T : T = t.leaves
    OBVIOUS
  <2>3. T \cap Q = {}
    BY <2>1, <2>2
  <2>4. Taking(T, e, n, N) = Taking(T, d, n, N)
    BY <1>5, <2>3, SameTaking
  <2>5. Taking(t.leaves, d, n, N) = Pow2[N]
    BY <1>1, <1>4 DEF KraftIn
  <2> QED BY <2>2, <2>4, <2>5
<1>9. ASSUME NEW t \in g \cup {r} PROVE Taking(t.leaves, e, n, N) = Pow2[N]
  <2>1. CASE t \in g
    BY <1>8, <2>1
  <2>2. CASE t = r
    BY <1>6, <1>7, <2>2
  <2> QED BY <2>1, <2>2
<1> QED BY <1>1, <1>4, <1>9 DEF KraftIn

\* Whatever lengths D all symbols could have had, those of the roots could still be such
\* that the codes cost no more.
IsServed(R, W, d) ==
  \A D : Feasible(1 .. Len(uses), D, Len(uses), MaxSymbols) =>
    \E E : /\ Feasible(R, E, Len(uses), MaxSymbols)
           /\ CostOf(d, Len(uses)) + CostOver(R, W, E, Len(uses)) <= CostOf(D, Len(uses))

LEMMA CostNat ==
  ASSUME UsesOK, NEW d, AreLengths(d, Len(uses), MaxSymbols)
  PROVE  CostOf(d, Len(uses)) \in Nat
<1>1. PICK n \in Nat : n = Len(uses) /\ uses \in [1 .. n -> Nat]
  BY UsesAre
<1>2. d \in [1 .. n -> 0 .. MaxSymbols] /\ MaxSymbols \in Nat
  BY <1>1, SymbolsAssumption DEF AreLengths
<1>3. PICK f : AreCosts(f, uses, d, n)
  BY <1>1, <1>2, CostsAre
<1>4. f \in [1 .. n -> Nat] /\ f = Costs(uses, d, n)
  BY <1>3 DEF AreCosts
<1>5. Total(f) \in Nat
  BY <1>4, TotalNat
<1> QED BY <1>1, <1>4, <1>5 DEF CostOf

LEMMA ServedJoined ==
  ASSUME UsesOK, NEW R, Among(R, Len(uses)), NEW W, AreUses(W, Len(uses)),
         NEW a, NEW b, Rarest(a, b, R, W),
         NEW V, AreUses(V, Len(uses)), IsSumOfBoth(V, W, a, b, Len(uses)),
         NEW d, AreLengths(d, Len(uses), MaxSymbols),
         NEW e, CostOf(e, Len(uses)) = CostOf(d, Len(uses)) + (W[a] + W[b]),
         IsServed(R, W, d)
  PROVE  IsServed(R \ {b}, V, e)
<1>1. PICK n \in Nat : n = Len(uses)
  BY UsesAre
<1>2. PICK N \in Nat : N = MaxSymbols
  BY SymbolsAssumption
<1>3. Among(R, n) /\ AreUses(W, n) /\ AreUses(V, n) /\ IsSumOfBoth(V, W, a, b, n)
  BY <1>1
<1>4. a \in 1 .. n /\ b \in 1 .. n /\ W \in [1 .. n -> Nat] /\ V \in [1 .. n -> Nat]
  BY <1>3 DEF Rarest, Among, AreUses
<1>5. ASSUME NEW D, Feasible(1 .. n, D, n, N)
      PROVE  \E F : /\ Feasible(R \ {b}, F, n, N)
                    /\ CostOf(e, n) + CostOver(R \ {b}, V, F, n) <= CostOf(D, n)
  <2>1. PICK E : Feasible(R, E, n, N) /\ CostOf(d, n) + CostOver(R, W, E, n) <= CostOf(D, n)
    BY <1>1, <1>2, <1>5 DEF IsServed
  <2>2. PICK F : IsShared(F, R \ {b}, V, W[a] + W[b], E, R, W, n, N)
    BY <1>3, <2>1, MergeLengths
  <2>3. /\ Feasible(R \ {b}, F, n, N)
        /\ CostOver(R \ {b}, V, F, n) + (W[a] + W[b]) <= CostOver(R, W, E, n)
    BY <2>2 DEF IsShared
  <2>4. /\ E \in [1 .. n -> 0 .. N] /\ F \in [1 .. n -> 0 .. N]
        /\ AreLengths(D, Len(uses), MaxSymbols)
    BY <1>1, <1>2, <1>5, <2>1, <2>3 DEF Feasible, AreLengths
  <2>5. CostOf(d, n) \in Nat /\ CostOf(D, n) \in Nat
    BY <1>1, <2>4, CostNat
  <2>6. CostOver(R, W, E, n) \in Nat /\ CostOver(R \ {b}, V, F, n) \in Nat
    BY <1>4, <2>4, TakingNat
  <2>7. PICK x \in Nat, y \in Nat, z \in Nat, u \in Nat, v \in Nat, w \in Nat :
          /\ x = CostOf(d, n) /\ y = CostOver(R, W, E, n) /\ z = CostOf(D, n)
          /\ u = CostOver(R \ {b}, V, F, n) /\ v = W[a] /\ w = W[b]
    BY <1>4, <2>5, <2>6
  <2>8. x + y <= z /\ u + (v + w) <= y
    BY <2>1, <2>3, <2>7
  <2>9. (x + (v + w)) + u <= z
    BY <2>8
  <2>10. CostOf(e, n) = x + (v + w)
    BY <1>1, <2>7
  <2>11. CostOf(e, n) + CostOver(R \ {b}, V, F, n) <= CostOf(D, n)
    BY <2>7, <2>9, <2>10
  <2> QED BY <2>3, <2>11
<1> QED BY <1>1, <1>2, <1>5 DEF IsServed

\* The roots have all the codes there are, and nothing is lost yet.
OptInv ==
  /\ KraftIn(heap, Lens(codeOf))
  /\ \E R, W : IsReps(R, W, heap, nextSym) /\ IsServed(R, W, Lens(codeOf))

LEMMA OptInit ==
  HuffInit => OptInv
<1>1. SUFFICES ASSUME HuffInit PROVE OptInv
  OBVIOUS
<1>2. TreeInv
  BY <1>1, TreeInit
<1>3. PICK n \in Nat : n = Len(uses) /\ Symbol = 1 .. n /\ uses \in [1 .. n -> Nat]
  BY <1>2, UsesAre DEF TreeInv
<1>4. PICK N \in Nat : N = MaxSymbols
  BY SymbolsAssumption
<1>5. heap = {} /\ nextSym = 1 /\ codeOf = [s \in Symbol |-> <<>>]
  BY <1>1 DEF HuffInit
<1>6. PICK R, W, d : R = 1 .. n /\ W = uses /\ d = Lens(codeOf)
  OBVIOUS
<1>7. IsReps(R, W, heap, nextSym)
  <2>1. Among(R, n) /\ AreUses(W, n)
    BY <1>3, <1>6 DEF Among, AreUses
  <2>2. \A s \in 1 .. n : s \in R /\ W[s] = uses[s]
    BY <1>6
  <2>3. \A r \in R : r >= 1
    BY <1>6
  <2> QED BY <1>3, <1>5, <2>1, <2>2, <2>3 DEF IsReps
<1>8. AreLengths(d, n, N) /\ \A s \in 1 .. n : d[s] = 0
  <2>1. AreLengths(d, n, N) /\ \A s \in 1 .. n : d[s] = Len(codeOf[s])
    BY <1>2, <1>3, <1>4, <1>6, LensAre
  <2>2. \A s \in 1 .. n : Len(codeOf[s]) = 0
    <3>1. Len(<<>>) = 0
      OBVIOUS
    <3> QED BY <1>3, <1>5, <3>1
  <2> QED BY <2>1, <2>2
<1>9. CostOf(d, n) = 0
  <2>1. d \in [1 .. n -> 0 .. N]
    BY <1>8 DEF AreLengths
  <2>2. PICK f : AreCosts(f, uses, d, n)
    BY <1>3, <2>1, CostsAre
  <2>3. f \in [1 .. n -> Nat] /\ f = Costs(uses, d, n)
    BY <2>2 DEF AreCosts
  <2>4. ASSUME NEW s \in 1 .. n PROVE f[s] = 0
    <3>1. f[s] = uses[s] * d[s] /\ d[s] = 0 /\ uses[s] \in Nat
      BY <1>3, <1>8, <2>2 DEF AreCosts
    <3> QED BY <3>1
  <2>5. Total(f) = 0
    BY <2>3, <2>4, TotalZero
  <2> QED BY <2>3, <2>5 DEF CostOf
<1>10. ASSUME NEW D, Feasible(1 .. n, D, n, N)
       PROVE  \E E : Feasible(R, E, n, N) /\ CostOf(d, n) + CostOver(R, W, E, n) <= CostOf(D, n)
  <2>1. D \in [1 .. n -> 0 .. N]
    BY <1>10 DEF Feasible
  <2>2. PICK f : AreCosts(f, uses, D, n)
    BY <1>3, <2>1, CostsAre
  <2>3. f \in [1 .. n -> Nat] /\ f = Costs(uses, D, n)
    BY <2>2 DEF AreCosts
  <2>4. 1 .. n \subseteq R
    BY <1>6
  <2>5. SumOver(R, f, n) = Total(f) /\ Total(f) \in Nat
    BY <2>3, <2>4, SumAll, TotalNat
  <2>6. CostOver(R, W, D, n) = CostOf(D, n) /\ CostOf(D, n) \in Nat
    BY <1>6, <2>3, <2>5 DEF CostOver, CostOf
  <2>7. CostOf(d, n) + CostOver(R, W, D, n) <= CostOf(D, n)
    BY <1>9, <2>6
  <2>8. Feasible(R, D, n, N)
    BY <1>6, <1>10
  <2> QED BY <2>7, <2>8
<1>11. IsServed(R, W, d)
  BY <1>3, <1>4, <1>10 DEF IsServed
<1>12. KraftIn(heap, d)
  BY <1>5 DEF KraftIn
<1> QED BY <1>6, <1>7, <1>11, <1>12 DEF OptInv

\* The leaves of the two roots that are combined.
LEMMA StepLeaves ==
  ASSUME TreeInv, NEW zero, NEW one, NEW r, IsStep(zero, one, r)
  PROVE  zero.leaves \cap one.leaves = {} /\ zero.leaves \subseteq Symbol /\ one.leaves \subseteq Symbol
<1>1. UsesOK /\ Pool(heap, nextSym, {}, Made)
  BY DEF TreeInv
<1>2. PICK h, i, m, f, j, L : /\ h = heap /\ i = nextSym /\ m = Made /\ f = zero.heap
                              /\ j = zero.next /\ L = zero.leaves
  OBVIOUS
<1>3. Pool(h, i, {}, m) /\ Took(zero, h, i) /\ Pool(f, j, L, m) /\ Took(one, f, j)
  BY <1>1, <1>2 DEF IsStep
<1>4. zero.leaves \subseteq Symbol
  BY <1>1, <1>3, PoolTook
<1>5. one.leaves \cap L = {} /\ one.leaves \subseteq Symbol
  BY <1>1, <1>3, PoolTook
<1> QED BY <1>2, <1>4, <1>5

LEMMA LensNow ==
  TreeInv => AreLengths(Lens(codeOf), Len(uses), MaxSymbols)
BY LensAre

LEMMA LensNext ==
  TreeInv' => AreLengths(Lens(codeOf), Len(uses), MaxSymbols)'
BY LensNow, PTL

\* The codes of those leaves are a bit longer then.
LEMMA StepLens ==
  ASSUME TreeInv, TreeInv', NEW zero, NEW one, NEW r, IsStep(zero, one, r)
  PROVE  \E e : /\ e = Lens(codeOf)' /\ AreLengths(e, Len(uses), MaxSymbols)
                /\ IsLonger(e, Lens(codeOf), zero.leaves \cup one.leaves, Len(uses))
<1>1. PICK n \in Nat : n = Len(uses) /\ Symbol = 1 .. n
  BY UsesAre DEF TreeInv
<1>2. uses' = uses /\ codeOf' = NewCodes(codeOf, zero.leaves, one.leaves)
  BY DEF IsStep
<1>3. PICK d : d = Lens(codeOf)
  OBVIOUS
<1>4. PICK e : e = Lens(codeOf)'
  OBVIOUS
<1>5. \A s \in Symbol : d[s] = Len(codeOf[s]) /\ codeOf[s] \in Seq(Bit)
  BY <1>3, LensAre
<1>6. AreLengths(Lens(codeOf), Len(uses), MaxSymbols)' /\ Symbol' = Symbol
  BY <1>2, LensNext DEF Symbol
<1>7. AreLengths(e, n, MaxSymbols)
  BY <1>1, <1>2, <1>4, <1>6 DEF AreLengths
<1>8. \A s \in Symbol : e[s] = Len(codeOf'[s])
  BY <1>4, <1>6 DEF Lens
<1>9. ASSUME NEW s \in Symbol
      PROVE  e[s] = d[s] + IF s \in zero.leaves \cup one.leaves THEN 1 ELSE 0
  <2>1. codeOf'[s] = IF s \in zero.leaves THEN AddBit(0, codeOf[s])
                     ELSE IF s \in one.leaves THEN AddBit(1, codeOf[s]) ELSE codeOf[s]
    BY <1>2 DEF NewCodes
  <2>2. PICK a \in Seq(Bit) : a = codeOf[s]
    BY <1>5
  <2>3. 0 \in Bit /\ 1 \in Bit
    BY DEF Bit
  <2>4. Len(AddBit(0, a)) = Len(a) + 1 /\ Len(AddBit(1, a)) = Len(a) + 1 /\ Len(a) \in Nat
    BY <2>3, AddBitIs
  <2>5. e[s] = Len(codeOf'[s]) /\ d[s] = Len(a)
    BY <1>5, <1>8, <2>2
  <2>6. CASE s \in zero.leaves
    BY <2>1, <2>2, <2>4, <2>5, <2>6
  <2>7. CASE s \notin zero.leaves /\ s \in one.leaves
    BY <2>1, <2>2, <2>4, <2>5, <2>7
  <2>8. CASE s \notin zero.leaves /\ s \notin one.leaves
    <3>1. s \notin zero.leaves \cup one.leaves
      BY <2>8
    <3>2. e[s] = d[s] /\ d[s] \in Nat
      BY <2>1, <2>2, <2>4, <2>5, <2>8
    <3> QED BY <3>1, <3>2
  <2> QED BY <2>6, <2>7, <2>8
<1>10. IsLonger(e, d, zero.leaves \cup one.leaves, n)
  BY <1>1, <1>9 DEF IsLonger
<1> QED BY <1>1, <1>3, <1>4, <1>7, <1>10

\* What combining two roots leaves: the subtrees h, one symbol for each, and codes of
\* lengths e.
StepKeeps(h, i, e) ==
  /\ heap' = h /\ nextSym' = i /\ uses' = uses /\ e = Lens(codeOf)'
  /\ KraftIn(h, e)
  /\ \E R, W : IsReps(R, W, h, i) /\ IsServed(R, W, e)

LEMMA OptJoin ==
  ASSUME TreeInv, OptInv, Combine
  PROVE  \E h, i, e : StepKeeps(h, i, e)
<1>1. TreeInv'
  BY CombineIs
<1>2. PICK x, y, r : IsStep(x, y, r)
  BY CombineIs
<1>3. PICK h, i, m, c : h = heap /\ i = nextSym /\ m = Made /\ c = codeOf
  OBVIOUS
<1>4. PICK f, j, g, k : f = x.heap /\ j = x.next /\ g = y.heap /\ k = y.next
  OBVIOUS
<1>5. UsesOK /\ Pool(h, i, {}, m) /\ Codes(h, i, c)
  BY <1>3 DEF TreeInv
<1>6. /\ Took(x, h, i) /\ Took(y, f, j) /\ Pool(f, j, x.leaves, m)
      /\ Pool(g, k, x.leaves \cup y.leaves, m) /\ IsJoin(r, x, y, m)
      /\ RootCodes(x, c, m) /\ RootCodes(y, c, m)
      /\ heap' = g \cup {r} /\ nextSym' = k /\ uses' = uses
  BY <1>2, <1>3, <1>4 DEF IsStep
<1>7. Codes(f, j, c)
  BY <1>4, <1>5, <1>6, CodesTook
<1>8. PICK d : d = Lens(codeOf)
  OBVIOUS
<1>9. AreLengths(d, Len(uses), MaxSymbols) /\ \A s \in Symbol : d[s] = Len(c[s])
  BY <1>3, <1>8, LensAre
<1>10. PICK e : /\ e = Lens(codeOf)' /\ AreLengths(e, Len(uses), MaxSymbols)
                /\ IsLonger(e, d, x.leaves \cup y.leaves, Len(uses))
  BY <1>1, <1>2, <1>8, StepLens
<1>11. x.leaves \cap y.leaves = {}
  BY <1>2, StepLeaves
<1>12. PICK R, W : IsReps(R, W, h, i) /\ IsServed(R, W, d)
  BY <1>3, <1>8 DEF OptInv
<1>13. PICK a : IsRep(a, x, R, W) /\ IsReps(R \ {a}, W, f, j)
  BY <1>4, <1>5, <1>6, <1>12, RepsTook
<1>14. PICK S : S = R \ {a}
  OBVIOUS
<1>15. PICK b : IsRep(b, y, S, W) /\ IsReps(S \ {b}, W, g, k)
  BY <1>4, <1>5, <1>6, <1>13, <1>14, RepsTook
<1>16. Among(R, Len(uses)) /\ AreUses(W, Len(uses))
  BY <1>12 DEF IsReps
<1>17. Rarest(a, b, R, W)
  BY <1>13, <1>14, <1>15 DEF IsRep, Rarest
<1>18. PICK p \in Nat, q \in Nat : p = W[a] /\ q = W[b] /\ p = x.uses /\ q = y.uses
  <2>1. W[a] \in Nat /\ W[b] \in Nat
    BY <1>16, <1>17 DEF Rarest, Among, AreUses
  <2> QED BY <1>13, <1>15, <2>1 DEF IsRep
<1>19. PICK V : AreUses(V, Len(uses)) /\ IsSumOfBoth(V, W, a, b, Len(uses))
  <2>1. p + q \in Nat /\ a \in 1 .. Len(uses)
    BY <1>16, <1>17 DEF Among, Rarest
  <2> DEFINE v == [W EXCEPT ![a] = p + q]
  <2>2. AreUses(v, Len(uses))
    BY <1>16, <2>1 DEF AreUses
  <2>3. IsSumOfBoth(v, W, a, b, Len(uses))
    BY <1>16, <1>18, <2>1 DEF AreUses, IsSumOfBoth
  <2> QED BY <2>2, <2>3
<1>20. CostOf(e, Len(uses)) = CostOf(d, Len(uses)) + (W[a] + W[b])
  <2>1. PICK n \in Nat : n = Len(uses)
    BY <1>5, UsesAre
  <2>2. PICK N \in Nat : N = MaxSymbols
    BY SymbolsAssumption
  <2>3. PICK L, K, Q : L = x.leaves /\ K = y.leaves /\ Q = L \cup K
    OBVIOUS
  <2>4. AreLengths(d, n, N) /\ AreLengths(e, n, N) /\ IsLonger(e, d, Q, n)
    BY <1>9, <1>10, <2>1, <2>2, <2>3
  <2>5. CostOf(e, n) = CostOf(d, n) + UsesIn(Q)
    BY <1>5, <2>1, <2>4, LongerCost
  <2>6. L \cap K = {}
    BY <1>11, <2>3
  <2>7. UsesIn(L \cup K) = UsesIn(L) + UsesIn(K)
    BY <1>5, <2>6, UsesInBoth
  <2>8. UsesIn(L) = p /\ UsesIn(K) = q
    BY <1>6, <1>18, <2>3 DEF RootCodes
  <2> QED BY <1>18, <2>1, <2>3, <2>5, <2>7, <2>8
<1>21. IsServed(R \ {b}, V, e)
  BY <1>5, <1>9, <1>12, <1>16, <1>17, <1>19, <1>20, ServedJoined
<1>22. IsReps(R \ {b}, V, g \cup {r}, k)
  <2>1. IsReps((R \ {a}) \ {b}, W, g, k) /\ IsRep(b, y, R \ {a}, W)
    BY <1>14, <1>15
  <2> QED BY <1>5, <1>6, <1>13, <1>16, <1>19, <2>1, RepsJoined
<1>23. i \in Nat /\ i >= 1 /\ j \in Nat /\ j >= 1
  BY <1>5, <1>6, Counts
<1>24. /\ \A s \in Symbol : s >= i => d[s] = 0
       /\ \A s \in Symbol : s >= j => d[s] = 0
  <2>1. Len(<<>>) = 0
    OBVIOUS
  <2> QED BY <1>5, <1>7, <1>9, <2>1 DEF Codes
<1>25. KraftIn(h, d)
  BY <1>3, <1>8 DEF OptInv
<1>26. Taking(x.leaves, d, Len(uses), MaxSymbols) = Pow2[MaxSymbols] /\ KraftIn(f, d)
  BY <1>4, <1>5, <1>6, <1>9, <1>23, <1>24, <1>25, KraftTook
<1>27. Taking(y.leaves, d, Len(uses), MaxSymbols) = Pow2[MaxSymbols] /\ KraftIn(g, d)
  BY <1>4, <1>5, <1>6, <1>9, <1>23, <1>24, <1>26, KraftTook
<1>28. KraftIn(g \cup {r}, e)
  BY <1>5, <1>6, <1>9, <1>10, <1>11, <1>26, <1>27, KraftJoined
<1>29. StepKeeps(g \cup {r}, k, e)
  BY <1>6, <1>10, <1>21, <1>22, <1>28 DEF StepKeeps
<1> QED BY <1>29

LEMMA OptStep ==
  ASSUME TreeInv, OptInv, Combine
  PROVE  OptInv'
<1>1. PICK h, i, e : StepKeeps(h, i, e)
  BY OptJoin
<1>2. PICK R, W : IsReps(R, W, h, i) /\ IsServed(R, W, e)
  BY <1>1 DEF StepKeeps
<1>3. uses' = uses /\ heap' = h /\ nextSym' = i /\ e = Lens(codeOf)'
  BY <1>1 DEF StepKeeps
<1>4. KraftIn(heap, Lens(codeOf))'
  <2>1. KraftIn(h, e)
    BY <1>1 DEF StepKeeps
  <2> QED BY <1>3, <2>1 DEF KraftIn
<1>5. IsReps(R, W, heap, nextSym)'
  BY <1>2, <1>3 DEF IsReps
<1>6. IsServed(R, W, Lens(codeOf))'
  BY <1>2, <1>3 DEF IsServed, CostOf, Costs
<1> QED BY <1>4, <1>5, <1>6 DEF OptInv

LEMMA OptSteps ==
  ASSUME TreeInv, OptInv, [HuffNext]_huffVars
  PROVE  OptInv'
<1>1. CASE Combine
  BY <1>1, OptStep
<1>2. ASSUME UNCHANGED tree PROVE OptInv'
  <2>1. uses' = uses /\ heap' = heap /\ nextSym' = nextSym /\ codeOf' = codeOf
    BY <1>2 DEF tree
  <2>2. Lens(codeOf)' = Lens(codeOf)
    BY <2>1 DEF Lens, Symbol
  <2>3. PICK R, W : IsReps(R, W, heap, nextSym) /\ IsServed(R, W, Lens(codeOf))
    BY DEF OptInv
  <2>4. KraftIn(heap, Lens(codeOf))
    BY DEF OptInv
  <2>5. KraftIn(heap, Lens(codeOf))'
    BY <2>1, <2>2, <2>4 DEF KraftIn
  <2>6. IsReps(R, W, heap, nextSym)'
    BY <2>1, <2>3 DEF IsReps
  <2>7. IsServed(R, W, Lens(codeOf))'
    BY <2>1, <2>2, <2>3 DEF IsServed, CostOf, Costs
  <2> QED BY <2>5, <2>6, <2>7 DEF OptInv
<1>3. CASE WriteDictionary
  BY <1>2, <1>3 DEF WriteDictionary
<1>4. CASE ReadDictionary
  BY <1>2, <1>4 DEF ReadDictionary
<1>5. CASE Open
  BY <1>2, <1>5 DEF Open
<1>6. CASE Encode
  BY <1>2, <1>6 DEF Encode
<1>7. CASE Step
  BY <1>2, <1>7 DEF Step
<1>8. CASE UNCHANGED huffVars
  BY <1>2, <1>8 DEF huffVars
<1> QED BY <1>1, <1>3, <1>4, <1>5, <1>6, <1>7, <1>8 DEF HuffNext

\* Lengths for n symbols, none longer than the one before it.
Steady(n) == {d \in [1 .. n -> 0 .. MaxSymbols] : \A k \in 2 .. n : d[k] <= d[k - 1]}

\* Those of one symbol more than X are for.
Grown(X, n) ==
  UNION {{Append(e, x) : x \in 0 .. IF n = 1 THEN MaxSymbols ELSE e[n - 1]} : e \in X}

LEMMA SteadyNone ==
  Steady(0) = {<<>>}
<1>1. MaxSymbols \in Nat
  BY SymbolsAssumption
<1>2. <<>> \in [1 .. 0 -> 0 .. MaxSymbols]
  OBVIOUS
<1>3. \A d \in [1 .. 0 -> 0 .. MaxSymbols] : d = <<>>
  OBVIOUS
<1>4. 2 .. 0 = {}
  OBVIOUS
<1> QED BY <1>2, <1>3, <1>4 DEF Steady

LEMMA SteadyNext ==
  ASSUME NEW n \in Nat, n >= 1, n <= MaxSymbols
  PROVE  Grown(Steady(n - 1), n) = Steady(n)
<1>1. PICK N \in Nat : N = MaxSymbols
  BY SymbolsAssumption
<1>2. PICK m \in Nat : m = n - 1 /\ n = m + 1
  <2>1. n - 1 \in Nat /\ n = (n - 1) + 1
    OBVIOUS
  <2> QED BY <2>1
<1>3. ASSUME NEW e \in [1 .. m -> 0 .. N], NEW x \in 0 .. N
      PROVE  /\ Append(e, x) \in [1 .. n -> 0 .. N]
             /\ \A k \in 1 .. m : Append(e, x)[k] = e[k]
             /\ Append(e, x)[n] = x
  <2>1. e \in Seq(0 .. N) /\ Len(e) = m
    BY <1>2
  <2>2. PICK p : p = Append(e, x)
    OBVIOUS
  <2>3. p \in Seq(0 .. N) /\ Len(p) = n /\ p[n] = x /\ \A k \in 1 .. m : p[k] = e[k]
    BY <1>2, <2>1, <2>2
  <2>4. p \in [1 .. n -> 0 .. N]
    BY <2>3
  <2> QED BY <2>2, <2>3, <2>4
<1>4. ASSUME NEW e \in Steady(m), NEW x \in 0 .. IF n = 1 THEN N ELSE e[n - 1]
      PROVE  Append(e, x) \in Steady(n)
  <2>1. e \in [1 .. m -> 0 .. N] /\ \A k \in 2 .. m : e[k] <= e[k - 1]
    BY <1>1 DEF Steady
  <2>2. x \in 0 .. N /\ (n # 1 => x <= e[m])
    <3>1. CASE n = 1
      BY <3>1
    <3>2. CASE n # 1
      <4>1. m \in 1 .. m
        BY <1>2, <3>2
      <4>2. PICK y \in Nat : y = e[m] /\ y <= N
        BY <2>1, <4>1
      <4>3. x \in 0 .. y
        BY <1>2, <3>2, <4>2
      <4> QED BY <4>2, <4>3
    <3> QED BY <3>1, <3>2
  <2>3. /\ Append(e, x) \in [1 .. n -> 0 .. N]
        /\ \A k \in 1 .. m : Append(e, x)[k] = e[k]
        /\ Append(e, x)[n] = x
    BY <1>3, <2>1, <2>2
  <2>4. ASSUME NEW k \in 2 .. n PROVE Append(e, x)[k] <= Append(e, x)[k - 1]
    <3>1. k - 1 \in 1 .. m /\ Append(e, x)[k - 1] = e[k - 1]
      <4>1. k - 1 \in 1 .. m
        BY <1>2
      <4> QED BY <2>3, <4>1
    <3>2. CASE k = n
      BY <1>2, <2>2, <2>3, <3>1, <3>2
    <3>3. CASE k # n
      <4>1. k \in 1 .. m /\ k \in 2 .. m
        BY <1>2, <3>3
      <4> QED BY <2>1, <2>3, <3>1, <4>1
    <3> QED BY <3>2, <3>3
  <2> QED BY <1>1, <2>3, <2>4 DEF Steady
<1>5. ASSUME NEW d \in Steady(n)
      PROVE  \E e \in Steady(m) : \E x \in 0 .. IF n = 1 THEN N ELSE e[n - 1] : d = Append(e, x)
  <2>1. d \in [1 .. n -> 0 .. N] /\ \A k \in 2 .. n : d[k] <= d[k - 1]
    BY <1>1 DEF Steady
  <2>2. PICK e : e = [k \in 1 .. m |-> d[k]]
    OBVIOUS
  <2>3. e \in [1 .. m -> 0 .. N] /\ \A k \in 1 .. m : e[k] = d[k]
    <3>1. \A k \in 1 .. m : k \in 1 .. n
      BY <1>2
    <3> QED BY <2>1, <2>2, <3>1
  <2>4. e \in Steady(m)
    <3>1. ASSUME NEW k \in 2 .. m PROVE e[k] <= e[k - 1]
      <4>1. k \in 1 .. m /\ k - 1 \in 1 .. m /\ k \in 2 .. n
        BY <1>2
      <4> QED BY <2>1, <2>3, <4>1
    <3> QED BY <1>1, <2>3, <3>1 DEF Steady
  <2>5. PICK x \in 0 .. N : x = d[n]
    <3>1. n \in 1 .. n
      BY <1>2
    <3> QED BY <2>1, <3>1
  <2>6. x \in 0 .. IF n = 1 THEN N ELSE e[n - 1]
    <3>1. CASE n = 1
      BY <3>1
    <3>2. CASE n # 1
      <4>1. m \in 1 .. m /\ n \in 2 .. n /\ n - 1 = m
        BY <1>2, <3>2
      <4>2. d[n] <= d[m] /\ e[m] = d[m] /\ e[m] \in 0 .. N
        BY <2>1, <2>3, <4>1
      <4>3. x \in 0 .. e[m]
        BY <2>5, <4>2
      <4> QED BY <3>2, <4>1, <4>3
    <3> QED BY <3>1, <3>2
  <2>7. d = Append(e, x)
    <3>1. PICK p : p = Append(e, x)
      OBVIOUS
    <3>2. /\ p \in [1 .. n -> 0 .. N]
          /\ \A k \in 1 .. m : p[k] = e[k]
          /\ p[n] = x
      BY <1>3, <2>3, <3>1
    <3>3. ASSUME NEW k \in 1 .. n PROVE d[k] = p[k]
      <4>1. CASE k = n
        BY <2>5, <3>2, <4>1
      <4>2. CASE k \in 1 .. m
        BY <2>3, <3>2, <4>2
      <4> QED BY <1>2, <4>1, <4>2
    <3>4. d = p
      BY <2>1, <3>2, <3>3
    <3> QED BY <3>1, <3>4
  <2> QED BY <2>4, <2>6, <2>7
<1>6. ASSUME NEW d \in Grown(Steady(m), n) PROVE d \in Steady(n)
  <2>1. PICK e \in Steady(m) : d \in {Append(e, x) : x \in 0 .. IF n = 1 THEN N ELSE e[n - 1]}
    BY <1>1 DEF Grown
  <2>2. PICK x \in 0 .. IF n = 1 THEN N ELSE e[n - 1] : d = Append(e, x)
    BY <2>1
  <2> QED BY <1>4, <2>2
<1>7. ASSUME NEW d \in Steady(n) PROVE d \in Grown(Steady(m), n)
  <2>1. PICK e \in Steady(m) : \E x \in 0 .. IF n = 1 THEN N ELSE e[n - 1] : d = Append(e, x)
    BY <1>5
  <2>2. d \in {Append(e, x) : x \in 0 .. IF n = 1 THEN N ELSE e[n - 1]}
    BY <2>1
  <2> QED BY <1>1, <2>2 DEF Grown
<1>8. Grown(Steady(m), n) = Steady(n)
  BY <1>6, <1>7
<1> QED BY <1>2, <1>8

LEMMA LengthsAreSteady ==
  \A n \in 0 .. MaxSymbols : Lengths[n] = Steady(n)
<1> DEFINE rec(f) == f = [n \in 0 .. MaxSymbols |-> IF n = 0 THEN {<<>>} ELSE Grown(f[n - 1], n)]
<1>1. MaxSymbols \in Nat
  BY SymbolsAssumption
<1>2. PICK g : g = [n \in 0 .. MaxSymbols |-> Steady(n)]
  OBVIOUS
<1>3. rec(g)
  <2>1. ASSUME NEW n \in 0 .. MaxSymbols
        PROVE  g[n] = IF n = 0 THEN {<<>>} ELSE Grown(g[n - 1], n)
    <3>1. g[n] = Steady(n)
      BY <1>2
    <3>2. CASE n = 0
      BY <3>1, <3>2, SteadyNone
    <3>3. CASE n # 0
      <4>1. n \in Nat /\ n >= 1 /\ n <= MaxSymbols /\ n - 1 \in 0 .. MaxSymbols
        BY <1>1, <3>3
      <4>2. g[n - 1] = Steady(n - 1)
        BY <1>2, <4>1
      <4>3. Grown(Steady(n - 1), n) = Steady(n)
        BY <4>1, SteadyNext
      <4> QED BY <3>1, <3>3, <4>2, <4>3
    <3> QED BY <3>2, <3>3
  <2>2. g = [n \in 0 .. MaxSymbols |-> g[n]]
    BY <1>2
  <2> QED BY <2>1, <2>2
<1>4. Lengths = CHOOSE f : rec(f)
  BY DEF Lengths, Grown
<1>5. PICK f : f = Lengths
  OBVIOUS
<1>6. rec(f)
  <2>1. rec(CHOOSE o : rec(o))
    <3> HIDE DEF rec
    <3> QED BY <1>3
  <2> QED BY <1>4, <1>5, <2>1
<1>7. \A n \in 0 .. MaxSymbols : f[n] = IF n = 0 THEN {<<>>} ELSE Grown(f[n - 1], n)
  BY <1>6
<1> HIDE DEF rec
<1> DEFINE T == {n \in 0 .. MaxSymbols : f[n] = Steady(n)}
<1>8. 0 \in T
  <2>1. 0 \in 0 .. MaxSymbols
    BY <1>1
  <2> QED BY <1>7, <2>1, SteadyNone
<1>9. ASSUME NEW n \in 1 .. MaxSymbols, n - 1 \in T PROVE n \in T
  <2>1. n \in Nat /\ n >= 1 /\ n <= MaxSymbols /\ n \in 0 .. MaxSymbols /\ n # 0
    BY <1>1
  <2>2. f[n - 1] = Steady(n - 1)
    BY <1>9
  <2>3. Grown(Steady(n - 1), n) = Steady(n)
    BY <2>1, SteadyNext
  <2>4. f[n] = Grown(f[n - 1], n)
    BY <1>7, <2>1
  <2> QED BY <2>1, <2>2, <2>3, <2>4
<1> HIDE DEF T
<1>10. \A n \in 0 .. MaxSymbols : n \in T
  BY <1>1, <1>8, <1>9, Upto
<1> QED BY <1>5, <1>10 DEF T

\* What the bound and the cost of lengths are in terms of sums over the symbols.
LEMMA KraftIs ==
  ASSUME NEW n \in Nat, n = Len(uses), Symbol = 1 .. n, NEW D, AreLengths(D, n, MaxSymbols)
  PROVE  /\ Cost(D) = CostOf(D, n)
         /\ Kraft(D) <=> Feasible(1 .. n, D, n, MaxSymbols)
         /\ Kraft(D) <=> Taking(1 .. n, D, n, MaxSymbols) <= Pow2[MaxSymbols]
<1>1. PICK N \in Nat : N = MaxSymbols
  BY SymbolsAssumption
<1>2. D \in [1 .. n -> 0 .. N]
  BY <1>1 DEF AreLengths
<1>3. Cost(D) = CostOf(D, n)
  BY DEF Cost, CostOf, Costs
<1>4. PICK f : ArePowers(f, D, n, N)
  BY <1>2, PowersAre
<1>5. f \in [1 .. n -> Nat] /\ f = Powers(D, n, N)
  BY <1>4 DEF ArePowers
<1>6. 1 .. n \subseteq 1 .. n
  OBVIOUS
<1>7. SumOver(1 .. n, f, n) = Total(f)
  BY <1>5, <1>6, SumAll
<1>8. Taking(1 .. n, D, n, N) = Total(f)
  BY <1>5, <1>7 DEF Taking
<1>9. Kraft(D) <=> Total(Powers(D, n, N)) <= Pow2[N]
  BY <1>1 DEF Kraft, Powers
<1>10. Kraft(D) <=> Taking(1 .. n, D, n, N) <= Pow2[N]
  BY <1>5, <1>8, <1>9
<1> QED BY <1>1, <1>2, <1>3, <1>10 DEF Feasible

\* The codes of a tree that is done are not too short.
LEMMA DoneFits ==
  ASSUME TreeInv, OptInv, NEW n, IsDone(n)
  PROVE  Kraft(Lens(codeOf))
<1>1. PICK N \in Nat : N = MaxSymbols
  BY SymbolsAssumption
<1>2. PICK d : d = Lens(codeOf)
  OBVIOUS
<1>3. n \in Nat /\ n = Len(uses) /\ Symbol = 1 .. n /\ n >= 1
  BY DEF IsDone
<1>4. AreLengths(d, n, N) /\ \A s \in 1 .. n : d[s] = Len(codeOf[s])
  BY <1>1, <1>2, <1>3, LensAre
<1>5. Taking(1 .. n, d, n, N) = Pow2[N]
  <2>1. CASE n = 1
    <3>1. d[1] = 0 /\ 1 \in 1 .. n
      <4>1. 1 \in 1 .. n
        BY <2>1
      <4>2. Len(codeOf[1]) \in 0 .. n - 1
        BY <4>1 DEF IsDone
      <4> QED BY <1>4, <2>1, <4>1, <4>2
    <3>2. PICK f : ArePowers(f, d, n, N)
      <4>1. d \in [1 .. n -> 0 .. N]
        BY <1>4 DEF AreLengths
      <4> QED BY <1>1, <1>3, <4>1, PowersAre
    <3>3. f \in [1 .. n -> Nat] /\ f = Powers(d, n, N) /\ f[1] = Pow2[N - d[1]]
      BY <3>1, <3>2 DEF ArePowers
    <3>4. f[1] = Pow2[N]
      BY <1>1, <3>1, <3>3
    <3>5. SumOver({1}, f, n) = f[1]
      BY <1>3, <3>1, <3>3, SumOne
    <3>6. 1 .. n = {1}
      BY <2>1
    <3> QED BY <3>3, <3>4, <3>5, <3>6 DEF Taking
  <2>2. CASE n # 1
    <3>1. PICK t : heap = {t} /\ t.leaves = 1 .. n
      BY <2>2 DEF IsDone
    <3>2. KraftIn(heap, d)
      BY <1>2 DEF OptInv
    <3>3. Taking(t.leaves, d, n, N) = Pow2[N]
      BY <1>1, <1>3, <3>1, <3>2 DEF KraftIn
    <3> QED BY <3>1, <3>3
  <2> QED BY <2>1, <2>2
<1>6. Taking(1 .. n, d, n, N) <= Pow2[N]
  <2>1. Pow2[N] \in Nat
    BY <1>1, Pow2Is
  <2> QED BY <1>5, <2>1
<1> QED BY <1>1, <1>2, <1>3, <1>4, <1>6, KraftIs

\* No others that are not too short cost less.
LEMMA DoneCosts ==
  ASSUME TreeInv, OptInv, NEW n, IsDone(n), NEW D, AreLengths(D, n, MaxSymbols), Kraft(D)
  PROVE  Cost(Lens(codeOf)) <= Cost(D)
<1>1. PICK N \in Nat : N = MaxSymbols
  BY SymbolsAssumption
<1>2. PICK d : d = Lens(codeOf)
  OBVIOUS
<1>3. n \in Nat /\ n = Len(uses) /\ Symbol = 1 .. n
  BY DEF IsDone
<1>4. AreLengths(d, n, MaxSymbols)
  BY <1>2, <1>3, LensAre
<1>5. Cost(d) = CostOf(d, n)
  BY <1>3, <1>4, KraftIs
<1>6. Cost(D) = CostOf(D, n) /\ Feasible(1 .. n, D, n, MaxSymbols)
  BY <1>3, KraftIs
<1>7. PICK R, W : IsReps(R, W, heap, nextSym) /\ IsServed(R, W, d)
  BY <1>2 DEF OptInv
<1>8. PICK E : /\ Feasible(R, E, n, N)
               /\ CostOf(d, n) + CostOver(R, W, E, n) <= CostOf(D, n)
  BY <1>1, <1>3, <1>6, <1>7 DEF IsServed
<1>9. E \in [1 .. n -> 0 .. N] /\ W \in [1 .. n -> Nat]
  BY <1>3, <1>7, <1>8 DEF Feasible, IsReps, AreUses
<1>10. PICK x \in Nat : x = CostOver(R, W, E, n)
  BY <1>1, <1>3, <1>9, TakingNat
<1>11. UsesOK
  BY DEF TreeInv
<1>12. PICK y \in Nat : y = CostOf(d, n)
  BY <1>3, <1>4, <1>11, CostNat
<1>13. PICK z \in Nat : z = CostOf(D, n)
  BY <1>3, <1>11, CostNat
<1>14. y <= z
  BY <1>8, <1>10, <1>12, <1>13
<1> QED BY <1>2, <1>5, <1>6, <1>12, <1>13, <1>14

LEMMA OptimalNow ==
  ASSUME TreeInv, OptInv
  PROVE  OptimalCode
<1>1. SUFFICES ASSUME stage = "encode"
               PROVE  /\ Kraft(Lens(codeOf))
                      /\ \A D \in Lengths[Len(uses)] :
                           Kraft(D) => Cost(Lens(codeOf)) <= Cost(D)
  BY DEF OptimalCode, Lens
<1>2. PICK n : IsDone(n)
  <2>1. Roots = 1
    BY <1>1 DEF TreeInv
  <2> QED BY <2>1, TreeDone
<1>3. n \in Nat /\ n = Len(uses) /\ n <= MaxSymbols
  BY <1>2 DEF IsDone
<1>4. Kraft(Lens(codeOf))
  BY <1>2, DoneFits
<1>5. ASSUME NEW D \in Lengths[Len(uses)], Kraft(D)
      PROVE  Cost(Lens(codeOf)) <= Cost(D)
  <2>1. Lengths[n] = Steady(n)
    <3>1. n \in 0 .. MaxSymbols
      BY <1>3, SymbolsAssumption
    <3> QED BY <3>1, LengthsAreSteady
  <2>2. D \in Steady(n)
    BY <1>3, <2>1
  <2>3. AreLengths(D, n, MaxSymbols)
    BY <2>2 DEF Steady, AreLengths
  <2> QED BY <1>2, <1>5, <2>3, DoneCosts
<1> QED BY <1>4, <1>5

\* The writer's tree is the best there is: when the dictionary has been read back, the
\* depths are those of codes that can be decoded, and no depths of other codes give a
\* shorter file.  Each step joins the two rarest roots; whatever lengths all symbols
\* could have had, some for the roots that are left cost no more.
THEOREM WritesOptimalCodes ==
  HuffSpec => []OptimalCode
<1>1. HuffInit => TreeInv /\ OptInv
  BY TreeInit, OptInit
<1>2. TreeInv /\ OptInv /\ [HuffNext]_huffVars => (TreeInv /\ OptInv)'
  BY TreeSteps, OptSteps
<1>3. TreeInv /\ OptInv => OptimalCode
  BY OptimalNow
<1> QED BY <1>1, <1>2, <1>3, PTL DEF HuffSpec

=============================================================================
