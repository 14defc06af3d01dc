----------------------------- MODULE BtFileProofs -----------------------------
(***************************************************************************)
(* What a .bt promises, for every width of a word, every distance of the   *)
(* jumps and every plan: get(i) is the i-th offset, a file that opens is a *)
(* whole one, and the nodes are the keys they were made of.                *)
(***************************************************************************)
EXTENDS BtFile, FiniteSetTheorems, WellFoundedInduction, TLAPS

(***************************************************************************)
(* Numbers.                                                                *)
(***************************************************************************)

\* A set of numbers that is not empty has a least one.
LEMMA Least ==
  ASSUME NEW T \in SUBSET Nat, T # {}
  PROVE  \E b \in T : \A y \in T : b <= y
<1> DEFINE R == {ss \in Nat \X Nat : ss[1] < ss[2]}
<1>1. IsWellFoundedOn(R, Nat)
  BY NatLessThanWellFounded DEF OpToRel
<1> HIDE DEF R
<1>2. PICK b \in T : \A y \in T : ~ (<<y, b>> \in R)
  BY <1>1, WFMin
<1>3. \A y \in T : ~ (y < b)
  BY <1>2 DEF R
<1> QED BY <1>3

\* Induction up to n.
LEMMA Upto ==
  ASSUME NEW n \in Nat, NEW T, 0 \in T, \A k \in 1 .. n : k - 1 \in T => k \in T
  PROVE  \A k \in 0 .. n : k \in T
<1> DEFINE Bad == {m \in 0 .. n : m \notin T}
<1>1. Bad \in SUBSET Nat
  OBVIOUS
<1>2. ASSUME Bad # {} PROVE FALSE
  <2>1. PICK m \in Bad : \A y \in Bad : m <= y
    <3> HIDE DEF Bad
    <3> QED BY <1>1, <1>2, Least
  <2>2. m \in 1 .. n /\ m - 1 \notin Bad /\ m - 1 \in 0 .. n
    BY <2>1
  <2> QED BY <2>1, <2>2
<1> QED BY <1>2

\* f is what the steps make of a, one after the other; they stay inside S.
AreSteps(step, n, S) == step \in [1 .. n -> [S -> S]]

AreRounds(f, n, S, a, step) ==
  f \in [0 .. n -> S] /\ f[0] = a /\ \A k \in 1 .. n : f[k] = step[k][f[k - 1]]

LEMMA Rounds ==
  ASSUME NEW n \in Nat, NEW S, NEW a \in S, NEW step, AreSteps(step, n, S)
  PROVE  \E f : AreRounds(f, n, S, a, step)
<1> DEFINE T == {m \in 0 .. n : \E f : AreRounds(f, m, S, a, step)}
<1>1. 0 \in T
  <2>1. AreRounds([k \in 0 .. 0 |-> a], 0, S, a, step)
    BY DEF AreRounds
  <2>2. \E f : AreRounds(f, 0, S, a, step)
    BY <2>1
  <2> QED BY <2>2
<1>2. ASSUME NEW m \in 1 .. n, m - 1 \in T PROVE m \in T
  <2>1. PICK f : AreRounds(f, m - 1, S, a, step)
    BY <1>2
  <2>2. /\ f \in [0 .. m - 1 -> S] /\ f[0] = a
        /\ \A k \in 1 .. m - 1 : f[k] = step[k][f[k - 1]]
    BY <2>1 DEF AreRounds
  <2> DEFINE g == [k \in 0 .. m |-> IF k = m THEN step[m][f[m - 1]] ELSE f[k]]
  <2>3. step[m][f[m - 1]] \in S
    BY <2>2 DEF AreSteps
  <2>4. g \in [0 .. m -> S]
    BY <2>2, <2>3
  <2>5. g[0] = a
    BY <2>2
  <2>6. ASSUME NEW k \in 1 .. m PROVE g[k] = step[k][g[k - 1]]
    <3>1. CASE k = m
      BY <3>1
    <3>2. CASE k # m
      <4>1. k \in 1 .. m - 1 /\ k - 1 \in 0 .. m - 1 /\ k - 1 # m
        BY <3>2
      <4>2. g[k] = f[k] /\ g[k - 1] = f[k - 1]
        BY <4>1
      <4> QED BY <2>2, <4>1, <4>2
    <3> QED BY <3>1, <3>2
  <2>7. AreRounds(g, m, S, a, step)
    <3> HIDE DEF g
    <3> QED BY <2>4, <2>5, <2>6 DEF AreRounds
  <2> HIDE DEF g
  <2> QED BY <2>7
<1>3. n \in T
  <2> HIDE DEF T
  <2> QED BY <1>1, <1>2, Upto
<1> QED BY <1>3

\* Division is what Euclid says it is.
LEMMA Euclid ==
  ASSUME NEW a \in Nat, NEW n \in Nat \ {0}
  PROVE  a = n * (a \div n) + (a % n) /\ a \div n \in Nat /\ a % n \in 0 .. n - 1
<1>1. a = n * (a \div n) + (a % n) /\ a \div n \in Int /\ a % n \in 0 .. n - 1
  BY SMT
<1>2. a \div n \in Nat
  BY SMT
<1> QED BY <1>1, <1>2

LEMMA EuclidUnique ==
  ASSUME NEW a \in Nat, NEW n \in Nat \ {0}, NEW q \in Nat, NEW r \in Nat,
         a = n * q + r, r < n
  PROVE  a \div n = q /\ a % n = r
<1> DEFINE p == a \div n
           s == a % n
<1>1. a = n * p + s /\ p \in Int /\ s \in 0 .. n - 1
  BY Euclid
<1> HIDE DEF p, s
<1>2. \A x, y \in Int : x < y => n * x + n <= n * y
  BY SMT
<1>3. p = q
  BY <1>1, <1>2, SMT
<1>4. s = r
  BY <1>1, <1>3, SMT
<1> QED
  BY <1>3, <1>4 DEF p, s

LEMMA Pow2Is ==
  \A n \in 0 .. WordBits :
    Pow2[n] \in Nat \ {0} /\ Pow2[n] = IF n = 0 THEN 1 ELSE 2 * Pow2[n - 1]
<1>1. PICK N \in Nat : N = WordBits
  BY WordAssumption
<1> DEFINE S == Nat \ {0}
           rec(p) == p = [n \in 0 .. N |-> IF n = 0 THEN 1 ELSE 2 * p[n - 1]]
           step == [k \in 1 .. N |-> [x \in S |-> 2 * x]]
<1>2. AreSteps(step, N, S) /\ 1 \in S
  BY DEF AreSteps
<1>3. PICK f : AreRounds(f, N, S, 1, step)
  <2> HIDE DEF step, S
  <2> QED BY <1>2, Rounds
<1>4. f \in [0 .. N -> S] /\ f[0] = 1 /\ \A k \in 1 .. N : f[k] = step[k][f[k - 1]]
  <2> HIDE DEF step, S
  <2> QED BY <1>3 DEF AreRounds
<1>5. ASSUME NEW k \in 1 .. N PROVE f[k] = 2 * f[k - 1]
  <2>1. f[k - 1] \in S
    BY <1>4
  <2> QED BY <1>4, <2>1
<1>6. f = [n \in 0 .. N |-> IF n = 0 THEN 1 ELSE 2 * f[n - 1]]
  <2>1. ASSUME NEW n \in 0 .. N PROVE f[n] = IF n = 0 THEN 1 ELSE 2 * f[n - 1]
    <3>1. n # 0 => n \in 1 .. N
      BY <1>1
    <3> QED BY <1>4, <1>5, <3>1
  <2> QED BY <1>4, <2>1
<1>7. rec(f)
  BY <1>6
<1>8. Pow2 = CHOOSE p : rec(p)
  BY <1>1 DEF Pow2
<1>9. rec(Pow2)
  <2> HIDE DEF rec
  <2> QED BY <1>7, <1>8
<1>10. \A n \in 0 .. N : Pow2[n] = f[n]
  <2> DEFINE T == {n \in 0 .. N : Pow2[n] = f[n]}
  <2>1. 0 \in T
    BY <1>4, <1>9
  <2>2. ASSUME NEW k \in 1 .. N, k - 1 \in T PROVE k \in T
    <3>1. k \in 0 .. N /\ k # 0
      BY <1>1
    <3>2. Pow2[k] = 2 * Pow2[k - 1]
      BY <1>9, <3>1
    <3> QED BY <1>5, <2>2, <3>1, <3>2
  <2>3. \A k \in 0 .. N : k \in T
    <3> HIDE DEF T
    <3> QED BY <1>1, <2>1, <2>2, Upto
  <2> QED BY <2>3
<1>11. \A n \in 0 .. N : Pow2[n] = IF n = 0 THEN 1 ELSE 2 * Pow2[n - 1]
  BY <1>9
<1> QED BY <1>1, <1>4, <1>10, <1>11

LEMMA Pow2Add ==
  \A a, b \in Nat : a + b <= WordBits => Pow2[a + b] = Pow2[a] * Pow2[b]
<1>1. PICK N \in Nat : N = WordBits
  BY WordAssumption
<1>2. SUFFICES ASSUME NEW a \in 0 .. N
               PROVE  \A b \in 0 .. N - a : Pow2[a + b] = Pow2[a] * Pow2[b]
  BY <1>1
<1>3. \A n \in 0 .. N : Pow2[n] \in Nat /\ Pow2[n] = IF n = 0 THEN 1 ELSE 2 * Pow2[n - 1]
  BY <1>1, Pow2Is
<1> DEFINE T == {b \in 0 .. N - a : Pow2[a + b] = Pow2[a] * Pow2[b]}
<1>4. 0 \in T
  BY <1>3
<1>5. ASSUME NEW b \in 1 .. N - a, b - 1 \in T PROVE b \in T
  <2>1. Pow2[a + b - 1] = Pow2[a] * Pow2[b - 1]
    BY <1>5
  <2>2. a + b \in 0 .. N /\ a + b # 0 /\ b \in 0 .. N /\ b # 0 /\ b - 1 \in 0 .. N
    OBVIOUS
  <2>3. Pow2[a + b] = 2 * Pow2[a + b - 1] /\ Pow2[b] = 2 * Pow2[b - 1]
    BY <1>3, <2>2
  <2>4. \A x, y \in Int : 2 * (x * y) = x * (2 * y)
    OBVIOUS
  <2>5. Pow2[a] \in Int /\ Pow2[b - 1] \in Int
    BY <1>3, <2>2
  <2> QED BY <2>1, <2>3, <2>4, <2>5
<1>6. N - a \in Nat
  OBVIOUS
<1>7. \A b \in 0 .. N - a : b \in T
  <2> HIDE DEF T
  <2> QED BY <1>4, <1>5, <1>6, Upto
<1> QED BY <1>7

\* Two divisions are one.
LEMMA DivMul ==
  ASSUME NEW a \in Nat, NEW m \in Nat \ {0}, NEW n \in Nat \ {0}
  PROVE  /\ a \div (m * n) = (a \div m) \div n
         /\ a % (m * n) = m * ((a \div m) % n) + (a % m)
<1>1. PICK q \in Nat, r \in 0 .. m - 1 : a = m * q + r /\ q = a \div m /\ r = a % m
  BY Euclid
<1>2. PICK s \in Nat, t \in 0 .. n - 1 : q = n * s + t /\ s = q \div n /\ t = q % n
  BY Euclid
<1>3. \A x, y, z, u, v \in Int : x * (y * z + u) + v = (x * y) * z + (x * u + v)
  OBVIOUS
<1>4. a = (m * n) * s + (m * t + r)
  <2>1. a = m * (n * s + t) + r
    BY <1>1, <1>2
  <2>2. m \in Int /\ n \in Int /\ s \in Int /\ t \in Int /\ r \in Int
    BY <1>1, <1>2
  <2> QED BY <1>3, <2>1, <2>2
<1>5. \A x, y, z \in Nat : y < z => x * y + x <= x * z /\ x * y \in Nat
  OBVIOUS
<1>6. m * t + m <= m * n /\ m * t \in Nat
  BY <1>2, <1>5
<1>7. m * n \in Nat \ {0} /\ m * t + r \in Nat /\ m * t + r < m * n
  BY <1>1, <1>6
<1>8. a \div (m * n) = s /\ a % (m * n) = m * t + r
  BY <1>2, <1>4, <1>7, EuclidUnique
<1> QED BY <1>1, <1>2, <1>8

LEMMA DivLess ==
  ASSUME NEW a \in Nat, NEW m \in Nat \ {0}, NEW n \in Nat, a < m * n
  PROVE  a \div m \in Nat /\ a \div m < n
<1>1. PICK q \in Nat, r \in 0 .. m - 1 : a = m * q + r /\ q = a \div m
  BY Euclid
<1>2. \A x, y, z \in Nat : y >= z => x * y >= x * z
  OBVIOUS
<1>3. ASSUME q >= n PROVE FALSE
  <2>1. m * q >= m * n
    BY <1>2, <1>3
  <2> QED BY <1>1, <2>1
<1> QED BY <1>1, <1>3

LEMMA AddMultiple ==
  ASSUME NEW a \in Nat, NEW m \in Nat \ {0}, NEW k \in Nat
  PROVE  (a + m * k) \div m = (a \div m) + k /\ (a + m * k) % m = a % m
<1>1. PICK q \in Nat, r \in 0 .. m - 1 : a = m * q + r /\ q = a \div m /\ r = a % m
  BY Euclid
<1>2. \A x, y, z \in Int : x * (y + z) = x * y + x * z
  OBVIOUS
<1>3. a + m * k = m * (q + k) + r /\ a + m * k \in Nat
  BY <1>1, <1>2
<1>4. PICK b \in Nat, p \in Nat : b = a + m * k /\ p = q + k
  BY <1>3
<1>5. b = m * p + r /\ r \in Nat /\ r < m
  <2>1. b = m * p + r
    BY <1>3, <1>4
  <2>2. r \in Nat /\ r < m
    BY <1>1
  <2> QED BY <2>1, <2>2
<1>6. b \div m = p /\ b % m = r
  BY <1>5, EuclidUnique
<1> QED BY <1>1, <1>4, <1>6

(***************************************************************************)
(* Bits.                                                                   *)
(***************************************************************************)
IsSet(w, b) == (w \div Pow2[b]) % 2 = 1

LEMMA Powers ==
  /\ WordBits \in Nat \ {0}
  /\ \A n \in 0 .. WordBits : Pow2[n] \in Nat \ {0}
  /\ Pow2[0] = 1
  /\ \A n \in 1 .. WordBits : Pow2[n] = 2 * Pow2[n - 1]
  /\ \A n \in 0 .. WordBits, k \in 0 .. WordBits :
       k <= n => Pow2[n] = Pow2[k] * Pow2[n - k] /\ Pow2[k] <= Pow2[n]
  /\ \A n \in 0 .. WordBits, k \in 0 .. WordBits : k < n => Pow2[k] < Pow2[n]
<1>1. /\ WordBits \in Nat \ {0}
      /\ \A n \in 0 .. WordBits :
           Pow2[n] \in Nat \ {0} /\ Pow2[n] = IF n = 0 THEN 1 ELSE 2 * Pow2[n - 1]
  BY WordAssumption, Pow2Is
<1>2. ASSUME NEW n \in 0 .. WordBits, NEW k \in 0 .. WordBits, k <= n
      PROVE  /\ Pow2[n] = Pow2[k] * Pow2[n - k] /\ Pow2[k] <= Pow2[n]
             /\ k < n => Pow2[k] < Pow2[n]
  <2>1. PICK g \in Nat : g = n - k
    BY <1>2
  <2>2. k \in Nat /\ k + g <= WordBits /\ k + g = n /\ g \in 0 .. WordBits
    BY <1>1, <2>1
  <2>3. Pow2[n] = Pow2[k] * Pow2[g]
    BY <2>1, <2>2, Pow2Add
  <2>4. Pow2[k] \in Nat \ {0} /\ Pow2[g] \in Nat \ {0}
    BY <1>1, <2>2
  <2>5. \A x, y \in Nat \ {0} : x <= x * y /\ (y > 1 => x < x * y)
    OBVIOUS
  <2>6. k < n => Pow2[g] > 1
    <3> HAVE k < n
    <3>1. g # 0 /\ g - 1 \in 0 .. WordBits
      BY <1>1, <2>1, <2>2
    <3>2. Pow2[g] = 2 * Pow2[g - 1] /\ Pow2[g - 1] \in Nat \ {0}
      BY <1>1, <2>2, <3>1
    <3> QED BY <3>2
  <2> QED BY <2>1, <2>3, <2>4, <2>5, <2>6
<1>3. \A n \in 1 .. WordBits : Pow2[n] = 2 * Pow2[n - 1]
  BY <1>1
<1>4. Pow2[0] = 1
  BY <1>1
<1>5. \A n \in 0 .. WordBits, k \in 0 .. WordBits : k < n => k <= n
  BY <1>1
<1>6. \A n \in 0 .. WordBits : Pow2[n] \in Nat \ {0}
  BY <1>1
<1>7. WordBits \in Nat \ {0}
  BY <1>1
<1>8. \A n \in 0 .. WordBits, k \in 0 .. WordBits :
        k <= n => Pow2[n] = Pow2[k] * Pow2[n - k] /\ Pow2[k] <= Pow2[n]
  BY <1>2
<1>9. \A n \in 0 .. WordBits, k \in 0 .. WordBits : k < n => Pow2[k] < Pow2[n]
  BY <1>2, <1>5
<1> QED BY <1>3, <1>4, <1>6, <1>7, <1>8, <1>9

LEMMA NoHighBits ==
  ASSUME NEW k \in 0 .. WordBits, NEW x \in Nat, x < Pow2[k], NEW b \in k .. WordBits
  PROVE  x \div Pow2[b] = 0 /\ ~ IsSet(x, b)
<1>1. b \in 0 .. WordBits
  OBVIOUS
<1>2. Pow2[b] \in Nat \ {0} /\ Pow2[k] <= Pow2[b] /\ Pow2[k] \in Nat
  BY <1>1, Powers
<1>3. x = Pow2[b] * 0 + x /\ x < Pow2[b]
  BY <1>2
<1>4. x \div Pow2[b] = 0
  BY <1>2, <1>3, EuclidUnique
<1>5. 0 % 2 # 1
  OBVIOUS
<1> QED BY <1>4, <1>5 DEF IsSet

\* What is added above a bit leaves it alone.
LEMMA AddAbove ==
  ASSUME NEW k \in 0 .. WordBits, NEW b \in 0 .. k - 1, NEW x \in Nat, NEW q \in Nat
  PROVE  IsSet(x + Pow2[k] * q, b) <=> IsSet(x, b)
<1>1. b \in 0 .. WordBits /\ b <= k /\ k - b \in 1 .. WordBits /\ (k - b) - 1 \in 0 .. WordBits
  BY Powers
<1>2. PICK t \in Nat : t = Pow2[(k - b) - 1]
  BY <1>1, Powers
<1>3. Pow2[k] = Pow2[b] * (2 * t) /\ Pow2[b] \in Nat \ {0}
  BY <1>1, <1>2, Powers
<1>4. \A u, v, z \in Int : (u * (2 * v)) * z = u * (2 * (v * z))
  OBVIOUS
<1>5. PICK m \in Nat : m = t * q
  OBVIOUS
<1>6. Pow2[k] * q = Pow2[b] * (2 * m)
  BY <1>3, <1>4, <1>5
<1>7. (x + Pow2[b] * (2 * m)) \div Pow2[b] = (x \div Pow2[b]) + 2 * m
  <2>1. 2 * m \in Nat
    OBVIOUS
  <2> QED BY <1>3, <2>1, AddMultiple
<1>8. \A u, v \in Nat : (u + 2 * v) % 2 = u % 2
  OBVIOUS
<1>9. x \div Pow2[b] \in Nat
  BY <1>3, Euclid
<1>10. ((x + Pow2[k] * q) \div Pow2[b]) % 2 = (x \div Pow2[b]) % 2
  BY <1>6, <1>7, <1>8, <1>9
<1> QED BY <1>10 DEF IsSet

LEMMA NoBits ==
  \A b \in 0 .. WordBits : ~ IsSet(0, b)
<1>1. 0 \in Nat /\ 0 < Pow2[0] /\ 0 \in 0 .. WordBits
  BY Powers
<1> QED BY <1>1, NoHighBits

LEMMA ModBits ==
  ASSUME NEW k \in 0 .. WordBits, NEW x \in Nat
  PROVE  /\ x % Pow2[k] \in 0 .. Pow2[k] - 1 /\ x % Pow2[k] \in Nat
         /\ \A b \in 0 .. WordBits - 1 : IsSet(x % Pow2[k], b) <=> b < k /\ IsSet(x, b)
<1>1. PICK m \in Nat \ {0} : m = Pow2[k]
  BY Powers
<1>2. PICK q \in Nat, r \in Nat :
        x = Pow2[k] * q + r /\ r = x % Pow2[k] /\ r \in 0 .. Pow2[k] - 1
  <2>1. x = m * (x \div m) + (x % m) /\ x \div m \in Nat /\ x % m \in 0 .. m - 1
    BY Euclid
  <2>2. x % m \in Nat
    BY <2>1
  <2> QED BY <1>1, <2>1, <2>2
<1>3. ASSUME NEW b \in 0 .. WordBits - 1 PROVE IsSet(r, b) <=> b < k /\ IsSet(x, b)
  <2>1. CASE b < k
    <3>1. b \in 0 .. k - 1
      BY <2>1
    <3>2. x = r + Pow2[k] * q
      BY <1>1, <1>2
    <3>3. IsSet(r + Pow2[k] * q, b) <=> IsSet(r, b)
      BY <3>1, AddAbove
    <3> QED BY <2>1, <3>2, <3>3
  <2>2. CASE ~ (b < k)
    <3>1. b \in k .. WordBits /\ r < Pow2[k]
      BY <1>1, <1>2, <2>2, Powers
    <3> QED BY <2>2, <3>1, NoHighBits
  <2> QED BY <2>1, <2>2
<1> QED BY <1>2, <1>3

\* value << shift and value >> shift.
LEMMA LeftBits ==
  ASSUME NEW s \in 0 .. WordBits, NEW x \in Nat, NEW b \in 0 .. WordBits
  PROVE  /\ x * Pow2[s] \in Nat
         /\ IsSet(x * Pow2[s], b) <=> b >= s /\ IsSet(x, b - s)
<1>1. Pow2[s] \in Nat \ {0} /\ Pow2[b] \in Nat \ {0}
  BY Powers
<1>2. PICK p \in Nat : p = x * Pow2[s]
  BY <1>1
<1>3. CASE b < s
  <2>1. b \in 0 .. s - 1
    BY <1>3
  <2>2. p = 0 + Pow2[s] * x
    BY <1>1, <1>2
  <2>3. IsSet(0 + Pow2[s] * x, b) <=> IsSet(0, b)
    BY <2>1, AddAbove
  <2> QED BY <1>2, <1>3, <2>2, <2>3, NoBits
<1>4. CASE ~ (b < s)
  <2>1. b - s \in 0 .. WordBits /\ s <= b
    BY <1>4, Powers
  <2>2. Pow2[b] = Pow2[s] * Pow2[b - s] /\ Pow2[b - s] \in Nat \ {0}
    BY <2>1, Powers
  <2>3. p \div Pow2[b] = (p \div Pow2[s]) \div Pow2[b - s]
    <3>1. PICK m \in Nat \ {0}, n \in Nat \ {0} : m = Pow2[s] /\ n = Pow2[b - s]
      BY <1>1, <2>2
    <3>2. p \div (m * n) = (p \div m) \div n
      BY DivMul
    <3> QED BY <2>2, <3>1, <3>2
  <2>4. p = Pow2[s] * x + 0
    BY <1>1, <1>2
  <2>5. p \div Pow2[s] = x
    BY <1>1, <2>4, EuclidUnique
  <2>6. IsSet(p, b) <=> IsSet(x, b - s)
    BY <2>3, <2>5 DEF IsSet
  <2> QED BY <1>2, <1>4, <2>6
<1> QED BY <1>2, <1>3, <1>4

LEMMA RightBits ==
  ASSUME NEW s \in 0 .. WordBits, NEW x \in Nat, x < Pow2[WordBits], NEW b \in 0 .. WordBits
  PROVE  /\ x \div Pow2[s] \in Nat /\ x \div Pow2[s] < Pow2[WordBits - s]
         /\ IsSet(x \div Pow2[s], b) <=> b + s < WordBits /\ IsSet(x, b + s)
<1>1. Pow2[s] \in Nat \ {0} /\ Pow2[b] \in Nat \ {0} /\ WordBits - s \in 0 .. WordBits
  BY Powers
<1>2. Pow2[WordBits] = Pow2[s] * Pow2[WordBits - s] /\ Pow2[WordBits - s] \in Nat
      /\ WordBits \in Nat
  BY <1>1, Powers
<1>3. x \div Pow2[s] \in Nat /\ x \div Pow2[s] < Pow2[WordBits - s]
  BY <1>1, <1>2, DivLess
<1>4. CASE b + s >= WordBits
  <2>1. b \in WordBits - s .. WordBits
    BY <1>2, <1>4
  <2> QED BY <1>1, <1>2, <1>3, <1>4, <2>1, NoHighBits
<1>5. CASE b + s < WordBits
  <2>1. b + s \in 0 .. WordBits /\ s <= b + s /\ (b + s) - s = b
    BY <1>2, <1>5
  <2>2. Pow2[b + s] = Pow2[s] * Pow2[b]
    BY <2>1, Powers
  <2>3. x \div Pow2[b + s] = (x \div Pow2[s]) \div Pow2[b]
    <3>1. PICK m \in Nat \ {0}, n \in Nat \ {0} : m = Pow2[s] /\ n = Pow2[b]
      BY <1>1
    <3>2. x \div (m * n) = (x \div m) \div n
      BY DivMul
    <3> QED BY <2>2, <3>1, <3>2
  <2> QED BY <1>3, <1>5, <2>3 DEF IsSet
<1> QED BY <1>2, <1>3, <1>4, <1>5

\* A word is told by its bits, and there is one for any bits.
LEMMA BitsApart ==
  ASSUME NEW v \in Word, NEW w \in Word, BitsOf(v) = BitsOf(w)
  PROVE  v = w
<1>1. /\ WordBits \in Nat \ {0} /\ \A n \in 0 .. WordBits : Pow2[n] \in Nat \ {0}
      /\ Pow2[0] = 1 /\ \A n \in 1 .. WordBits : Pow2[n] = 2 * Pow2[n - 1]
  BY Powers
<1>2. v \in Nat /\ w \in Nat /\ v < Pow2[WordBits] /\ w < Pow2[WordBits]
  BY <1>1 DEF Word
<1>3. \A b \in 0 .. WordBits - 1 : IsSet(v, b) <=> IsSet(w, b)
  BY DEF BitsOf, IsSet
<1> DEFINE T == {k \in 0 .. WordBits : v % Pow2[k] = w % Pow2[k]}
<1>4. 0 \in T
  <2>1. v % 1 = 0 /\ w % 1 = 0
    BY <1>2
  <2> QED BY <1>1, <2>1
<1>5. ASSUME NEW k \in 1 .. WordBits, k - 1 \in T PROVE k \in T
  <2>1. PICK m \in Nat \ {0} : m = Pow2[k - 1]
    BY <1>1
  <2>2. /\ v % (m * 2) = m * ((v \div m) % 2) + (v % m)
        /\ w % (m * 2) = m * ((w \div m) % 2) + (w % m)
    <3>1. \A x \in Nat : x % (m * 2) = m * ((x \div m) % 2) + (x % m)
      <4> SUFFICES ASSUME NEW x \in Nat
                   PROVE  x % (m * 2) = m * ((x \div m) % 2) + (x % m)
        OBVIOUS
      <4>1. 2 \in Nat \ {0}
        OBVIOUS
      <4> QED BY <4>1, DivMul
    <3> QED BY <1>2, <3>1
  <2>3. (v \div m) % 2 = (w \div m) % 2
    <3>1. v \div m \in Nat /\ w \div m \in Nat
      BY <1>2, Euclid
    <3>2. \A x, y \in Nat : (x % 2 = 1 <=> y % 2 = 1) => x % 2 = y % 2
      OBVIOUS
    <3>3. k - 1 \in 0 .. WordBits - 1
      BY <1>1
    <3>4. (v \div m) % 2 = 1 <=> (w \div m) % 2 = 1
      BY <1>3, <2>1, <3>3 DEF IsSet
    <3> QED BY <3>1, <3>2, <3>4
  <2>4. v % m = w % m
    BY <1>5, <2>1
  <2>5. v % (m * 2) = w % (m * 2)
    BY <2>2, <2>3, <2>4
  <2>6. Pow2[k] = m * 2
    BY <1>1, <2>1
  <2>7. k \in 0 .. WordBits
    OBVIOUS
  <2> QED BY <2>5, <2>6, <2>7
<1>6. \A k \in 0 .. WordBits : k \in T
  <2> HIDE DEF T
  <2> QED BY <1>1, <1>4, <1>5, Upto
<1>7. v % Pow2[WordBits] = w % Pow2[WordBits]
  BY <1>1, <1>6
<1>8. ASSUME NEW x \in Nat, x < Pow2[WordBits] PROVE x % Pow2[WordBits] = x
  <2>1. PICK m \in Nat \ {0} : m = Pow2[WordBits]
    BY <1>1
  <2>2. x = m * 0 + x
    BY <2>1
  <2> QED BY <1>8, <2>1, <2>2, EuclidUnique
<1> QED BY <1>2, <1>7, <1>8

LEMMA WordOfBits ==
  ASSUME NEW S \in SUBSET (0 .. WordBits - 1)
  PROVE  \E x \in Word : BitsOf(x) = S
<1>1. /\ WordBits \in Nat \ {0} /\ \A n \in 0 .. WordBits : Pow2[n] \in Nat \ {0}
      /\ Pow2[0] = 1 /\ \A n \in 1 .. WordBits : Pow2[n] = 2 * Pow2[n - 1]
  BY Powers
<1> DEFINE has(x, k) == \A b \in 0 .. WordBits - 1 : IsSet(x, b) <=> b \in S /\ b < k
           T == {k \in 0 .. WordBits : \E x \in 0 .. Pow2[k] - 1 : has(x, k)}
<1>2. 0 \in T
  <2>1. has(0, 0)
    BY <1>1, NoBits
  <2>2. 0 \in 0 .. Pow2[0] - 1
    BY <1>1
  <2> HIDE DEF has
  <2> QED BY <1>1, <2>1, <2>2
<1>3. ASSUME NEW k \in 1 .. WordBits, k - 1 \in T PROVE k \in T
  <2>1. PICK j \in 0 .. WordBits - 1 : j = k - 1
    BY <1>1
  <2>2. j \in T /\ j \in 0 .. WordBits
    BY <1>1, <1>3, <2>1
  <2>3. PICK x \in 0 .. Pow2[j] - 1 : has(x, j)
    BY <2>2
  <2>4. PICK m \in Nat \ {0} : m = Pow2[j] /\ Pow2[k] = 2 * m /\ x < m /\ x \in Nat
    BY <1>1, <2>1, <2>2
  <2>5. CASE j \notin S
    <3>1. ASSUME NEW b \in 0 .. WordBits - 1 PROVE b \in S /\ b < j <=> b \in S /\ b < k
      BY <2>1, <2>5
    <3>2. has(x, k)
      BY <2>3, <3>1
    <3>3. x \in 0 .. Pow2[k] - 1 /\ k \in 0 .. WordBits
      BY <2>4
    <3> HIDE DEF has
    <3> QED BY <3>2, <3>3
  <2>6. CASE j \in S
    <3>1. PICK y \in Nat : y = x + m
      BY <2>4
    <3>2. y \in 0 .. Pow2[k] - 1 /\ k \in 0 .. WordBits
      BY <2>4, <3>1
    <3>3. ASSUME NEW b \in 0 .. WordBits - 1 PROVE IsSet(y, b) <=> b \in S /\ b < k
      <4>1. CASE b < j
        <5>1. b \in 0 .. j - 1 /\ x \in Nat /\ 1 \in Nat
          BY <2>4, <4>1
        <5>2. IsSet(x + Pow2[j] * 1, b) <=> IsSet(x, b)
          BY <2>2, <5>1, AddAbove
        <5>3. y = x + Pow2[j] * 1
          BY <2>4, <3>1
        <5> QED BY <2>1, <2>3, <4>1, <5>2, <5>3
      <4>2. CASE b = j
        <5>1. y = m * 1 + x
          BY <2>4, <3>1
        <5>2. y \div m = 1
          BY <2>4, <3>1, <5>1, EuclidUnique
        <5>3. 1 % 2 = 1
          OBVIOUS
        <5> QED BY <2>1, <2>4, <2>6, <4>2, <5>2, <5>3 DEF IsSet
      <4>3. CASE b > j
        <5>1. b \in k .. WordBits /\ y < Pow2[k] /\ k \in 0 .. WordBits
          BY <1>1, <2>1, <2>4, <3>1, <4>3
        <5>2. ~ IsSet(y, b)
          BY <5>1, NoHighBits
        <5> QED BY <5>1, <5>2
      <4> QED BY <4>1, <4>2, <4>3
    <3>4. has(y, k)
      BY <3>3
    <3> HIDE DEF has
    <3> QED BY <3>2, <3>4
  <2> QED BY <2>5, <2>6
<1>4. \A k \in 0 .. WordBits : k \in T
  <2> HIDE DEF T
  <2> QED BY <1>1, <1>2, <1>3, Upto
<1>5. PICK x \in 0 .. Pow2[WordBits] - 1 : has(x, WordBits)
  <2>1. WordBits \in T
    <3> HIDE DEF T
    <3> QED BY <1>1, <1>4
  <2> HIDE DEF has
  <2> QED BY <2>1
<1>6. \A b \in 0 .. WordBits - 1 : b \in BitsOf(x) <=> b \in S
  BY <1>1, <1>5 DEF BitsOf, IsSet
<1>7. BitsOf(x) = S
  <2>1. BitsOf(x) \in SUBSET (0 .. WordBits - 1)
    BY DEF BitsOf
  <2> QED BY <1>6, <2>1
<1> QED BY <1>5, <1>7 DEF Word

LEMMA BitsAre ==
  ASSUME NEW x, NEW b \in 0 .. WordBits - 1
  PROVE  b \in BitsOf(x) <=> IsSet(x, b)
BY DEF BitsOf, IsSet

LEMMA OrIs ==
  ASSUME NEW v, NEW w
  PROVE  Or(v, w) \in Word /\ BitsOf(Or(v, w)) = BitsOf(v) \cup BitsOf(w)
<1> DEFINE S == BitsOf(v) \cup BitsOf(w)
<1>1. S \in SUBSET (0 .. WordBits - 1)
  BY DEF BitsOf
<1>2. Or(v, w) = CHOOSE x \in Word : BitsOf(x) = S
  BY DEF Or
<1> HIDE DEF S
<1>3. \E x \in Word : BitsOf(x) = S
  BY <1>1, WordOfBits
<1>4. Or(v, w) \in Word /\ BitsOf(Or(v, w)) = S
  BY <1>2, <1>3
<1> QED BY <1>4 DEF S

LEMMA WordIs ==
  /\ \A x \in Word : x \in Nat /\ x < Pow2[WordBits]
  /\ \A x \in Nat : x < Pow2[WordBits] => x \in Word
<1>1. WordBits \in 0 .. WordBits /\ Pow2[WordBits] \in Nat
  BY Powers
<1> QED BY <1>1 DEF Word

LEMMA OneBit ==
  ASSUME NEW k \in 0 .. WordBits - 1
  PROVE  BitsOf(Pow2[k]) = {k}
<1>1. k \in 0 .. WordBits /\ WordBits \in Nat
  BY Powers
<1>2. PICK m \in Nat \ {0} : m = Pow2[k]
  BY <1>1, Powers
<1>3. ASSUME NEW b \in 0 .. WordBits - 1 PROVE b \in BitsOf(m) <=> b = k
  <2>1. b \in 0 .. WordBits /\ 1 \in Nat
    BY <1>1
  <2>2. IsSet(1 * Pow2[k], b) <=> b >= k /\ IsSet(1, b - k)
    BY <1>1, <2>1, LeftBits
  <2>3. 1 * Pow2[k] = m
    BY <1>2
  <2>4. b >= k => (IsSet(1, b - k) <=> b = k)
    <3>1. CASE b = k
      <4>1. Pow2[0] = 1 /\ 1 \div 1 = 1 /\ 1 % 2 = 1
        BY Powers
      <4>2. IsSet(1, 0)
        BY <4>1 DEF IsSet
      <4>3. b - k = 0
        BY <3>1
      <4> QED BY <3>1, <4>2, <4>3
    <3>2. CASE b > k
      <4>1. 1 \in 0 .. WordBits /\ 0 \in 0 .. WordBits
        BY <1>1
      <4>2. Pow2[0] < Pow2[1] /\ Pow2[0] = 1
        BY <4>1, Powers
      <4>3. b - k \in 1 .. WordBits
        BY <1>1, <3>2
      <4>4. ~ IsSet(1, b - k)
        BY <4>1, <4>2, <4>3, NoHighBits
      <4> QED BY <3>2, <4>4
    <3> QED BY <3>1, <3>2
  <2>5. b \in BitsOf(m) <=> IsSet(m, b)
    BY BitsAre
  <2> QED BY <2>2, <2>3, <2>4, <2>5
<1>4. BitsOf(m) \in SUBSET (0 .. WordBits - 1)
  BY DEF BitsOf
<1>5. BitsOf(m) = {k}
  BY <1>3, <1>4
<1> QED BY <1>2, <1>5

(***************************************************************************)
(* The sizes of the regions, and the places in the table of jumps.         *)
(***************************************************************************)
LEMMA DivCeilIs ==
  ASSUME NEW a \in Nat, NEW m \in Nat \ {0}
  PROVE  DivCeil(a, m) \in Nat /\ a <= m * DivCeil(a, m) /\ (a > 0 => DivCeil(a, m) > 0)
<1>1. PICK b \in Nat : b = a + m - 1
  OBVIOUS
<1>2. PICK q \in Nat, r \in 0 .. m - 1 : b = m * q + r /\ q = b \div m
  BY Euclid
<1>3. DivCeil(a, m) = q
  BY <1>1, <1>2 DEF DivCeil
<1>4. PICK p \in Nat : p = m * q
  BY <1>2
<1>5. q = 0 => p = 0
  BY <1>4
<1>6. a <= p /\ (a > 0 => q > 0)
  BY <1>1, <1>2, <1>4, <1>5
<1> QED BY <1>3, <1>4, <1>6

LEMMA DivMono ==
  ASSUME NEW m \in Nat \ {0}, NEW a \in Nat, NEW b \in Nat, a <= b
  PROVE  a \div m <= b \div m /\ a \div m \in Nat /\ b \div m \in Nat
<1>1. PICK q \in Nat, r \in 0 .. m - 1 : b = m * q + r /\ q = b \div m
  BY Euclid
<1>2. m * (q + 1) = m * q + m
  BY <1>1
<1>3. a < m * (q + 1) /\ q + 1 \in Nat
  BY <1>1, <1>2
<1>4. a \div m < q + 1 /\ a \div m \in Nat
  BY <1>3, DivLess
<1> QED BY <1>1, <1>4

\* There are offsets, and the reader's and the builder's words hold their bound.
Sized == count \in Nat \ {0} /\ maxOffset \in Nat /\ maxOffset + 1 < Pow2[WordBits]

LEMMA LowIs ==
  ASSUME Sized
  PROVE  /\ U \in Nat \ {0} /\ L \in 0 .. WordBits - 1 /\ L \in 0 .. WordBits
         /\ Pow2[L] \in Nat \ {0} /\ U \div Pow2[L] \in Nat /\ U \div Pow2[L] < 2 * count
<1>1. /\ WordBits \in Nat \ {0} /\ \A n \in 0 .. WordBits : Pow2[n] \in Nat \ {0}
      /\ Pow2[0] = 1 /\ \A n \in 1 .. WordBits : Pow2[n] = 2 * Pow2[n - 1]
  BY Powers
<1>2. U \in Nat \ {0} /\ U < Pow2[WordBits] /\ count \in Nat \ {0}
  BY DEF Sized, U
<1>3. PICK g \in Nat, r \in 0 .. count - 1 : U = count * g + r /\ g = U \div count
  BY <1>2, Euclid
<1>4. CASE g = 0
  <2>1. L = 0
    BY <1>3, <1>4 DEF L
  <2>2. count * g = 0
    BY <1>2, <1>4
  <2>3. U < count
    BY <1>2, <1>3, <2>2
  <2>4. U \div 1 = U
    BY <1>2
  <2> QED BY <1>1, <1>2, <2>1, <2>3, <2>4
<1>5. CASE g # 0
  <2> DEFINE low(l) == Pow2[l] <= g /\ g < Pow2[l + 1]
             T == {k \in 0 .. WordBits : g < Pow2[k]}
  <2>1. g < Pow2[WordBits]
    <3>1. \A x, y \in Nat : x > 0 => y <= x * y
      OBVIOUS
    <3>2. g <= count * g
      BY <1>2, <3>1
    <3>3. PICK p \in Nat : p = count * g
      BY <1>2
    <3>4. Pow2[WordBits] \in Nat
      BY <1>1
    <3> QED BY <1>2, <1>3, <3>2, <3>3, <3>4
  <2>2. WordBits \in T /\ T \in SUBSET Nat
    BY <1>1, <2>1
  <2>3. PICK k \in T : \A j \in T : k <= j
    <3> HIDE DEF T
    <3> QED BY <2>2, Least
  <2>4. k \in 1 .. WordBits
    BY <1>1, <1>5, <2>3
  <2>5. k - 1 \in 0 .. WordBits - 1 /\ k - 1 \notin T /\ k - 1 \in 0 .. WordBits
        /\ (k - 1) + 1 = k
    BY <1>1, <2>3, <2>4
  <2>6. low(k - 1)
    BY <1>1, <2>3, <2>5
  <2>7. L = CHOOSE l \in 0 .. WordBits - 1 : low(l)
    BY <1>3, <1>5 DEF L
  <2>8. L \in 0 .. WordBits - 1 /\ low(L)
    <3> HIDE DEF low
    <3> QED BY <2>5, <2>6, <2>7
  <2>9. PICK l \in 0 .. WordBits - 1 : l = L
    BY <2>8
  <2>10. PICK m \in Nat \ {0} : m = Pow2[l] /\ Pow2[l + 1] = 2 * m
    <3>1. l + 1 \in 1 .. WordBits /\ (l + 1) - 1 = l /\ l \in 0 .. WordBits
      BY <1>1
    <3> QED BY <1>1, <3>1
  <2>11. g + 1 <= 2 * m
    BY <2>8, <2>9, <2>10
  <2>12. U < m * (2 * count)
    <3>1. \A x, y, z \in Nat : y <= z => x * y <= x * z
      OBVIOUS
    <3>2. count * (g + 1) <= count * (2 * m)
      BY <1>2, <2>11, <3>1
    <3>3. count * (g + 1) = count * g + count
      BY <1>2
    <3>4. count * (2 * m) = m * (2 * count)
      BY <1>2
    <3>5. PICK p \in Nat : p = count * g
      BY <1>2
    <3>6. PICK q \in Nat : q = m * (2 * count)
      BY <1>2
    <3> QED BY <1>2, <1>3, <3>2, <3>3, <3>4, <3>5, <3>6
  <2>13. U \div m \in Nat /\ U \div m < 2 * count
    <3>1. 2 * count \in Nat
      BY <1>2
    <3> QED BY <1>2, <2>12, <3>1, DivLess
  <2> QED BY <1>1, <1>2, <2>9, <2>10, <2>13
<1> QED BY <1>4, <1>5

LEMMA RegionsAre ==
  ASSUME Sized
  PROVE  /\ WordsLower \in Nat \ {0} /\ count * L \in Nat
         /\ count * L <= WordBits * (WordsLower - 1)
         /\ WordsUpper \in Nat
         /\ \A x \in 0 .. maxOffset, n \in 0 .. count - 1 :
              /\ x \div Pow2[L] \in Nat
              /\ (x \div Pow2[L]) + n < WordBits * WordsUpper
              /\ (x \div Pow2[L]) + n < 3 * count
         /\ JumpBase \in Nat /\ JumpBase = WordsLower + WordsUpper
<1>1. /\ count \in Nat \ {0} /\ WordBits \in Nat \ {0} /\ U = maxOffset + 1
      /\ maxOffset \in Nat
  BY Powers DEF Sized, U
<1>2. PICK l \in 0 .. WordBits - 1, m \in Nat \ {0}, q \in Nat :
        l = L /\ m = Pow2[L] /\ q = U \div m /\ q < 2 * count
  BY LowIs
<1>3. PICK a \in Nat : a = count * l
  BY <1>1
<1>4. PICK g \in Nat : g = DivCeil(a, WordBits) /\ a <= WordBits * g
  BY <1>1, DivCeilIs
<1>5. WordsLower = g + 1
  BY <1>2, <1>3, <1>4 DEF WordsLower
<1>6. PICK b \in Nat \ {0} : b = count + q
  BY <1>1
<1>7. PICK e \in Nat : e = DivCeil(b, WordBits) /\ b <= WordBits * e
  BY <1>1, <1>6, DivCeilIs
<1>8. WordsUpper = e
  BY <1>2, <1>6, <1>7 DEF WordsUpper
<1>9. ASSUME NEW x \in 0 .. maxOffset, NEW n \in 0 .. count - 1
      PROVE  x \div m \in Nat /\ (x \div m) + n < b
  <2>1. x \div m <= q /\ x \div m \in Nat
    <3>1. x \in Nat /\ U \in Nat /\ x <= U
      BY <1>1
    <3> QED BY <1>2, <3>1, DivMono
  <2> QED BY <1>1, <1>6, <2>1
<1>10. b < 3 * count
  BY <1>1, <1>2, <1>6
<1>11. ASSUME NEW x \in 0 .. maxOffset, NEW n \in 0 .. count - 1
       PROVE  /\ x \div Pow2[L] \in Nat
              /\ (x \div Pow2[L]) + n < WordBits * WordsUpper
              /\ (x \div Pow2[L]) + n < 3 * count
  <2>1. PICK y \in Nat : y = (x \div m) + n /\ y < b
    <3>1. x \div m \in Nat /\ (x \div m) + n < b
      BY <1>9
    <3>2. PICK v \in Nat : v = x \div m
      BY <3>1
    <3>3. v + n \in Nat /\ v + n < b
      BY <3>1, <3>2
    <3> QED BY <3>2, <3>3
  <2>2. PICK z \in Nat : z = WordBits * e
    BY <1>1
  <2>3. y < z /\ y < 3 * count
    BY <1>1, <1>7, <1>10, <2>1, <2>2
  <2> QED BY <1>2, <1>8, <1>9, <2>1, <2>2, <2>3
<1>12. JumpBase = WordsLower + WordsUpper
  BY DEF JumpBase
<1>13. WordsLower \in Nat \ {0} /\ WordsLower - 1 = g
  BY <1>5
<1>14. count * L \in Nat /\ count * L <= WordBits * (WordsLower - 1)
  BY <1>2, <1>3, <1>4, <1>13
<1>15. JumpBase \in Nat
  BY <1>8, <1>12, <1>13
<1> QED BY <1>8, <1>11, <1>12, <1>13, <1>14, <1>15

\* SuperQ is so many pairs of Q.
Pairs == SuperQ \div (2 * Q)

LEMMA PairsAre ==
  /\ Q \in Nat \ {0} /\ SuperQ \in Nat \ {0} /\ Pairs \in Nat \ {0}
  /\ SuperQ = Q * (2 * Pairs)
  /\ SuperQSize = 1 + Pairs
  /\ Half \in Nat /\ Half >= 2
<1>1. Q \in Nat \ {0} /\ SuperQ \in Nat \ {0} /\ SuperQ % (2 * Q) = 0
  BY QAssumption
<1>2. PICK m \in Nat \ {0} : m = 2 * Q
  BY <1>1
<1>3. PICK h \in Nat, r \in 0 .. m - 1 :
        SuperQ = m * h + r /\ h = SuperQ \div m /\ r = SuperQ % m
  BY <1>1, <1>2, Euclid
<1>4. r = 0
  BY <1>1, <1>2, <1>3
<1>5. SuperQ = Q * (2 * h)
  <2>1. \A x, y \in Int : (2 * x) * y = x * (2 * y)
    OBVIOUS
  <2> QED BY <1>1, <1>2, <1>3, <1>4, <2>1
<1>6. h # 0
  <2>1. h = 0 => Q * (2 * h) = 0
    BY <1>1
  <2> QED BY <1>1, <1>5, <2>1
<1>7. Pairs = h
  BY <1>2, <1>3 DEF Pairs
<1>8. SuperQ \div Q = 2 * h
  <2>1. SuperQ = Q * (2 * h) + 0 /\ 2 * h \in Nat /\ 0 < Q
    BY <1>1, <1>5
  <2> QED BY <1>1, <2>1, EuclidUnique
<1>9. (2 * h) \div 2 = h
  OBVIOUS
<1>10. SuperQSize = 1 + h
  BY <1>8, <1>9 DEF SuperQSize
<1>11. Half \in Nat /\ Half >= 2
  <2>1. WordBits \in Nat \ {0} /\ WordBits % 2 = 0
    BY WordAssumption
  <2>2. WordBits \div 2 \in 1 .. WordBits
    BY <2>1
  <2>3. PICK w \in 1 .. WordBits : w = WordBits \div 2
    BY <2>2
  <2>4. w \in 0 .. WordBits /\ w - 1 \in 0 .. WordBits
    BY <2>1
  <2>5. Pow2[w] = 2 * Pow2[w - 1] /\ Pow2[w - 1] \in Nat \ {0}
    BY <2>4, Powers
  <2> QED BY <2>3, <2>5 DEF Half
<1> QED BY <1>1, <1>5, <1>6, <1>7, <1>10, <1>11

\* The n-th one is in block a and after e full groups of it; its entries are there.
IsPlace(n, a, e, r) ==
  /\ a \in Nat /\ e \in 0 .. 2 * Pairs - 1 /\ r \in 0 .. Q - 1
  /\ n = Q * (2 * Pairs * a + e) + r
  /\ r = n % Q
  /\ a = n \div SuperQ /\ n % SuperQ = Q * e + r
  /\ SuperEntry(n) = JumpBase + (1 + Pairs) * a
  /\ HalfEntry(n) = JumpBase + (1 + Pairs) * a + 1 + (e \div 2)
  /\ Shift(n) = IF e % 2 = 0 THEN 1 ELSE Half

LEMMA PlaceIs ==
  ASSUME NEW n \in Nat
  PROVE  \E a, e, r : IsPlace(n, a, e, r)
<1>1. PICK h \in Nat \ {0} : h = Pairs
  BY PairsAre
<1>2. /\ Q \in Nat \ {0} /\ SuperQ \in Nat \ {0} /\ SuperQ = Q * (2 * h)
      /\ SuperQSize = 1 + h
  BY <1>1, PairsAre
<1>3. PICK a \in Nat, s \in 0 .. SuperQ - 1 :
        n = SuperQ * a + s /\ a = n \div SuperQ /\ s = n % SuperQ
  BY <1>2, Euclid
<1>4. s \in Nat /\ s < Q * (2 * h)
  BY <1>2, <1>3
<1>5. PICK e \in Nat, r \in 0 .. Q - 1 : s = Q * e + r /\ e = s \div Q
  BY <1>2, <1>4, Euclid
<1>6. e < 2 * h
  <2>1. 2 * h \in Nat
    OBVIOUS
  <2> QED BY <1>2, <1>4, <1>5, <2>1, DivLess
<1>7. PICK c2 \in Nat : c2 = 2 * h * a + e
  OBVIOUS
<1>8. n = Q * c2 + r
  <2>1. \A w, x, y, z \in Int : (w * (2 * x)) * y + w * z = w * (2 * x * y + z)
    OBVIOUS
  <2>2. SuperQ * a + Q * e = Q * (2 * h * a + e)
    BY <1>2, <2>1
  <2>3. n = (SuperQ * a + Q * e) + r
    <3>1. PICK x \in Nat, y \in Nat : x = SuperQ * a /\ y = Q * e
      BY <1>2
    <3>2. n = x + s /\ s = y + r
      BY <1>3, <1>5, <3>1
    <3>3. r \in Nat
      BY <1>2
    <3> QED BY <3>1, <3>2, <3>3
  <2> QED BY <1>7, <2>2, <2>3
<1>9. r = n % Q
  <2>1. r \in Nat /\ r < Q
    BY <1>2
  <2> QED BY <1>2, <1>8, <2>1, EuclidUnique
<1>10. SuperEntry(n) = JumpBase + (1 + h) * a
  <2>1. \A x, y \in Int : x * y = y * x
    OBVIOUS
  <2>2. a * (1 + h) = (1 + h) * a
    BY <2>1
  <2> QED BY <1>2, <1>3, <2>2 DEF SuperEntry
<1>11. HalfEntry(n) = JumpBase + (1 + h) * a + 1 + (e \div 2)
  BY <1>3, <1>5, <1>10 DEF HalfEntry
<1>12. Shift(n) = IF e % 2 = 0 THEN 1 ELSE Half
  BY <1>3, <1>5 DEF Shift
<1>13. IsPlace(n, a, e, r)
  <2>1. e \in 0 .. 2 * h - 1
    BY <1>6
  <2>2. n % SuperQ = Q * e + r
    BY <1>3, <1>5
  <2>3. n = Q * (2 * h * a + e) + r
    BY <1>7, <1>8
  <2> QED BY <1>1, <1>3, <1>5, <1>9, <1>10, <1>11, <1>12, <2>1, <2>2, <2>3 DEF IsPlace
<1> QED BY <1>13

LEMMA PlaceFits ==
  ASSUME Sized, NEW n \in 0 .. count - 1
  PROVE  /\ JumpBase <= SuperEntry(n) /\ SuperEntry(n) < HalfEntry(n)
         /\ HalfEntry(n) < Size /\ SuperEntry(n) \in Nat /\ HalfEntry(n) \in Nat
         /\ Size \in Nat /\ JumpBase <= Size
<1>1. PICK h \in Nat \ {0} : h = Pairs
  BY PairsAre
<1>2. /\ Q \in Nat \ {0} /\ SuperQ \in Nat \ {0} /\ SuperQSize = 1 + h
  BY <1>1, PairsAre
<1>3. count \in Nat \ {0} /\ n \in Nat /\ n < count
  BY DEF Sized
<1>4. PICK j \in Nat : j = JumpBase
  BY RegionsAre
<1>5. PICK a, e, r : IsPlace(n, a, e, r)
  BY <1>3, PlaceIs
<1>6. /\ a \in Nat /\ e \in 0 .. 2 * h - 1 /\ r \in 0 .. Q - 1
      /\ a = n \div SuperQ /\ n % SuperQ = Q * e + r
      /\ SuperEntry(n) = j + (1 + h) * a
      /\ HalfEntry(n) = j + (1 + h) * a + 1 + (e \div 2)
  BY <1>1, <1>4, <1>5 DEF IsPlace
<1>7. PICK b \in Nat, s \in 0 .. SuperQ - 1 :
        count = SuperQ * b + s /\ b = count \div SuperQ /\ s = count % SuperQ
  BY <1>2, <1>3, Euclid
<1>8. PICK x \in Nat, y \in Nat, f \in Nat :
        x = (1 + h) * a /\ y = (1 + h) * b /\ f = e \div 2 /\ f < h
  <2>1. e \div 2 \in Nat /\ e \div 2 < h
    BY <1>6
  <2> QED BY <1>6, <1>7, <2>1
<1>9. /\ SuperEntry(n) = j + x /\ HalfEntry(n) = j + x + 1 + f
  BY <1>6, <1>8
<1>10. JumpSize = IF s = 0 THEN y ELSE y + (1 + (DivCeil(s, Q) + 3) \div 2)
  <2>1. (count \div SuperQ) * SuperQSize = y
    <3>1. \A v, w \in Int : v * w = w * v
      OBVIOUS
    <3>2. b * (1 + h) = (1 + h) * b
      BY <3>1
    <3> QED BY <1>2, <1>7, <1>8, <3>2
  <2>2. JumpSize = y + IF s = 0 THEN 0 ELSE 1 + (DivCeil(s, Q) + 3) \div 2
    BY <1>7, <2>1 DEF JumpSize
  <2> QED BY <2>2
<1>11. PICK g \in Nat : g = DivCeil(s, Q) /\ s <= Q * g
  <2>1. s \in Nat
    BY <1>2
  <2> QED BY <1>2, <2>1, DivCeilIs
<1>12. Size = j + JumpSize
  BY <1>4 DEF Size
<1>13. (g + 3) \div 2 \in Nat
  OBVIOUS
<1>14. JumpSize \in Nat
  BY <1>10, <1>11, <1>13
<1>15. a <= b
  <2>1. n \div SuperQ <= count \div SuperQ
    <3>1. count \in Nat /\ n <= count
      BY <1>3
    <3> QED BY <1>2, <1>3, <3>1, DivMono
  <2> QED BY <1>6, <1>7, <2>1
<1>16. CASE a < b
  <2>1. \A u, v, w \in Nat : v < w => u * v + u <= u * w
    OBVIOUS
  <2>2. x + 1 + h <= y
    <3>1. 1 + h \in Nat /\ a \in Nat /\ b \in Nat
      BY <1>6
    <3>2. (1 + h) * a + (1 + h) <= (1 + h) * b
      BY <1>16, <2>1, <3>1
    <3> QED BY <1>8, <3>2
  <2>3. y <= JumpSize
    BY <1>10, <1>11, <1>13
  <2> QED BY <1>4, <1>8, <1>9, <1>12, <1>14, <2>2, <2>3
<1>17. CASE a = b
  <2>1. n = SuperQ * a + (Q * e + r)
    BY <1>2, <1>3, <1>6, Euclid
  <2>2. PICK p \in Nat, t \in Nat : p = SuperQ * a /\ t = Q * e + r
    BY <1>2, <1>6
  <2>3. t < s
    <3>1. SuperQ * b = p
      BY <1>17, <2>2
    <3>2. count = p + s
      BY <1>7, <3>1
    <3>3. n = p + t
      BY <2>1, <2>2
    <3>4. s \in Nat
      BY <1>2
    <3> QED BY <1>3, <2>2, <3>2, <3>3, <3>4
  <2>4. s # 0
    BY <2>2, <2>3
  <2>5. e < g
    <3>1. Q * g \in Nat /\ t < Q * g
      BY <1>2, <1>11, <2>2, <2>3
    <3>2. t \div Q < g
      BY <1>2, <2>2, <3>1, DivLess
    <3>3. t \div Q = e
      <4>1. e \in Nat /\ r \in Nat /\ r < Q
        BY <1>2, <1>6
      <4> QED BY <1>2, <2>2, <4>1, EuclidUnique
    <3> QED BY <3>2, <3>3
  <2>6. f < (g + 3) \div 2
    <3>1. e \in Nat /\ g \in Nat /\ e < g
      BY <1>6, <2>5
    <3>2. e \div 2 < (g + 3) \div 2
      BY <3>1
    <3> QED BY <1>8, <3>2
  <2>7. x = y
    BY <1>8, <1>17
  <2>8. JumpSize = y + 1 + ((g + 3) \div 2)
    BY <1>10, <1>11, <1>13, <2>4
  <2> QED BY <1>4, <1>8, <1>9, <1>12, <1>13, <1>14, <2>6, <2>7, <2>8
<1> QED BY <1>6, <1>7, <1>15, <1>16, <1>17

LEMMA PlacesApart ==
  ASSUME NEW n \in Nat, NEW m \in Nat, JumpBase \in Nat
  PROVE  /\ SuperEntry(n) # HalfEntry(m)
         /\ SuperEntry(n) = SuperEntry(m) => n \div SuperQ = m \div SuperQ
         /\ HalfEntry(n) = HalfEntry(m) /\ Shift(n) = Shift(m) /\ n % Q = m % Q => n = m
         /\ Shift(n) = 1 \/ Shift(n) = Half
<1>1. PICK h \in Nat \ {0} : h = Pairs
  BY PairsAre
<1>2. /\ Q \in Nat \ {0} /\ Half \in Nat /\ Half >= 2
  BY PairsAre
<1>3. PICK j \in Nat : j = JumpBase
  OBVIOUS
<1>4. PICK a, e, r : IsPlace(n, a, e, r)
  BY PlaceIs
<1>5. PICK b, f, s : IsPlace(m, b, f, s)
  BY PlaceIs
<1>6. /\ a \in Nat /\ e \in 0 .. 2 * h - 1 /\ r = n % Q /\ a = n \div SuperQ
      /\ n = Q * (2 * h * a + e) + r
      /\ SuperEntry(n) = j + (1 + h) * a
      /\ HalfEntry(n) = j + (1 + h) * a + 1 + (e \div 2)
      /\ Shift(n) = IF e % 2 = 0 THEN 1 ELSE Half
  BY <1>1, <1>3, <1>4 DEF IsPlace
<1>7. /\ b \in Nat /\ f \in 0 .. 2 * h - 1 /\ s = m % Q /\ b = m \div SuperQ
      /\ m = Q * (2 * h * b + f) + s
      /\ SuperEntry(m) = j + (1 + h) * b
      /\ HalfEntry(m) = j + (1 + h) * b + 1 + (f \div 2)
      /\ Shift(m) = IF f % 2 = 0 THEN 1 ELSE Half
  BY <1>1, <1>3, <1>5 DEF IsPlace
<1>8. PICK x \in Nat, y \in Nat : x = (1 + h) * a /\ y = (1 + h) * b
  BY <1>6, <1>7
<1>9. PICK u \in Nat, v \in Nat : u = e \div 2 /\ v = f \div 2 /\ u < h /\ v < h
  <2>1. e \div 2 \in Nat /\ e \div 2 < h /\ f \div 2 \in Nat /\ f \div 2 < h
    BY <1>6, <1>7
  <2> QED BY <2>1
<1>10. \A q, z, w \in Nat : z = (1 + h) * q /\ w < 1 + h =>
          (z + w) \div (1 + h) = q /\ (z + w) % (1 + h) = w
  <2> SUFFICES ASSUME NEW q \in Nat, NEW z \in Nat, NEW w \in Nat,
                      z = (1 + h) * q, w < 1 + h
               PROVE  (z + w) \div (1 + h) = q /\ (z + w) % (1 + h) = w
    OBVIOUS
  <2>1. PICK k \in Nat \ {0} : k = 1 + h
    OBVIOUS
  <2>2. PICK p \in Nat : p = z + w
    OBVIOUS
  <2>3. p = k * q + w
    BY <2>1, <2>2
  <2>4. p \div k = q /\ p % k = w
    BY <2>1, <2>3, EuclidUnique
  <2> QED BY <2>1, <2>2, <2>4
<1>11. /\ (x + 0) \div (1 + h) = a /\ (x + 0) % (1 + h) = 0
       /\ (y + 0) \div (1 + h) = b /\ (y + 0) % (1 + h) = 0
       /\ (x + (1 + u)) \div (1 + h) = a /\ (x + (1 + u)) % (1 + h) = 1 + u
       /\ (y + (1 + v)) \div (1 + h) = b /\ (y + (1 + v)) % (1 + h) = 1 + v
  <2>1. 0 \in Nat /\ 1 + u \in Nat /\ 1 + v \in Nat /\ 0 < 1 + h /\ 1 + u < 1 + h
        /\ 1 + v < 1 + h /\ a \in Nat /\ b \in Nat
    BY <1>6, <1>7, <1>9
  <2>2. (x + 0) \div (1 + h) = a /\ (x + 0) % (1 + h) = 0
    BY <1>8, <1>10, <2>1
  <2>3. (y + 0) \div (1 + h) = b /\ (y + 0) % (1 + h) = 0
    BY <1>8, <1>10, <2>1
  <2>4. (x + (1 + u)) \div (1 + h) = a /\ (x + (1 + u)) % (1 + h) = 1 + u
    BY <1>8, <1>10, <2>1
  <2>5. (y + (1 + v)) \div (1 + h) = b /\ (y + (1 + v)) % (1 + h) = 1 + v
    BY <1>8, <1>10, <2>1
  <2> QED BY <2>2, <2>3, <2>4, <2>5
<1>12. /\ SuperEntry(n) = j + (x + 0) /\ HalfEntry(n) = j + (x + (1 + u))
       /\ SuperEntry(m) = j + (y + 0) /\ HalfEntry(m) = j + (y + (1 + v))
  <2>1. SuperEntry(n) = j + x /\ HalfEntry(n) = j + x + 1 + u
    BY <1>6, <1>8, <1>9
  <2>2. SuperEntry(m) = j + y /\ HalfEntry(m) = j + y + 1 + v
    BY <1>7, <1>8, <1>9
  <2> QED BY <2>1, <2>2
<1>13. SuperEntry(n) # HalfEntry(m)
  <2>1. x + 0 # y + (1 + v)
    BY <1>9, <1>11
  <2> QED BY <1>8, <1>9, <1>12, <2>1
<1>14. SuperEntry(n) = SuperEntry(m) => a = b
  <2>1. x + 0 = y + 0 => a = b
    BY <1>11
  <2> QED BY <1>8, <1>12, <2>1
<1>15. ASSUME HalfEntry(n) = HalfEntry(m), Shift(n) = Shift(m), n % Q = m % Q
       PROVE  n = m
  <2>1. x + (1 + u) = y + (1 + v)
    BY <1>8, <1>9, <1>12, <1>15
  <2>2. a = b /\ 1 + u = 1 + v
    BY <1>11, <2>1
  <2>3. e \div 2 = f \div 2
    BY <1>9, <2>2
  <2>4. e % 2 = 0 <=> f % 2 = 0
    BY <1>2, <1>6, <1>7, <1>15
  <2>5. e = f
    BY <1>6, <1>7, <2>3, <2>4
  <2> QED BY <1>6, <1>7, <1>15, <2>2, <2>5
<1>16. Shift(n) = 1 \/ Shift(n) = Half
  BY <1>6
<1> QED BY <1>6, <1>7, <1>13, <1>14, <1>15, <1>16

(***************************************************************************)
(* Bits in a row of words.                                                 *)
(***************************************************************************)
BitAt(words, base, x) == (x % WordBits) \in BitsOf(words[base + (x \div WordBits)])

\* Where bit x is.
IsSpot(x, w, b) == w \in Nat /\ b \in 0 .. WordBits - 1 /\ x = WordBits * w + b

LEMMA SpotIs ==
  ASSUME NEW x \in Nat
  PROVE  /\ IsSpot(x, x \div WordBits, x % WordBits)
         /\ \A w, b : IsSpot(x, w, b) => w = x \div WordBits /\ b = x % WordBits
<1>1. WordBits \in Nat \ {0}
  BY Powers
<1>2. IsSpot(x, x \div WordBits, x % WordBits)
  <2>1. PICK w \in Nat, b \in 0 .. WordBits - 1 :
          x = WordBits * w + b /\ w = x \div WordBits /\ b = x % WordBits
    BY <1>1, Euclid
  <2> QED BY <2>1 DEF IsSpot
<1>3. ASSUME NEW w, NEW b, IsSpot(x, w, b) PROVE w = x \div WordBits /\ b = x % WordBits
  <2>1. w \in Nat /\ b \in Nat /\ b < WordBits /\ x = WordBits * w + b
    BY <1>1, <1>3 DEF IsSpot
  <2> QED BY <1>1, <2>1, EuclidUnique
<1> QED BY <1>2, <1>3

\* What is so many bits after another is in its word or in the next one.
LEMMA Carry ==
  ASSUME NEW x \in Nat, NEW w, NEW s, IsSpot(x, w, s), NEW k \in 0 .. WordBits - 1
  PROVE  IF s + k < WordBits THEN IsSpot(x + k, w, s + k)
         ELSE IsSpot(x + k, w + 1, s + k - WordBits)
<1>1. PICK p \in Nat : p = WordBits * w
  BY Powers DEF IsSpot
<1>2. WordBits * (w + 1) = p + WordBits
  BY <1>1, Powers DEF IsSpot
<1>3. x = p + s /\ w \in Nat /\ s \in 0 .. WordBits - 1 /\ WordBits \in Nat \ {0}
  BY <1>1, Powers DEF IsSpot
<1>4. s + k < WordBits => IsSpot(x + k, w, s + k)
  BY <1>1, <1>3 DEF IsSpot
<1>5. s + k >= WordBits => IsSpot(x + k, w + 1, s + k - WordBits)
  BY <1>2, <1>3 DEF IsSpot
<1> QED BY <1>3, <1>4, <1>5

LEMMA BitAtSpot ==
  ASSUME NEW words, NEW base, NEW x \in Nat, NEW w, NEW b, IsSpot(x, w, b)
  PROVE  BitAt(words, base, x) <=> b \in BitsOf(words[base + w])
BY SpotIs DEF BitAt

\* An or with one bit sets that bit.
SetAt(words, base, pos) ==
  [words EXCEPT ![base + (pos \div WordBits)] = Or(@, Pow2[pos % WordBits])]

LEMMA SetBit ==
  ASSUME NEW D, NEW words \in [D -> Nat], NEW base \in Nat, NEW pos \in Nat,
         base + (pos \div WordBits) \in D, NEW new,
         new = SetAt(words, base, pos)
  PROVE  /\ new \in [D -> Nat]
         /\ new[base + (pos \div WordBits)] \in Word
         /\ \A w \in D : w # base + (pos \div WordBits) => new[w] = words[w]
         /\ \A x \in Nat : base + (x \div WordBits) \in D =>
              (BitAt(new, base, x) <=> BitAt(words, base, x) \/ x = pos)
<1>1. PICK w, b : IsSpot(pos, w, b) /\ w = pos \div WordBits /\ b = pos % WordBits
  BY SpotIs
<1>2. w \in Nat /\ b \in 0 .. WordBits - 1 /\ base + w \in D
  BY <1>1 DEF IsSpot
<1>3. PICK o : o = Or(words[base + w], Pow2[b])
  OBVIOUS
<1>4. o \in Word /\ BitsOf(o) = BitsOf(words[base + w]) \cup {b}
  BY <1>2, <1>3, OrIs, OneBit
<1>5. o \in Nat
  BY <1>4, WordIs
<1>6. new = [words EXCEPT ![base + w] = o]
  BY <1>1, <1>3 DEF SetAt
<1>7. new \in [D -> Nat] /\ new[base + w] = o
      /\ \A v \in D : v # base + w => new[v] = words[v]
  BY <1>2, <1>5, <1>6
<1>8. ASSUME NEW x \in Nat, base + (x \div WordBits) \in D
      PROVE  BitAt(new, base, x) <=> BitAt(words, base, x) \/ x = pos
  <2>1. PICK v, a : IsSpot(x, v, a) /\ v = x \div WordBits /\ a = x % WordBits
    BY SpotIs
  <2>2. /\ BitAt(new, base, x) <=> a \in BitsOf(new[base + v])
        /\ BitAt(words, base, x) <=> a \in BitsOf(words[base + v])
    BY <2>1, BitAtSpot
  <2>3. v \in Nat /\ base + v \in D
    BY <1>8, <2>1 DEF IsSpot
  <2>4. x = pos <=> v = w /\ a = b
    <3>1. x = pos => v = w /\ a = b
      BY <1>1, <2>1
    <3>2. v = w /\ a = b => x = pos
      BY <1>1, <2>1 DEF IsSpot
    <3> QED BY <3>1, <3>2
  <2>5. CASE v = w
    <3>1. a \in BitsOf(new[base + v]) <=> a \in BitsOf(words[base + v]) \/ a = b
      BY <1>4, <1>7, <2>5
    <3> QED BY <2>2, <2>4, <2>5, <3>1
  <2>6. CASE v # w
    <3>1. base + v # base + w
      BY <1>2, <2>3, <2>6
    <3>2. new[base + v] = words[base + v]
      BY <1>7, <2>3, <3>1
    <3> QED BY <2>2, <2>4, <2>6, <3>2
  <2> QED BY <2>5, <2>6
<1> QED BY <1>1, <1>4, <1>7, <1>8

\* value << s and value >> 64 - s, as bits.
LEMMA FirstPart ==
  ASSUME NEW s \in 0 .. WordBits - 1, NEW value \in Nat, NEW b \in 0 .. WordBits - 1
  PROVE  b \in BitsOf((value * Pow2[s]) % Pow2[WordBits]) <=> b >= s /\ IsSet(value, b - s)
<1>1. s \in 0 .. WordBits /\ b \in 0 .. WordBits /\ WordBits \in 0 .. WordBits
      /\ b < WordBits
  BY Powers
<1>2. PICK p \in Nat : p = value * Pow2[s]
  BY <1>1, LeftBits
<1>3. IsSet(p, b) <=> b >= s /\ IsSet(value, b - s)
  BY <1>1, <1>2, LeftBits
<1>4. IsSet(p % Pow2[WordBits], b) <=> IsSet(p, b)
  BY <1>1, ModBits
<1> QED BY <1>2, <1>3, <1>4, BitsAre

LEMMA SecondPart ==
  ASSUME NEW s \in 0 .. WordBits, NEW value \in Nat, value < Pow2[WordBits],
         NEW b \in 0 .. WordBits - 1
  PROVE  b \in BitsOf(value \div Pow2[s]) <=> b + s < WordBits /\ IsSet(value, b + s)
<1>1. b \in 0 .. WordBits
  BY Powers
<1> QED BY <1>1, RightBits, BitsAre

\* set_lower_bits: the bits of the value, from start on.
LEMMA SetLowerIs ==
  ASSUME NEW D, NEW words \in [D -> Nat], NEW start \in Nat, NEW value \in Nat,
         value < Pow2[WordBits], start \div WordBits \in D, (start \div WordBits) + 1 \in D,
         NEW new, new = SetLowerBits(words, start, value)
  PROVE  /\ new \in [D -> Nat]
         /\ \A v \in D : new[v] \in Word \/ new[v] = words[v]
         /\ \A v \in D : v # start \div WordBits /\ v # (start \div WordBits) + 1 =>
              new[v] = words[v]
         /\ \A x \in Nat : x \div WordBits \in D =>
              (BitAt(new, 0, x) <=>
                 \/ BitAt(words, 0, x)
                 \/ x >= start /\ x - start < WordBits /\ IsSet(value, x - start))
<1>1. PICK w, s : IsSpot(start, w, s) /\ w = start \div WordBits /\ s = start % WordBits
  BY SpotIs
<1>2. /\ w \in Nat /\ s \in 0 .. WordBits - 1 /\ start = WordBits * w + s
      /\ WordBits \in Nat \ {0} /\ w \in D /\ w + 1 \in D
  BY <1>1, Powers DEF IsSpot
<1>3. PICK o, p : /\ o = Or(words[w], (value * Pow2[s]) % Pow2[WordBits])
                  /\ p = Or(words[w + 1], value \div Pow2[WordBits - s])
  OBVIOUS
<1>4. /\ o \in Word /\ o \in Nat
      /\ BitsOf(o) = BitsOf(words[w]) \cup BitsOf((value * Pow2[s]) % Pow2[WordBits])
  BY <1>3, OrIs, WordIs
<1>5. /\ p \in Word /\ p \in Nat
      /\ BitsOf(p) = BitsOf(words[w + 1]) \cup BitsOf(value \div Pow2[WordBits - s])
  BY <1>3, OrIs, WordIs
<1> DEFINE one == [words EXCEPT ![w] = o]
           two == [one EXCEPT ![w + 1] = p]
<1>6. /\ one \in [D -> Nat] /\ one[w] = o /\ one[w + 1] = words[w + 1]
      /\ \A v \in D : v # w => one[v] = words[v]
  BY <1>2, <1>4
<1>7. /\ two \in [D -> Nat] /\ two[w] = o /\ two[w + 1] = p
      /\ \A v \in D : v # w /\ v # w + 1 => two[v] = words[v]
  <2>1. w # w + 1
    BY <1>2
  <2> HIDE DEF one
  <2> QED BY <1>2, <1>5, <1>6, <2>1
<1>8. new = IF s = 0 THEN one ELSE two
  <2>1. one = [words EXCEPT ![w] = Or(@, (value * Pow2[s]) % Pow2[WordBits])]
    BY <1>3
  <2>2. two = [one EXCEPT ![w + 1] = Or(@, value \div Pow2[WordBits - s])]
    BY <1>3, <1>6
  <2> HIDE DEF one, two
  <2> QED BY <1>1, <2>1, <2>2 DEF SetLowerBits
<1> HIDE DEF one, two
<1>9. /\ new \in [D -> Nat] /\ new[w] = o
      /\ new[w + 1] = IF s = 0 THEN words[w + 1] ELSE p
      /\ \A v \in D : v # w /\ v # w + 1 => new[v] = words[v]
  BY <1>6, <1>7, <1>8
<1>10. ASSUME NEW b \in 0 .. WordBits - 1
       PROVE  b \in BitsOf(new[w]) <=>
                b \in BitsOf(words[w]) \/ (b >= s /\ IsSet(value, b - s))
  <2>1. b \in BitsOf((value * Pow2[s]) % Pow2[WordBits]) <=> b >= s /\ IsSet(value, b - s)
    BY <1>2, FirstPart
  <2>2. b \in BitsOf(new[w]) <=>
          b \in BitsOf(words[w]) \/ b \in BitsOf((value * Pow2[s]) % Pow2[WordBits])
    BY <1>4, <1>9
  <2> QED BY <2>1, <2>2
<1>11. ASSUME NEW b \in 0 .. WordBits - 1
       PROVE  b \in BitsOf(new[w + 1]) <=>
                \/ b \in BitsOf(words[w + 1])
                \/ b < s /\ IsSet(value, b + (WordBits - s))
  <2>1. CASE s = 0
    BY <1>9, <2>1
  <2>2. CASE s # 0
    <3>1. WordBits - s \in 0 .. WordBits
      BY <1>2
    <3>2. b \in BitsOf(value \div Pow2[WordBits - s]) <=>
            b + (WordBits - s) < WordBits /\ IsSet(value, b + (WordBits - s))
      BY <3>1, SecondPart
    <3>3. b + (WordBits - s) < WordBits <=> b < s
      BY <1>2
    <3> QED BY <1>5, <1>9, <2>2, <3>2, <3>3
  <2> QED BY <2>1, <2>2
<1>12. ASSUME NEW x \in Nat, x \div WordBits \in D
       PROVE  BitAt(new, 0, x) <=>
                 \/ BitAt(words, 0, x)
                 \/ x >= start /\ x - start < WordBits /\ IsSet(value, x - start)
  <2>1. PICK v, b : IsSpot(x, v, b) /\ v = x \div WordBits
    BY SpotIs
  <2>2. v \in Nat /\ b \in 0 .. WordBits - 1 /\ x = WordBits * v + b /\ v \in D /\ 0 + v = v
    BY <1>12, <2>1 DEF IsSpot
  <2>3. /\ BitAt(new, 0, x) <=> b \in BitsOf(new[v])
        /\ BitAt(words, 0, x) <=> b \in BitsOf(words[v])
    BY <2>1, <2>2, BitAtSpot
  <2>4. PICK y \in Nat, z \in Nat : y = WordBits * w /\ z = WordBits * v
    BY <1>2, <2>2
  <2>5. start = y + s /\ x = z + b
    BY <1>2, <2>2, <2>4
  <2>6. \A j, k \in Nat : j < k => WordBits * j + WordBits <= WordBits * k
    BY <1>2
  <2>7. CASE v = w
    <3>1. y = z
      BY <2>4, <2>7
    <3>2. (b >= s <=> x >= start /\ x - start < WordBits) /\ x - start = b - s
      BY <1>2, <2>2, <2>5, <3>1
    <3>3. b \in BitsOf(new[v]) <=>
            b \in BitsOf(words[v]) \/ (b >= s /\ IsSet(value, b - s))
      BY <1>10, <2>2, <2>7
    <3>4. IsSet(value, b - s) <=> IsSet(value, x - start)
      BY <3>2
    <3> QED BY <2>3, <3>2, <3>3, <3>4, Zenon
  <2>8. CASE v = w + 1
    <3>1. z = y + WordBits
      BY <1>2, <2>4, <2>8
    <3>2. /\ b < s <=> x >= start /\ x - start < WordBits
          /\ x - start = b + (WordBits - s)
      BY <1>2, <2>2, <2>5, <3>1
    <3>3. b \in BitsOf(new[v]) <=>
            b \in BitsOf(words[v]) \/ (b < s /\ IsSet(value, b + (WordBits - s)))
      BY <1>11, <2>2, <2>8
    <3>4. IsSet(value, b + (WordBits - s)) <=> IsSet(value, x - start)
      BY <3>2
    <3> QED BY <2>3, <3>2, <3>3, <3>4, Zenon
  <2>9. CASE v < w
    <3>1. z + WordBits <= y
      BY <1>2, <2>2, <2>4, <2>6, <2>9
    <3>2. x < start
      BY <1>2, <2>2, <2>5, <3>1
    <3>3. new[v] = words[v]
      BY <1>2, <1>9, <2>2, <2>9
    <3>4. start \in Nat /\ x \in Nat
      OBVIOUS
    <3>5. ~ (x >= start)
      BY <3>2, <3>4
    <3> QED BY <2>3, <3>3, <3>5
  <2>10. CASE v > w + 1
    <3>1. y + WordBits + WordBits <= z
      <4>1. w + 1 \in Nat /\ WordBits * (w + 1) = y + WordBits
        BY <1>2, <2>4
      <4> QED BY <2>2, <2>4, <2>6, <2>10, <4>1
    <3>2. ~ (x - start < WordBits)
      BY <1>2, <2>2, <2>5, <3>1
    <3>3. new[v] = words[v]
      BY <1>2, <1>9, <2>2, <2>10
    <3> QED BY <2>3, <3>2, <3>3
  <2>11. v = w \/ v = w + 1 \/ v < w \/ v > w + 1
    BY <1>2, <2>2
  <2> QED BY <2>7, <2>8, <2>9, <2>10, <2>11
<1>13. \A v \in D : new[v] \in Word \/ new[v] = words[v]
  BY <1>4, <1>5, <1>9
<1>14. \A v \in D : v # start \div WordBits /\ v # (start \div WordBits) + 1 =>
         new[v] = words[v]
  BY <1>1, <1>9
<1> QED BY <1>9, <1>12, <1>13, <1>14

\* The bits that get reads below the mask.
LEMMA LowerIs ==
  ASSUME NEW n \in Nat, L \in 1 .. WordBits - 1, n * L \in Nat,
         data[(n * L) \div WordBits] \in Word, data[((n * L) \div WordBits) + 1] \in Word
  PROVE  /\ LowerBits(n) \in Word
         /\ \A k \in 0 .. L - 1 : IsSet(LowerBits(n), k) <=> BitAt(data, 0, n * L + k)
<1>1. PICK x \in Nat : x = n * L
  OBVIOUS
<1>2. PICK w, s : IsSpot(x, w, s) /\ w = x \div WordBits /\ s = x % WordBits
  BY SpotIs
<1>3. /\ w \in Nat /\ s \in 0 .. WordBits - 1 /\ WordBits \in Nat \ {0}
      /\ WordBits \in 0 .. WordBits
  BY <1>2, Powers DEF IsSpot
<1>4. PICK a, b : a = data[w] /\ b = data[w + 1]
  OBVIOUS
<1>5. /\ a \in Word /\ a \in Nat /\ a < Pow2[WordBits]
      /\ b \in Word /\ b \in Nat
  BY <1>1, <1>2, <1>4, WordIs
<1> DEFINE high == IF s = 0 THEN 0 ELSE (b * Pow2[WordBits - s]) % Pow2[WordBits]
<1>6. LowerBits(n) = Or(a \div Pow2[s], high)
  BY <1>1, <1>2, <1>4 DEF LowerBits
<1> HIDE DEF high
<1>7. /\ LowerBits(n) \in Word
      /\ BitsOf(LowerBits(n)) = BitsOf(a \div Pow2[s]) \cup BitsOf(high)
  BY <1>6, OrIs
<1>8. ASSUME NEW k \in 0 .. L - 1
      PROVE  IsSet(LowerBits(n), k) <=> BitAt(data, 0, x + k)
  <2>1. k \in 0 .. WordBits - 1 /\ s \in 0 .. WordBits /\ x + k \in Nat /\ k \in 0 .. WordBits
    BY <1>3
  <2>2. IsSet(LowerBits(n), k) <=> k \in BitsOf(a \div Pow2[s]) \/ k \in BitsOf(high)
    BY <1>7, <2>1, BitsAre
  <2>3. k \in BitsOf(a \div Pow2[s]) <=> k + s < WordBits /\ IsSet(a, k + s)
    BY <1>5, <2>1, SecondPart
  <2>4. k \in BitsOf(high) <=> s # 0 /\ k >= WordBits - s /\ IsSet(b, k - (WordBits - s))
    <3>1. CASE s = 0
      <4>1. ~ IsSet(0, k)
        BY <2>1, NoBits
      <4> QED BY <2>1, <3>1, <4>1, BitsAre DEF high
    <3>2. CASE s # 0
      <4>1. WordBits - s \in 0 .. WordBits - 1
        BY <1>3, <3>2
      <4> QED BY <1>5, <2>1, <3>2, <4>1, FirstPart DEF high
    <3> QED BY <3>1, <3>2
  <2>5. CASE s + k < WordBits
    <3>1. IsSpot(x + k, w, s + k)
      BY <1>2, <1>3, <2>1, <2>5, Carry
    <3>2. BitAt(data, 0, x + k) <=> s + k \in BitsOf(data[0 + w])
      BY <2>1, <3>1, BitAtSpot
    <3>3. s + k \in 0 .. WordBits - 1 /\ s + k = k + s /\ 0 + w = w
      BY <1>3, <2>1, <2>5
    <3>4. BitAt(data, 0, x + k) <=> IsSet(a, k + s)
      BY <1>4, <3>2, <3>3, BitsAre
    <3>5. ~ (k >= WordBits - s)
      BY <1>3, <2>1, <2>5
    <3>6. k + s < WordBits
      BY <1>3, <2>1, <2>5
    <3> QED BY <2>2, <2>3, <2>4, <3>4, <3>5, <3>6, Zenon
  <2>6. CASE ~ (s + k < WordBits)
    <3>1. IsSpot(x + k, w + 1, s + k - WordBits)
      BY <1>2, <1>3, <2>1, <2>6, Carry
    <3>2. BitAt(data, 0, x + k) <=> s + k - WordBits \in BitsOf(data[0 + (w + 1)])
      BY <2>1, <3>1, BitAtSpot
    <3>3. /\ s + k - WordBits \in 0 .. WordBits - 1 /\ s + k - WordBits = k - (WordBits - s)
          /\ 0 + (w + 1) = w + 1
      BY <1>3, <2>1, <2>6
    <3>4. BitAt(data, 0, x + k) <=> IsSet(b, k - (WordBits - s))
      BY <1>4, <3>2, <3>3, BitsAre
    <3>5. s # 0 /\ k >= WordBits - s
      BY <1>3, <2>1, <2>6
    <3>6. ~ (k + s < WordBits)
      BY <1>3, <2>1, <2>6
    <3> QED BY <2>2, <2>3, <2>4, <3>4, <3>5, <3>6, Zenon
  <2> QED BY <2>5, <2>6
<1> QED BY <1>1, <1>7, <1>8

(***************************************************************************)
(* What the words say of the offsets.                                      *)
(***************************************************************************)

\* Where the one of the n-th offset is in the upper region.
Pos(o, n) == (o[n + 1] \div Pow2[L]) + n

\* These are offsets that may be added.
Sorted(o) ==
  /\ o \in Seq(0 .. maxOffset) /\ Len(o) <= count
  /\ \A j, k \in 1 .. Len(o) : j <= k => o[j] <= o[k]

LowRight(o, words) ==
  /\ \A w \in 0 .. WordsLower - 1 : words[w] \in Word
  /\ \A n \in 0 .. Len(o) - 1, k \in 0 .. L - 1 :
       BitAt(words, 0, n * L + k) <=> IsSet(o[n + 1], k)

\* No low bits are there of the offsets to come.
LowClear(o, words) ==
  \A x \in Nat : x >= Len(o) * L /\ x \div WordBits < WordsLower => ~ BitAt(words, 0, x)

UpRight(o, words) ==
  /\ \A w \in 0 .. WordsUpper - 1 : words[WordsLower + w] \in Word
  /\ \A x \in Nat : x \div WordBits < WordsUpper =>
       (BitAt(words, WordsLower, x) <=> \E n \in 0 .. Len(o) - 1 : Pos(o, n) = x)

\* The first one of the block that the n-th one is in.
BlockStart(n) == (n \div SuperQ) * SuperQ

\* The table of jumps, as far as it is there, for the first m ones.
JumpsRight(o, words, m) ==
  \A n \in 0 .. m - 1 : n % Q = 0 /\ {SuperEntry(n), HalfEntry(n)} \subseteq DOMAIN words =>
    /\ words[SuperEntry(n)] = Pos(o, BlockStart(n))
    /\ (words[HalfEntry(n)] \div Shift(n)) % Half = Pos(o, n) - Pos(o, BlockStart(n))

LEMMA OffsetIs ==
  ASSUME Sized, NEW o, Sorted(o), NEW n \in 0 .. Len(o) - 1
  PROVE  o[n + 1] \in 0 .. maxOffset
<1>1. o \in Seq(0 .. maxOffset) /\ Len(o) \in Nat /\ maxOffset \in Nat
  BY DEF Sized, Sorted
<1>2. n + 1 \in 1 .. Len(o)
  BY <1>1
<1> QED BY <1>1, <1>2

LEMMA PosIs ==
  ASSUME Sized, NEW o, Sorted(o)
  PROVE  /\ \A n \in 0 .. Len(o) - 1 :
              /\ Pos(o, n) \in Nat /\ Pos(o, n) >= n /\ Pos(o, n) < 3 * count
              /\ Pos(o, n) < WordBits * WordsUpper /\ Pos(o, n) \div WordBits \in Nat
              /\ Pos(o, n) \div WordBits < WordsUpper
         /\ \A n, m \in 0 .. Len(o) - 1 : n < m => Pos(o, n) < Pos(o, m)
<1>1. /\ count \in Nat \ {0} /\ maxOffset \in Nat /\ Len(o) \in Nat /\ Len(o) <= count
      /\ Pow2[L] \in Nat \ {0} /\ WordBits \in Nat \ {0} /\ WordsUpper \in Nat
  BY LowIs, RegionsAre, Powers DEF Sized, Sorted
<1>2. ASSUME NEW n \in 0 .. Len(o) - 1
      PROVE  n + 1 \in 1 .. Len(o) /\ o[n + 1] \in 0 .. maxOffset /\ n \in 0 .. count - 1
  BY <1>1 DEF Sorted
<1>3. ASSUME NEW n \in 0 .. Len(o) - 1
      PROVE  /\ Pos(o, n) \in Nat /\ Pos(o, n) >= n /\ Pos(o, n) < 3 * count
             /\ Pos(o, n) < WordBits * WordsUpper /\ Pos(o, n) \div WordBits \in Nat
             /\ Pos(o, n) \div WordBits < WordsUpper
  <2>1. PICK x \in 0 .. maxOffset : x = o[n + 1]
    BY <1>2
  <2>2. n \in 0 .. count - 1
    BY <1>2
  <2>3. PICK q \in Nat : /\ q = x \div Pow2[L] /\ q + n < WordBits * WordsUpper
                         /\ q + n < 3 * count
    BY <2>2, RegionsAre
  <2>4. Pos(o, n) = q + n /\ q + n \in Nat
    BY <2>1, <2>3 DEF Pos
  <2>5. PICK p \in Nat : p = q + n /\ p < WordBits * WordsUpper /\ p = Pos(o, n)
    BY <2>3, <2>4
  <2>6. p \div WordBits \in Nat /\ p \div WordBits < WordsUpper
    BY <1>1, <2>5, DivLess
  <2> QED BY <2>3, <2>4, <2>5, <2>6
<1>4. ASSUME NEW n \in 0 .. Len(o) - 1, NEW m \in 0 .. Len(o) - 1, n < m
      PROVE  Pos(o, n) < Pos(o, m)
  <2>1. PICK x \in Nat, y \in Nat : x = o[n + 1] /\ y = o[m + 1]
    BY <1>1, <1>2
  <2>2. x <= y
    <3>1. n + 1 \in 1 .. Len(o) /\ m + 1 \in 1 .. Len(o) /\ n + 1 <= m + 1
      BY <1>1, <1>4
    <3> QED BY <2>1, <3>1 DEF Sorted
  <2>3. x \div Pow2[L] <= y \div Pow2[L] /\ x \div Pow2[L] \in Nat /\ y \div Pow2[L] \in Nat
    BY <1>1, <2>2, DivMono
  <2> QED BY <1>4, <2>1, <2>3 DEF Pos
<1> QED BY <1>3, <1>4

\* The low bits are in the lower region, but for its last word.
LEMMA LowPlace ==
  ASSUME Sized, NEW n \in 0 .. count - 1, NEW k \in 0 .. L - 1
  PROVE  /\ n * L \in Nat /\ n * L + k \in Nat
         /\ (n * L + k) \div WordBits \in 0 .. WordsLower - 1
         /\ (n * L) \div WordBits \in 0 .. WordsLower - 2
<1>1. /\ WordsLower \in Nat \ {0} /\ count \in Nat /\ n \in Nat /\ n < count
      /\ L \in Nat /\ WordBits \in Nat \ {0} /\ count * L <= WordBits * (WordsLower - 1)
  BY RegionsAre, LowIs, Powers DEF Sized
<1>2. PICK l \in Nat \ {0}, a \in Nat, b \in Nat, f \in Nat :
        l = L /\ a = n * l /\ b = WordsLower - 1 /\ f = WordBits * b
  BY <1>1
<1>3. a + l <= f
  <2>1. \A u, v, w \in Nat : u < v => u * w + w <= v * w
    OBVIOUS
  <2>2. n * l + l <= count * l
    BY <1>1, <1>2, <2>1
  <2>3. count * l \in Nat /\ count * l <= f
    BY <1>1, <1>2
  <2> QED BY <1>2, <2>2, <2>3
<1>4. PICK y \in Nat : y = a + k /\ y < WordBits * b
  BY <1>2, <1>3
<1>5. y \div WordBits \in Nat /\ y \div WordBits < b
  BY <1>1, <1>4, DivLess
<1>6. a < WordBits * b
  BY <1>2, <1>3
<1>7. a \div WordBits \in Nat /\ a \div WordBits < b
  BY <1>1, <1>6, DivLess
<1> QED BY <1>1, <1>2, <1>4, <1>5, <1>7

\* What the words say depends on the two regions only.
LEMMA SameRegions ==
  ASSUME Sized, NEW o, Sorted(o), NEW words, NEW others,
         \A w \in 0 .. JumpBase - 1 : others[w] = words[w],
         LowRight(o, words), UpRight(o, words)
  PROVE  LowRight(o, others) /\ UpRight(o, others)
<1>1. /\ WordsLower \in Nat \ {0} /\ WordsUpper \in Nat
      /\ JumpBase = WordsLower + WordsUpper
  BY RegionsAre
<1>2. \A w \in 0 .. WordsLower - 1 : others[w] = words[w] /\ others[w] \in Word
  BY <1>1 DEF LowRight
<1>3. \A w \in 0 .. WordsUpper - 1 :
        others[WordsLower + w] = words[WordsLower + w] /\ others[WordsLower + w] \in Word
  <2> SUFFICES ASSUME NEW w \in 0 .. WordsUpper - 1
               PROVE  others[WordsLower + w] = words[WordsLower + w]
    BY DEF UpRight
  <2>1. WordsLower + w \in 0 .. JumpBase - 1
    BY <1>1
  <2> QED BY <2>1
<1>4. ASSUME NEW n \in 0 .. Len(o) - 1, NEW k \in 0 .. L - 1
      PROVE  BitAt(others, 0, n * L + k) <=> IsSet(o[n + 1], k)
  <2>1. PICK x \in Nat : x = n * L + k /\ x \div WordBits \in 0 .. WordsLower - 1
    <3>1. n \in 0 .. count - 1
      BY DEF Sized, Sorted
    <3> QED BY <3>1, LowPlace
  <2>2. x \div WordBits \in 0 .. WordsLower - 1
    BY <2>1
  <2>3. BitAt(others, 0, x) <=> BitAt(words, 0, x)
    <3>1. others[0 + (x \div WordBits)] = words[0 + (x \div WordBits)]
      BY <1>2, <2>2
    <3> QED BY <3>1 DEF BitAt
  <2>4. BitAt(words, 0, n * L + k) <=> IsSet(o[n + 1], k)
    BY DEF LowRight
  <2> QED BY <2>1, <2>3, <2>4
<1>5. ASSUME NEW x \in Nat, x \div WordBits < WordsUpper
      PROVE  BitAt(others, WordsLower, x) <=> \E n \in 0 .. Len(o) - 1 : Pos(o, n) = x
  <2>1. x \div WordBits \in 0 .. WordsUpper - 1
    <3>1. WordBits \in Nat \ {0}
      BY Powers
    <3>2. x \div WordBits \in Nat
      BY <3>1, Euclid
    <3> QED BY <1>1, <1>5, <3>2
  <2>2. BitAt(others, WordsLower, x) <=> BitAt(words, WordsLower, x)
    BY <1>3, <2>1 DEF BitAt
  <2>3. BitAt(words, WordsLower, x) <=> \E n \in 0 .. Len(o) - 1 : Pos(o, n) = x
    BY <1>5 DEF UpRight
  <2> QED BY <2>2, <2>3
<1> QED BY <1>2, <1>3, <1>4, <1>5 DEF LowRight, UpRight

LEMMA SameUpper ==
  ASSUME Sized, NEW o, NEW words, NEW others, UpRight(o, words),
         \A w \in 0 .. Size - 1 : w >= WordsLower => others[w] = words[w]
  PROVE  UpRight(o, others)
<1>1. /\ WordsLower \in Nat \ {0} /\ WordsUpper \in Nat
      /\ JumpBase = WordsLower + WordsUpper /\ Size \in Nat /\ JumpBase <= Size
  <2>1. 0 \in 0 .. count - 1
    BY DEF Sized
  <2> QED BY <2>1, RegionsAre, PlaceFits
<1>2. \A w \in 0 .. WordsUpper - 1 : others[WordsLower + w] = words[WordsLower + w]
  BY <1>1
<1>3. \A x \in Nat : x \div WordBits \in Nat
  BY Powers, Euclid
<1>4. ASSUME NEW x \in Nat, x \div WordBits < WordsUpper
      PROVE  BitAt(others, WordsLower, x) <=> BitAt(words, WordsLower, x)
  <2>1. x \div WordBits \in 0 .. WordsUpper - 1
    BY <1>1, <1>3, <1>4
  <2> QED BY <1>2, <2>1 DEF BitAt
<1> QED BY <1>2, <1>4 DEF UpRight

LEMMA SameLower ==
  ASSUME Sized, NEW o, NEW words, NEW others,
         \A w \in 0 .. WordsLower - 1 : others[w] = words[w],
         LowRight(o, words), LowClear(o, words), Sorted(o)
  PROVE  LowRight(o, others) /\ LowClear(o, others)
<1>1. WordsLower \in Nat \ {0} /\ count \in Nat /\ count * L \in Nat
  BY RegionsAre DEF Sized
<1>2. \A x \in Nat : x \div WordBits \in Nat
  BY Powers, Euclid
<1>3. ASSUME NEW x \in Nat, x \div WordBits < WordsLower
      PROVE  BitAt(others, 0, x) <=> BitAt(words, 0, x)
  <2>1. PICK y \in Nat : y = x \div WordBits
    BY <1>2
  <2>2. y \in 0 .. WordsLower - 1 /\ 0 + y = y
    BY <1>1, <1>3, <2>1
  <2> QED BY <2>1, <2>2 DEF BitAt
<1>4. ASSUME NEW n \in 0 .. Len(o) - 1, NEW k \in 0 .. L - 1
      PROVE  BitAt(others, 0, n * L + k) <=> BitAt(words, 0, n * L + k)
  <2>1. n * L + k \in Nat /\ (n * L + k) \div WordBits < WordsLower
    <3>1. n \in 0 .. count - 1
      BY <1>1 DEF Sorted
    <3>2. PICK x \in Nat : x = n * L + k /\ x \div WordBits \in 0 .. WordsLower - 1
      BY <3>1, LowPlace
    <3>3. x \div WordBits < WordsLower
      BY <1>1, <3>2
    <3> QED BY <3>2, <3>3
  <2> QED BY <1>3, <2>1
<1>5. LowRight(o, others)
  BY <1>4 DEF LowRight
<1>6. LowClear(o, others)
  BY <1>3 DEF LowClear
<1> QED BY <1>5, <1>6

\* A builder starts with nothing set.
LEMMA NewRight ==
  ASSUME Sized, NEW words, words = [w \in 0 .. Size - 1 |-> 0]
  PROVE  /\ words \in [0 .. Size - 1 -> Nat]
         /\ LowRight(<<>>, words) /\ LowClear(<<>>, words) /\ UpRight(<<>>, words)
<1>1. /\ WordsLower \in Nat \ {0} /\ WordsUpper \in Nat
      /\ JumpBase = WordsLower + WordsUpper /\ Size \in Nat /\ JumpBase <= Size
  <2>1. 0 \in 0 .. count - 1
    BY DEF Sized
  <2> QED BY <2>1, RegionsAre, PlaceFits
<1>2. \A w \in 0 .. Size - 1 : words[w] = 0
  OBVIOUS
<1>3. 0 \in Word
  <2>1. WordBits \in 0 .. WordBits
    BY Powers
  <2>2. Pow2[WordBits] \in Nat \ {0}
    BY <2>1, Powers
  <2> QED BY <2>2, WordIs
<1>4. \A b \in 0 .. WordBits - 1 : b \notin BitsOf(0)
  BY NoBits, BitsAre, Powers
<1>5. ASSUME NEW base \in Nat, NEW x \in Nat, base + (x \div WordBits) \in 0 .. Size - 1
      PROVE  ~ BitAt(words, base, x)
  <2>1. x % WordBits \in 0 .. WordBits - 1
    BY Powers, Euclid
  <2>2. words[base + (x \div WordBits)] = 0
    BY <1>2, <1>5
  <2> QED BY <1>4, <2>1, <2>2 DEF BitAt
<1>6. \A x \in Nat : x \div WordBits \in Nat
  BY Powers, Euclid
<1>7. LowRight(<<>>, words)
  <2>1. \A w \in 0 .. WordsLower - 1 : words[w] \in Word
    BY <1>1, <1>2, <1>3
  <2>2. 0 .. Len(<<>>) - 1 = {}
    OBVIOUS
  <2> QED BY <2>1, <2>2 DEF LowRight
<1>8. LowClear(<<>>, words)
  <2> SUFFICES ASSUME NEW x \in Nat, x \div WordBits < WordsLower
               PROVE  ~ BitAt(words, 0, x)
    BY DEF LowClear
  <2>1. 0 + (x \div WordBits) \in 0 .. Size - 1
    BY <1>1, <1>6
  <2> QED BY <1>5, <2>1
<1>9. UpRight(<<>>, words)
  <2>1. \A w \in 0 .. WordsUpper - 1 : words[WordsLower + w] \in Word
    <3> SUFFICES ASSUME NEW w \in 0 .. WordsUpper - 1 PROVE words[WordsLower + w] \in Word
      OBVIOUS
    <3>1. WordsLower + w \in 0 .. Size - 1
      BY <1>1
    <3> QED BY <1>2, <1>3, <3>1
  <2>2. 0 .. Len(<<>>) - 1 = {}
    OBVIOUS
  <2>3. ASSUME NEW x \in Nat, x \div WordBits < WordsUpper
        PROVE  ~ BitAt(words, WordsLower, x)
    <3>1. WordsLower + (x \div WordBits) \in 0 .. Size - 1
      <4>1. PICK y \in Nat : y = x \div WordBits
        BY <1>6
      <4> QED BY <1>1, <2>3, <4>1
    <3> QED BY <1>1, <1>5, <3>1
  <2> QED BY <2>1, <2>2, <2>3 DEF UpRight
<1> QED BY <1>7, <1>8, <1>9

\* The words of a builder.
IsRow(words) == words \in [0 .. Size - 1 -> Nat]

\* An offset is added: to the sequence, and its low bits to the words.
Added(o, offset) == Append(o, offset)

LowAdded(o, offset, words) ==
  IF L = 0 THEN words ELSE SetLowerBits(words, Len(o) * L, offset % Pow2[L])

LEMMA AddLow ==
  ASSUME Sized, NEW o, Sorted(o), Len(o) < count, NEW offset \in 0 .. maxOffset,
         NEW p, p = Added(o, offset),
         NEW words, IsRow(words), LowRight(o, words), LowClear(o, words),
         NEW low, low = LowAdded(o, offset, words)
  PROVE  /\ IsRow(low) /\ LowRight(p, low) /\ LowClear(p, low)
         /\ \A w \in 0 .. Size - 1 : w >= WordsLower => low[w] = words[w]
<1>1. PICK n \in Nat : n = Len(o)
  BY DEF Sorted
<1>2. Len(p) = n + 1 /\ p[n + 1] = offset /\ \A m \in 0 .. n - 1 : p[m + 1] = o[m + 1]
  BY <1>1 DEF Sorted, Added
<1>3. CASE L = 0
  <2>1. 0 .. L - 1 = {}
    BY <1>3
  <2>2. n * L = 0 /\ (n + 1) * L = 0
    BY <1>3
  <2> QED BY <1>1, <1>2, <1>3, <2>1, <2>2 DEF LowRight, LowClear, LowAdded
<1>4. CASE L # 0
  <2>1. /\ WordsLower \in Nat \ {0} /\ WordsUpper \in Nat
        /\ JumpBase = WordsLower + WordsUpper /\ Size \in Nat /\ JumpBase <= Size
    <3>1. 0 \in 0 .. count - 1
      BY DEF Sized
    <3> QED BY <3>1, RegionsAre, PlaceFits
  <2>2. PICK l \in 1 .. WordBits - 1 : l = L
    BY <1>4, LowIs
  <2>3. l \in 0 .. WordBits /\ WordBits \in Nat \ {0} /\ WordBits \in 0 .. WordBits
    BY Powers
  <2>4. PICK start \in Nat : start = n * l
    BY <1>1
  <2>5. (n + 1) * l = start + l
    BY <2>4
  <2>6. start + l <= WordBits * (WordsLower - 1)
    <3>1. \A a, b, c2 \in Nat : a <= b => a * c2 <= b * c2
      OBVIOUS
    <3>2. count \in Nat /\ n + 1 \in Nat /\ n + 1 <= count /\ l \in Nat
      BY <1>1, <2>3 DEF Sized
    <3>3. (n + 1) * l <= count * l
      BY <3>1, <3>2
    <3>4. count * l \in Nat /\ count * l <= WordBits * (WordsLower - 1)
      BY <2>2, RegionsAre
    <3>5. PICK e \in Nat : e = WordsLower - 1
      BY <2>1
    <3>6. PICK f \in Nat : f = WordBits * e
      BY <2>3
    <3> QED BY <2>3, <2>5, <3>3, <3>4, <3>5, <3>6
  <2>7. start \div WordBits \in Nat /\ start \div WordBits < WordsLower - 1
    <3>1. PICK e \in Nat : e = WordsLower - 1
      BY <2>1
    <3>2. PICK f \in Nat : f = WordBits * e
      BY <2>3
    <3>3. start < WordBits * e
      BY <2>6, <3>1, <3>2
    <3> QED BY <2>3, <3>1, <3>3, DivLess
  <2>8. PICK value \in Nat : value = offset % Pow2[l] /\ value < Pow2[l]
    <3>1. PICK m \in Nat \ {0} : m = Pow2[l]
      BY <2>3, Powers
    <3>2. offset % m \in 0 .. m - 1
      <4>1. offset \in Nat
        OBVIOUS
      <4> QED BY <4>1, Euclid
    <3> QED BY <3>1, <3>2
  <2>9. \A b \in 0 .. WordBits - 1 : IsSet(value, b) <=> b < l /\ IsSet(offset, b)
    <3>1. offset \in Nat
      OBVIOUS
    <3> QED BY <2>3, <2>8, <3>1, ModBits
  <2>10. value < Pow2[WordBits]
    <3>1. Pow2[l] <= Pow2[WordBits] /\ Pow2[l] \in Nat /\ Pow2[WordBits] \in Nat
      <4>1. l <= WordBits
        BY <2>3
      <4> QED BY <2>3, <4>1, Powers
    <3> QED BY <2>8, <3>1
  <2>11. low = SetLowerBits(words, start, value)
    BY <1>1, <1>4, <2>2, <2>4, <2>8 DEF LowAdded
  <2>0. PICK D : D = 0 .. Size - 1
    OBVIOUS
  <2>12. start \div WordBits \in D /\ (start \div WordBits) + 1 \in D
    BY <2>0, <2>1, <2>7
  <2>13. /\ low \in [D -> Nat]
         /\ \A v \in D : low[v] \in Word \/ low[v] = words[v]
         /\ \A v \in D : v # start \div WordBits /\ v # (start \div WordBits) + 1 =>
              low[v] = words[v]
         /\ \A x \in Nat : x \div WordBits \in D =>
              (BitAt(low, 0, x) <=>
                 \/ BitAt(words, 0, x)
                 \/ x >= start /\ x - start < WordBits /\ IsSet(value, x - start))
    <3>1. words \in [D -> Nat]
      BY <2>0 DEF IsRow
    <3> QED BY <2>10, <2>11, <2>12, <3>1, SetLowerIs
  <2>14. ASSUME NEW w \in D, w >= WordsLower PROVE low[w] = words[w]
    <3>1. w # start \div WordBits /\ w # (start \div WordBits) + 1
      BY <2>0, <2>1, <2>7, <2>14
    <3> QED BY <2>13, <3>1
  <2>15. \A w \in 0 .. WordsLower - 1 : low[w] \in Word
    BY <2>0, <2>1, <2>13 DEF LowRight
  <2>16. ASSUME NEW x \in Nat, x \div WordBits < WordsLower
         PROVE  BitAt(low, 0, x) <=>
                   \/ BitAt(words, 0, x)
                   \/ x >= start /\ x - start < l /\ IsSet(offset, x - start)
    <3>1. x \div WordBits \in D
      <4>1. x \div WordBits \in Nat
        BY <2>3, Euclid
      <4> QED BY <2>0, <2>1, <2>16, <4>1
    <3>2. ASSUME x >= start, x - start < WordBits
          PROVE  IsSet(value, x - start) <=> x - start < l /\ IsSet(offset, x - start)
      <4>1. x - start \in 0 .. WordBits - 1
        BY <2>3, <3>2
      <4> QED BY <2>9, <4>1
    <3>3. x - start < l => x - start < WordBits
      BY <2>3
    <3>4. BitAt(low, 0, x) <=>
                 \/ BitAt(words, 0, x)
                 \/ x >= start /\ x - start < WordBits /\ IsSet(value, x - start)
      BY <2>13, <3>1
    <3> QED BY <3>2, <3>3, <3>4, Zenon
  <2>17. ASSUME NEW x \in Nat, x < start + l
         PROVE  x \div WordBits < WordsLower
    <3>1. PICK e \in Nat : e = WordsLower - 1
      BY <2>1
    <3>2. PICK f \in Nat : f = WordBits * e
      BY <2>3
    <3>3. x < WordBits * e
      BY <2>3, <2>6, <2>17, <3>1, <3>2
    <3>4. x \div WordBits < e /\ x \div WordBits \in Nat
      BY <2>3, <3>3, DivLess
    <3> QED BY <2>1, <3>1, <3>4
  <2>18. ASSUME NEW m \in 0 .. n, NEW k \in 0 .. l - 1
         PROVE  BitAt(low, 0, m * l + k) <=> IsSet(p[m + 1], k)
    <3>1. CASE m = n
      <4>1. PICK x \in Nat : x = m * l + k /\ x = start + k
        BY <2>4, <3>1
      <4>2. x < start + l /\ x >= start /\ x - start = k /\ k < l
        BY <2>3, <4>1
      <4>3. x \div WordBits < WordsLower
        BY <2>17, <4>2
      <4>4. ~ BitAt(words, 0, x)
        BY <1>1, <2>2, <2>4, <4>2, <4>3 DEF LowClear
      <4>5. BitAt(low, 0, x) <=>
                   \/ BitAt(words, 0, x)
                   \/ x >= start /\ x - start < l /\ IsSet(offset, x - start)
        BY <2>16, <4>3
      <4>6. BitAt(low, 0, x) <=> IsSet(offset, k)
        BY <4>2, <4>4, <4>5
      <4> QED BY <1>2, <3>1, <4>1, <4>6
    <3>2. CASE m # n
      <4>1. m \in 0 .. n - 1 /\ m \in 0 .. Len(o) - 1 /\ k \in 0 .. L - 1
        BY <1>1, <2>2, <3>2
      <4>2. PICK y \in Nat : y = m * l /\ y + l <= start
        <5>1. \A a, b, c2 \in Nat : a < b => a * c2 + c2 <= b * c2 /\ a * c2 \in Nat
          OBVIOUS
        <5> QED BY <2>3, <2>4, <4>1, <5>1
      <4>3. PICK x \in Nat : x = m * l + k /\ x = y + k
        BY <4>2
      <4>4. x < start /\ ~ (x >= start) /\ x < start + l
        BY <2>3, <4>2, <4>3
      <4>5. BitAt(low, 0, x) <=> BitAt(words, 0, x)
        BY <2>16, <2>17, <4>4
      <4>6. BitAt(words, 0, m * L + k) <=> IsSet(o[m + 1], k)
        BY <4>1 DEF LowRight
      <4> QED BY <1>2, <2>2, <4>1, <4>3, <4>5, <4>6
    <3> QED BY <3>1, <3>2
  <2>19. LowRight(p, low)
    <3>1. Len(p) - 1 = n /\ l = L
      BY <1>2, <2>2
    <3> QED BY <2>15, <2>18, <3>1 DEF LowRight
  <2>20. LowClear(p, low)
    <3> SUFFICES ASSUME NEW x \in Nat, x >= start + l, x \div WordBits < WordsLower
                 PROVE  ~ BitAt(low, 0, x)
      BY <1>2, <2>2, <2>5 DEF LowClear
    <3>1. x >= start /\ ~ (x - start < l)
      BY <2>3
    <3>2. ~ BitAt(words, 0, x)
      BY <1>1, <2>2, <2>4, <3>1 DEF LowClear
    <3> QED BY <2>16, <3>1, <3>2
  <2> QED BY <2>0, <2>13, <2>14, <2>19, <2>20 DEF IsRow
<1> QED BY <1>3, <1>4

LEMMA AddUp ==
  ASSUME Sized, NEW o, Sorted(o), Len(o) < count, NEW offset \in 0 .. maxOffset,
         NEW p, p = Added(o, offset), Sorted(p),
         NEW low, IsRow(low), UpRight(o, low), NEW new, NEW pos,
         pos = (offset \div Pow2[L]) + Len(o),
         new = SetAt(low, WordsLower, pos)
  PROVE  /\ IsRow(new) /\ UpRight(p, new)
         /\ \A w \in 0 .. WordsLower - 1 : new[w] = low[w]
<1>1. PICK n \in Nat : n = Len(o)
  BY DEF Sorted
<1>2. Len(p) = n + 1 /\ p[n + 1] = offset /\ \A m \in 0 .. n - 1 : p[m + 1] = o[m + 1]
  BY <1>1 DEF Sorted, Added
<1>3. /\ WordsLower \in Nat \ {0} /\ WordsUpper \in Nat
      /\ JumpBase = WordsLower + WordsUpper /\ Size \in Nat /\ JumpBase <= Size
  <2>1. 0 \in 0 .. count - 1
    BY DEF Sized
  <2> QED BY <2>1, RegionsAre, PlaceFits
<1>4. Pos(p, n) = pos /\ \A m \in 0 .. n - 1 : Pos(p, m) = Pos(o, m)
  BY <1>1, <1>2 DEF Pos
<1>5. pos \in Nat /\ pos \div WordBits \in Nat /\ pos \div WordBits < WordsUpper
  <2>1. n \in 0 .. Len(p) - 1
    BY <1>2
  <2> QED BY <1>4, <2>1, PosIs
<1>0. PICK D : D = 0 .. Size - 1
  OBVIOUS
<1>6. WordsLower + (pos \div WordBits) \in D /\ WordsLower \in Nat
  BY <1>0, <1>3, <1>5
<1>7. /\ new \in [D -> Nat]
      /\ new[WordsLower + (pos \div WordBits)] \in Word
      /\ \A w \in D : w # WordsLower + (pos \div WordBits) => new[w] = low[w]
      /\ \A x \in Nat : WordsLower + (x \div WordBits) \in D =>
           (BitAt(new, WordsLower, x) <=> BitAt(low, WordsLower, x) \/ x = pos)
  <2>1. low \in [D -> Nat]
    BY <1>0 DEF IsRow
  <2>2. PICK base \in Nat : base = WordsLower
    BY <1>6
  <2>3. PICK q \in Nat : q = pos
    BY <1>5
  <2>4. base + (q \div WordBits) \in D /\ new = SetAt(low, base, q)
    BY <1>5, <1>6, <2>2, <2>3
  <2>5. /\ new \in [D -> Nat]
        /\ new[base + (q \div WordBits)] \in Word
        /\ \A w \in D : w # base + (q \div WordBits) => new[w] = low[w]
        /\ \A x \in Nat : base + (x \div WordBits) \in D =>
             (BitAt(new, base, x) <=> BitAt(low, base, x) \/ x = q)
    BY <2>1, <2>4, SetBit
  <2> QED BY <2>2, <2>3, <2>5
<1>8. \A w \in 0 .. WordsLower - 1 : new[w] = low[w]
  <2> SUFFICES ASSUME NEW w \in 0 .. WordsLower - 1 PROVE new[w] = low[w]
    OBVIOUS
  <2>1. w \in D /\ w # WordsLower + (pos \div WordBits)
    BY <1>0, <1>3, <1>5
  <2> QED BY <1>7, <2>1
<1>9. ASSUME NEW w \in 0 .. WordsUpper - 1 PROVE new[WordsLower + w] \in Word
  <2>1. WordsLower + w \in D
    BY <1>0, <1>3
  <2>2. low[WordsLower + w] \in Word
    BY DEF UpRight
  <2> QED BY <1>7, <2>1, <2>2
<1>10. ASSUME NEW x \in Nat, x \div WordBits < WordsUpper
       PROVE  BitAt(new, WordsLower, x) <=> \E m \in 0 .. Len(p) - 1 : Pos(p, m) = x
  <2>1. WordsLower + (x \div WordBits) \in D
    <3>1. x \div WordBits \in Nat
      BY Powers, Euclid
    <3> QED BY <1>0, <1>3, <1>10, <3>1
  <2>2. BitAt(new, WordsLower, x) <=> BitAt(low, WordsLower, x) \/ x = pos
    BY <1>7, <2>1
  <2>3. BitAt(low, WordsLower, x) <=> \E m \in 0 .. n - 1 : Pos(o, m) = x
    BY <1>1, <1>10 DEF UpRight
  <2>4. (\E m \in 0 .. n : Pos(p, m) = x) <=> (\E m \in 0 .. n - 1 : Pos(o, m) = x) \/ x = pos
    <3>1. \A m \in 0 .. n : m = n \/ m \in 0 .. n - 1
      OBVIOUS
    <3>2. n \in 0 .. n /\ \A m \in 0 .. n - 1 : m \in 0 .. n
      OBVIOUS
    <3> QED BY <1>4, <3>1, <3>2
  <2>5. 0 .. Len(p) - 1 = 0 .. n
    BY <1>2
  <2> QED BY <2>2, <2>3, <2>4, <2>5
<1> QED BY <1>0, <1>7, <1>8, <1>9, <1>10 DEF UpRight, IsRow

(***************************************************************************)
(* The table of jumps.                                                     *)
(***************************************************************************)
LEMMA BlockIs ==
  ASSUME NEW n \in Nat
  PROVE  /\ BlockStart(n) \in 0 .. n /\ BlockStart(n) % Q = 0
         /\ BlockStart(n) \div SuperQ = n \div SuperQ
         /\ BlockStart(BlockStart(n)) = BlockStart(n)
         /\ SuperEntry(BlockStart(n)) = SuperEntry(n)
         /\ n % SuperQ = 0 <=> BlockStart(n) = n
<1>1. PICK h \in Nat : h = 2 * Pairs
  BY PairsAre
<1>2. Q \in Nat \ {0} /\ SuperQ \in Nat \ {0} /\ SuperQ = Q * h
  BY <1>1, PairsAre
<1>3. PICK a \in Nat, r \in 0 .. SuperQ - 1 :
        n = SuperQ * a + r /\ a = n \div SuperQ /\ r = n % SuperQ
  BY <1>2, Euclid
<1>4. PICK b \in Nat : b = SuperQ * a
  BY <1>2
<1>5. BlockStart(n) = b
  <2>1. a * SuperQ = SuperQ * a
    BY <1>2
  <2> QED BY <1>3, <1>4, <2>1 DEF BlockStart
<1>6. b \in 0 .. n /\ (r = 0 <=> b = n)
  <2>1. n = b + r
    BY <1>3, <1>4
  <2>2. r \in Nat
    BY <1>2
  <2> QED BY <2>1, <2>2
<1>7. b \div SuperQ = a
  <2>1. b = SuperQ * a + 0 /\ 0 < SuperQ
    BY <1>2, <1>4
  <2> QED BY <1>2, <2>1, EuclidUnique
<1>8. b % Q = 0
  <2>1. \A x, y, z \in Int : (x * y) * z = x * (y * z)
    OBVIOUS
  <2>2. PICK k \in Nat : k = h * a
    OBVIOUS
  <2>3. b = Q * k + 0 /\ 0 < Q
    BY <1>2, <1>4, <2>1, <2>2
  <2> QED BY <1>2, <2>3, EuclidUnique
<1>9. BlockStart(b) = b
  BY <1>3, <1>5, <1>7 DEF BlockStart
<1>10. SuperEntry(b) = SuperEntry(n)
  BY <1>3, <1>7 DEF SuperEntry
<1> QED BY <1>3, <1>5, <1>6, <1>7, <1>8, <1>9, <1>10

LEMMA PutHalfIs ==
  ASSUME NEW w \in Nat, NEW value \in 0 .. Half - 1
  PROVE  /\ PutHalf(w, 1, value) \in Nat /\ PutHalf(w, Half, value) \in Nat
         /\ (PutHalf(w, 1, value) \div 1) % Half = value
         /\ (PutHalf(w, 1, value) \div Half) % Half = (w \div Half) % Half
         /\ (PutHalf(w, Half, value) \div Half) % Half = value
         /\ (PutHalf(w, Half, value) \div 1) % Half = (w \div 1) % Half
<1>1. PICK m \in Nat \ {0} : m = Half
  BY PairsAre
<1>2. value \in Nat /\ value < m /\ \A x \in Nat : x \div 1 = x
  BY <1>1
<1>3. PICK q \in Nat, r \in 0 .. m - 1 : w = m * q + r /\ q = w \div m /\ r = w % m
  BY Euclid
<1>4. PICK p \in Nat, s \in 0 .. m - 1 : q = m * p + s /\ p = q \div m /\ s = q % m
  BY Euclid
<1>5. PICK x \in Nat : x = m * q + value
  BY <1>2
<1>6. PutHalf(w, 1, value) = x
  <2>1. (w \div 1) % m = r
    BY <1>2, <1>3
  <2>2. PutHalf(w, 1, value) = w - ((w \div 1) % m) * 1 + value * 1
    BY <1>1 DEF PutHalf
  <2>3. r * 1 = r /\ value * 1 = value /\ r \in Nat
    BY <1>2
  <2>4. PICK u \in Nat : u = m * q
    OBVIOUS
  <2>5. w = u + r /\ x = u + value
    BY <1>3, <1>5, <2>4
  <2>6. PutHalf(w, 1, value) = w - r + value
    BY <2>1, <2>2, <2>3
  <2> QED BY <1>2, <2>3, <2>4, <2>5, <2>6
<1>7. x \div m = q /\ x % m = value
  BY <1>2, <1>5, EuclidUnique
<1>8. PICK t \in Nat : t = m * p + value
  BY <1>2
<1>9. t % m = value
  BY <1>2, <1>8, EuclidUnique
<1>10. PICK y \in Nat : y = m * t + r
  BY <1>2
<1>11. y \div m = t /\ y % m = r
  <2>1. r \in Nat /\ r < m
    OBVIOUS
  <2> QED BY <1>10, <2>1, EuclidUnique
<1>12. PutHalf(w, Half, value) = y
  <2>1. (w \div m) % m = s
    BY <1>3, <1>4
  <2>2. PutHalf(w, Half, value) = w - s * m + value * m
    BY <1>1, <2>1 DEF PutHalf
  <2>3. m * q = m * (m * p) + s * m
    BY <1>4
  <2>4. m * t = m * (m * p) + value * m
    BY <1>2, <1>8
  <2>5. PICK a \in Nat, b \in Nat, e \in Nat :
          a = m * (m * p) /\ b = s * m /\ e = value * m
    BY <1>2
  <2>6. w = a + b + r /\ y = a + e + r
    BY <1>3, <1>10, <2>3, <2>4, <2>5
  <2>7. r \in Nat
    OBVIOUS
  <2> QED BY <2>2, <2>5, <2>6, <2>7
<1>13. (x \div 1) % m = value /\ (x \div m) % m = (w \div m) % m
  BY <1>2, <1>3, <1>7
<1>14. (y \div m) % m = value /\ (y \div 1) % m = (w \div 1) % m
  BY <1>2, <1>3, <1>9, <1>11
<1> QED BY <1>1, <1>6, <1>12, <1>13, <1>14

\* What build does to the table at the n-th one.
Entered(words, n, pos, last) ==
  LET super == IF n % SuperQ # 0 THEN words ELSE [words EXCEPT ![SuperEntry(n)] = pos]
  IN  [super EXCEPT ![HalfEntry(n)] = PutHalf(@, Shift(n), pos - last)]

LEMMA EnterJump ==
  ASSUME Sized, NEW o, Sorted(o), Len(o) = count, NEW n \in 0 .. count - 1, n % Q = 0,
         NEW words, IsRow(words), JumpsRight(o, words, n),
         Pos(o, n) - Pos(o, BlockStart(n)) < Half,
         NEW new, new = Entered(words, n, Pos(o, n), Pos(o, BlockStart(n)))
  PROVE  /\ IsRow(new) /\ JumpsRight(o, new, n + 1)
         /\ \A w \in 0 .. JumpBase - 1 : new[w] = words[w]
<1>1. count \in Nat /\ n \in Nat /\ JumpBase \in Nat /\ Half \in Nat /\ Half >= 2
  BY RegionsAre, PairsAre DEF Sized
<1>2. PICK b \in 0 .. n : b = BlockStart(n)
  BY <1>1, BlockIs
<1>3. /\ b % Q = 0 /\ b \div SuperQ = n \div SuperQ /\ BlockStart(b) = b
      /\ SuperEntry(b) = SuperEntry(n) /\ (n % SuperQ = 0 <=> b = n) /\ b \in 0 .. count - 1
  BY <1>1, <1>2, BlockIs
<1>4. PICK x \in Nat, y \in Nat : x = Pos(o, n) /\ y = Pos(o, b) /\ y <= x
  <2>1. Pos(o, n) \in Nat /\ Pos(o, b) \in Nat
    BY <1>3, PosIs
  <2>2. b < n => Pos(o, b) < Pos(o, n)
    BY <1>3, PosIs
  <2>3. b = n \/ b < n
    BY <1>1, <1>2
  <2> QED BY <2>1, <2>2, <2>3
<1>5. PICK value \in 0 .. Half - 1 : value = x - y
  BY <1>1, <1>2, <1>4
<1>6. \A k \in 0 .. n :
        /\ SuperEntry(k) \in 0 .. Size - 1 /\ HalfEntry(k) \in 0 .. Size - 1
        /\ SuperEntry(k) \notin 0 .. JumpBase - 1 /\ HalfEntry(k) \notin 0 .. JumpBase - 1
  <2> SUFFICES ASSUME NEW k \in 0 .. n
               PROVE  /\ SuperEntry(k) \in 0 .. Size - 1 /\ HalfEntry(k) \in 0 .. Size - 1
                      /\ SuperEntry(k) \notin 0 .. JumpBase - 1
                      /\ HalfEntry(k) \notin 0 .. JumpBase - 1
    OBVIOUS
  <2>1. k \in 0 .. count - 1
    BY <1>1
  <2>2. /\ JumpBase <= SuperEntry(k) /\ SuperEntry(k) < HalfEntry(k)
        /\ HalfEntry(k) < Size /\ SuperEntry(k) \in Nat /\ HalfEntry(k) \in Nat
        /\ Size \in Nat
    BY <2>1, PlaceFits
  <2> QED BY <1>1, <2>2
<1> DEFINE super == IF n % SuperQ # 0 THEN words ELSE [words EXCEPT ![SuperEntry(n)] = x]
<1>7. n \in 0 .. n
  BY <1>1
<1>8. /\ super \in [0 .. Size - 1 -> Nat]
      /\ n % SuperQ = 0 => super[SuperEntry(n)] = x
      /\ n % SuperQ # 0 => super = words
      /\ \A w \in 0 .. Size - 1 : w # SuperEntry(n) => super[w] = words[w]
  BY <1>6, <1>7 DEF IsRow
<1>9. PICK v \in Nat : v = super[HalfEntry(n)]
  BY <1>6, <1>7, <1>8
<1>10. PICK z \in Nat : z = PutHalf(v, Shift(n), value)
  <2>1. Shift(n) = 1 \/ Shift(n) = Half
    BY <1>1, PlacesApart
  <2> QED BY <1>9, <2>1, PutHalfIs
<1>11. new = [super EXCEPT ![HalfEntry(n)] = z]
  BY <1>2, <1>4, <1>5, <1>9, <1>10 DEF Entered
<1> HIDE DEF super
<1>12. /\ new \in [0 .. Size - 1 -> Nat] /\ new[HalfEntry(n)] = z
       /\ \A w \in 0 .. Size - 1 : w # HalfEntry(n) => new[w] = super[w]
  BY <1>6, <1>7, <1>8, <1>11
<1>13. ASSUME NEW k \in 0 .. n, k % Q = 0
       PROVE  /\ new[SuperEntry(k)] = Pos(o, BlockStart(k))
              /\ (new[HalfEntry(k)] \div Shift(k)) % Half = Pos(o, k) - Pos(o, BlockStart(k))
  <2>1. k \in Nat /\ SuperEntry(k) \in 0 .. Size - 1 /\ HalfEntry(k) \in 0 .. Size - 1
    BY <1>1, <1>6
  <2>2. /\ SuperEntry(k) # HalfEntry(n) /\ HalfEntry(k) # SuperEntry(n)
        /\ HalfEntry(n) # SuperEntry(n)
        /\ SuperEntry(n) = SuperEntry(k) => n \div SuperQ = k \div SuperQ
        /\ HalfEntry(n) = HalfEntry(k) /\ Shift(n) = Shift(k) => n = k
        /\ (Shift(n) = 1 \/ Shift(n) = Half) /\ (Shift(k) = 1 \/ Shift(k) = Half)
    BY <1>1, <1>13, <2>1, PlacesApart
  <2>3. DOMAIN words = 0 .. Size - 1
    BY DEF IsRow
  <2>4. ASSUME k # n
        PROVE  /\ words[SuperEntry(k)] = Pos(o, BlockStart(k))
               /\ (words[HalfEntry(k)] \div Shift(k)) % Half
                    = Pos(o, k) - Pos(o, BlockStart(k))
    <3>1. k \in 0 .. n - 1
      BY <1>1, <2>4
    <3> QED BY <1>13, <2>1, <2>3, <3>1 DEF JumpsRight
  <2>5. new[SuperEntry(k)] = Pos(o, BlockStart(k))
    <3>1. new[SuperEntry(k)] = super[SuperEntry(k)]
      BY <1>12, <2>1, <2>2
    <3>2. CASE SuperEntry(k) = SuperEntry(n)
      <4>1. BlockStart(k) = b
        BY <1>2, <2>2, <3>2 DEF BlockStart
      <4>2. CASE n % SuperQ = 0
        BY <1>3, <1>4, <1>8, <3>1, <3>2, <4>1, <4>2
      <4>3. CASE n % SuperQ # 0
        <5>1. b \in 0 .. n - 1
          BY <1>1, <1>2, <1>3, <4>3
        <5>2. SuperEntry(b) \in 0 .. Size - 1 /\ HalfEntry(b) \in 0 .. Size - 1
          BY <1>2, <1>6
        <5>3. words[SuperEntry(b)] = Pos(o, BlockStart(b))
          BY <1>3, <2>3, <5>1, <5>2 DEF JumpsRight
        <5> QED BY <1>3, <1>8, <3>1, <3>2, <4>1, <4>3, <5>3
      <4> QED BY <4>2, <4>3
    <3>3. CASE SuperEntry(k) # SuperEntry(n)
      <4>1. k # n
        BY <3>3
      <4>2. super[SuperEntry(k)] = words[SuperEntry(k)]
        BY <1>8, <2>1, <3>3
      <4> QED BY <2>4, <3>1, <4>1, <4>2
    <3> QED BY <3>2, <3>3
  <2>6. (new[HalfEntry(k)] \div Shift(k)) % Half = Pos(o, k) - Pos(o, BlockStart(k))
    <3>1. CASE k = n
      <4>1. (z \div Shift(n)) % Half = value
        <5>1. CASE Shift(n) = 1
          BY <1>10, <5>1, PutHalfIs
        <5>2. CASE Shift(n) = Half
          BY <1>10, <5>2, PutHalfIs
        <5> QED BY <2>2, <5>1, <5>2
      <4> QED BY <1>2, <1>4, <1>5, <1>12, <3>1, <4>1
    <3>2. CASE k # n /\ HalfEntry(k) = HalfEntry(n)
      <4>1. Shift(n) # Shift(k)
        BY <2>2, <3>2
      <4>2. (z \div Shift(k)) % Half = (v \div Shift(k)) % Half
        <5>1. CASE Shift(n) = 1
          BY <1>10, <2>2, <4>1, <5>1, PutHalfIs
        <5>2. CASE Shift(n) = Half
          BY <1>10, <2>2, <4>1, <5>2, PutHalfIs
        <5> QED BY <2>2, <5>1, <5>2
      <4>3. v = words[HalfEntry(k)]
        BY <1>8, <1>9, <2>1, <2>2, <3>2
      <4> QED BY <1>12, <2>4, <3>2, <4>2, <4>3
    <3>3. CASE k # n /\ HalfEntry(k) # HalfEntry(n)
      <4>1. new[HalfEntry(k)] = words[HalfEntry(k)]
        BY <1>8, <1>12, <2>1, <2>2, <3>3
      <4> QED BY <2>4, <3>3, <4>1
    <3> QED BY <3>1, <3>2, <3>3
  <2> QED BY <2>5, <2>6
<1>14. JumpsRight(o, new, n + 1)
  <2>1. (n + 1) - 1 = n
    BY <1>1
  <2> QED BY <1>13, <2>1 DEF JumpsRight
<1>15. ASSUME NEW w \in 0 .. JumpBase - 1 PROVE new[w] = words[w]
  <2>1. JumpBase <= Size /\ Size \in Nat
    BY PlaceFits
  <2>2. w \in 0 .. Size - 1 /\ w # SuperEntry(n) /\ w # HalfEntry(n)
    BY <1>1, <1>6, <1>7, <2>1
  <2> QED BY <1>8, <1>12, <2>2
<1> QED BY <1>12, <1>14, <1>15 DEF IsRow

\* An entry is for all the ones of its group; the search starts at the first of them.
LEMMA JumpIs ==
  ASSUME Sized, NEW o, Sorted(o), Len(o) = count, JumpsRight(o, data, count),
         NEW n \in 0 .. count - 1, {SuperEntry(n), HalfEntry(n)} \subseteq DOMAIN data
  PROVE  /\ n - (n % Q) \in 0 .. n /\ n % Q \in 0 .. n
         /\ Jump(n) = Pos(o, n - (n % Q))
<1>1. count \in Nat /\ n \in Nat
  BY DEF Sized
<1>2. PICK h \in Nat \ {0} : h = Pairs
  BY PairsAre
<1>3. Q \in Nat \ {0}
  BY PairsAre
<1>4. PICK a, e, r : IsPlace(n, a, e, r)
  BY <1>1, PlaceIs
<1>5. /\ a \in Nat /\ e \in 0 .. 2 * h - 1 /\ r \in 0 .. Q - 1
      /\ n = Q * (2 * h * a + e) + r /\ r = n % Q /\ a = n \div SuperQ
      /\ SuperEntry(n) = JumpBase + (1 + h) * a
      /\ HalfEntry(n) = JumpBase + (1 + h) * a + 1 + (e \div 2)
      /\ Shift(n) = IF e % 2 = 0 THEN 1 ELSE Half
  BY <1>2, <1>4 DEF IsPlace
<1>6. PICK t \in Nat : t = 2 * h * a + e
  BY <1>5
<1>7. PICK m \in Nat : m = Q * t
  BY <1>3
<1>8. n = m + r /\ m = n - r /\ m \in 0 .. n /\ r \in 0 .. n
  <2>1. n = m + r
    BY <1>5, <1>6, <1>7
  <2>2. r \in Nat
    BY <1>3, <1>5
  <2> QED BY <1>1, <2>1, <2>2
<1>9. m \div Q = t /\ m % Q = 0
  <2>1. m = Q * t + 0 /\ 0 < Q
    BY <1>3, <1>7
  <2> QED BY <1>3, <2>1, EuclidUnique
<1>10. PICK b, f, s : IsPlace(m, b, f, s)
  BY PlaceIs
<1>11. /\ b \in Nat /\ f \in 0 .. 2 * h - 1 /\ s = m % Q
       /\ m = Q * (2 * h * b + f) + s /\ b = m \div SuperQ
       /\ SuperEntry(m) = JumpBase + (1 + h) * b
       /\ HalfEntry(m) = JumpBase + (1 + h) * b + 1 + (f \div 2)
       /\ Shift(m) = IF f % 2 = 0 THEN 1 ELSE Half
  BY <1>2, <1>10 DEF IsPlace
<1>12. a = b /\ e = f
  <2>1. PICK u \in Nat : u = 2 * h * b + f
    BY <1>11
  <2>2. m = Q * u + 0 /\ 0 < Q
    <3>1. s = 0
      BY <1>9, <1>11
    <3> QED BY <1>3, <1>11, <2>1, <3>1
  <2>3. t = u
    BY <1>3, <1>9, <2>2, EuclidUnique
  <2>4. PICK g \in Nat \ {0} : g = 2 * h
    OBVIOUS
  <2>5. t = g * a + e /\ e \in Nat /\ e < g
    BY <1>5, <1>6, <2>4
  <2>6. t = g * b + f /\ f \in Nat /\ f < g
    BY <1>11, <2>1, <2>3, <2>4
  <2>7. t \div g = a /\ t % g = e
    BY <1>5, <2>5, EuclidUnique
  <2>8. t \div g = b /\ t % g = f
    BY <1>11, <2>6, EuclidUnique
  <2> QED BY <2>7, <2>8
<1>13. SuperEntry(m) = SuperEntry(n) /\ HalfEntry(m) = HalfEntry(n) /\ Shift(m) = Shift(n)
       /\ BlockStart(m) = BlockStart(n)
  BY <1>5, <1>11, <1>12 DEF BlockStart
<1>14. m \in 0 .. count - 1
  BY <1>1, <1>8
<1>15. /\ data[SuperEntry(n)] = Pos(o, BlockStart(m))
       /\ (data[HalfEntry(n)] \div Shift(n)) % Half = Pos(o, m) - Pos(o, BlockStart(m))
  BY <1>9, <1>13, <1>14 DEF JumpsRight
<1>16. Pos(o, m) \in Nat /\ Pos(o, BlockStart(m)) \in Nat
  <2>1. BlockStart(m) \in 0 .. count - 1
    BY <1>1, <1>14, BlockIs
  <2> QED BY <1>14, <2>1, PosIs
<1>17. Jump(n) = Pos(o, m)
  BY <1>15, <1>16 DEF Jump
<1> QED BY <1>5, <1>8, <1>17

(***************************************************************************)
(* The search from a jump on.                                              *)
(***************************************************************************)

\* win holds the ones first to e, which are those of word cw from the first on.
IsWindow(win, o, cw, first, e) ==
  /\ first \in 0 .. count /\ e \in first - 1 .. count - 1
  /\ win = {Pos(o, k) - WordBits * cw : k \in first .. e}
  /\ \A k \in first .. count - 1 : Pos(o, k) >= WordBits * cw
  /\ \A k \in first .. e : Pos(o, k) < WordBits * cw + WordBits
  /\ \A k \in e + 1 .. count - 1 : Pos(o, k) >= WordBits * cw + WordBits

\* The ones of word cw that are not before start.
OnesFrom(words, cw, start) ==
  {b \in BitsOf(words[WordsLower + cw]) : WordBits * cw + b >= start}

LEMMA WindowIs ==
  ASSUME Sized, NEW o, Sorted(o), Len(o) = count, NEW words, UpRight(o, words),
         NEW cw \in 0 .. WordsUpper - 1, NEW first \in 0 .. count, NEW start \in Nat,
         start >= WordBits * cw,
         \A k \in 0 .. first - 1 : Pos(o, k) < start,
         \A k \in first .. count - 1 : Pos(o, k) >= start
  PROVE  \E e : IsWindow(OnesFrom(words, cw, start), o, cw, first, e)
<1>1. count \in Nat /\ WordBits \in Nat \ {0} /\ cw \in Nat /\ WordsUpper \in Nat
  BY Powers, RegionsAre DEF Sized
<1>2. PICK x \in Nat : x = WordBits * cw
  BY <1>1
<1>3. \A k \in 0 .. count - 1 : Pos(o, k) \in Nat
  BY PosIs
<1>4. \A k, j \in 0 .. count - 1 : k < j => Pos(o, k) < Pos(o, j)
  BY PosIs
<1> DEFINE T == {k \in first .. count : k = count \/ Pos(o, k) >= x + WordBits}
<1>5. T \in SUBSET Nat /\ count \in T
  BY <1>1
<1>6. PICK t \in T : \A k \in T : t <= k
  <2> HIDE DEF T
  <2> QED BY <1>5, Least
<1>7. t \in first .. count /\ t \in Nat
  BY <1>1, <1>6
<1>8. ASSUME NEW k \in first .. t - 1
      PROVE  k \in 0 .. count - 1 /\ Pos(o, k) < x + WordBits /\ Pos(o, k) >= start
  <2>1. k \in 0 .. count - 1 /\ k \in first .. count - 1 /\ k \notin T
    BY <1>1, <1>6, <1>7
  <2>2. ~ (Pos(o, k) >= x + WordBits)
    BY <1>1, <2>1
  <2> QED BY <1>1, <1>2, <1>3, <2>1, <2>2
<1>9. ASSUME NEW k \in t .. count - 1 PROVE Pos(o, k) >= x + WordBits
  <2>1. t # count /\ t \in 0 .. count - 1 /\ k \in 0 .. count - 1
    BY <1>1, <1>7
  <2>2. Pos(o, t) >= x + WordBits
    BY <1>6, <2>1
  <2>3. k = t \/ Pos(o, t) < Pos(o, k)
    BY <1>1, <1>4, <1>7, <2>1
  <2> QED BY <1>1, <1>2, <1>3, <2>1, <2>2, <2>3
<1> HIDE DEF T
<1> DEFINE win == {b \in BitsOf(words[WordsLower + cw]) : x + b >= start}
<1>10. ASSUME NEW b \in 0 .. WordBits - 1
       PROVE  b \in BitsOf(words[WordsLower + cw]) <=>
                \E n \in 0 .. count - 1 : Pos(o, n) = x + b
  <2>1. PICK y \in Nat : y = x + b
    BY <1>1
  <2>2. IsSpot(y, cw, b)
    BY <1>1, <1>2, <2>1 DEF IsSpot
  <2>3. BitAt(words, WordsLower, y) <=> b \in BitsOf(words[WordsLower + cw])
    BY <2>2, BitAtSpot
  <2>4. y \div WordBits < WordsUpper
    <3>1. y \div WordBits = cw
      BY <2>2, SpotIs
    <3> QED BY <1>1, <3>1
  <2>5. BitAt(words, WordsLower, y) <=> \E n \in 0 .. Len(o) - 1 : Pos(o, n) = y
    BY <2>4 DEF UpRight
  <2> QED BY <2>1, <2>3, <2>5
<1>11. ASSUME NEW b \in win PROVE \E k \in first .. t - 1 : b = Pos(o, k) - x
  <2>1. b \in 0 .. WordBits - 1 /\ x + b >= start /\ b \in BitsOf(words[WordsLower + cw])
    BY DEF BitsOf
  <2>2. PICK n \in 0 .. count - 1 : Pos(o, n) = x + b
    BY <1>10, <2>1
  <2>3. ~ (n < first)
    <3> SUFFICES ASSUME n < first PROVE FALSE
      OBVIOUS
    <3>1. n \in 0 .. first - 1
      BY <1>1
    <3> QED BY <1>1, <1>3, <2>1, <2>2, <3>1
  <2>4. ~ (n >= t)
    <3> SUFFICES ASSUME n >= t PROVE FALSE
      OBVIOUS
    <3>1. n \in t .. count - 1
      BY <1>1
    <3> QED BY <1>1, <1>9, <2>1, <2>2, <3>1
  <2>5. n \in first .. t - 1
    BY <1>1, <1>7, <2>3, <2>4
  <2>6. b = Pos(o, n) - x
    BY <1>1, <2>1, <2>2
  <2> QED BY <2>5, <2>6
<1>12. ASSUME NEW k \in first .. t - 1 PROVE Pos(o, k) - x \in win
  <2>1. PICK p \in Nat : p = Pos(o, k) /\ p < x + WordBits /\ p >= start /\ k \in 0 .. count - 1
    BY <1>3, <1>8
  <2>2. PICK b \in 0 .. WordBits - 1 : b = p - x /\ p = x + b
    BY <1>1, <1>2, <2>1
  <2>3. b \in BitsOf(words[WordsLower + cw])
    BY <1>10, <2>1, <2>2
  <2> QED BY <2>1, <2>2, <2>3
<1>13. win = {Pos(o, k) - x : k \in first .. t - 1}
  <2> HIDE DEF win
  <2> QED BY <1>11, <1>12
<1>14. IsWindow(win, o, cw, first, t - 1)
  <2>1. t - 1 \in first - 1 .. count - 1 /\ (t - 1) + 1 = t
    BY <1>1, <1>7
  <2>2. \A k \in first .. count - 1 : Pos(o, k) >= x
    <3> SUFFICES ASSUME NEW k \in first .. count - 1 PROVE Pos(o, k) >= x
      OBVIOUS
    <3>1. k \in 0 .. count - 1
      BY <1>1
    <3> QED BY <1>2, <1>3, <3>1
  <2>3. \A k \in first .. t - 1 : Pos(o, k) < x + WordBits
    BY <1>8
  <2>4. \A k \in t .. count - 1 : Pos(o, k) >= x + WordBits
    BY <1>9
  <2> HIDE DEF win
  <2> QED BY <1>2, <1>13, <2>1, <2>2, <2>3, <2>4 DEF IsWindow
<1>15. win = OnesFrom(words, cw, start)
  BY <1>2 DEF OnesFrom
<1> HIDE DEF win
<1> QED BY <1>14, <1>15

\* So many ones are in a window.
Ones(o, x, first, e) == {Pos(o, k) - x : k \in first .. e}

LEMMA Ranks ==
  ASSUME Sized, NEW o, Sorted(o), Len(o) = count, NEW first \in 0 .. count,
         NEW e \in first - 1 .. count - 1, NEW x \in Nat
  PROVE  Cardinality(Ones(o, x, first, e)) = e + 1 - first
<1>1. count \in Nat
  BY DEF Sized
<1>2. \A k \in first .. e : Pos(o, k) \in Nat
  <2> SUFFICES ASSUME NEW k \in first .. e PROVE Pos(o, k) \in Nat
    OBVIOUS
  <2>1. k \in 0 .. Len(o) - 1
    BY <1>1
  <2> QED BY <2>1, PosIs
<1>3. ASSUME NEW k \in first .. e, NEW j \in first .. e, Pos(o, k) - x = Pos(o, j) - x
      PROVE  k = j
  <2>1. k \in 0 .. Len(o) - 1 /\ j \in 0 .. Len(o) - 1
    BY <1>1
  <2>2. k < j => Pos(o, k) < Pos(o, j)
    BY <2>1, PosIs
  <2>3. j < k => Pos(o, j) < Pos(o, k)
    BY <2>1, PosIs
  <2>4. Pos(o, k) = Pos(o, j)
    BY <1>2, <1>3
  <2> QED BY <1>1, <1>2, <2>1, <2>2, <2>3, <2>4
<1> DEFINE S == {Pos(o, k) - x : k \in first .. e}
           f == [k \in first .. e |-> Pos(o, k) - x]
<1>4. f \in Injection(first .. e, S)
  BY <1>3 DEF Injection, IsInjective
<1>5. f \in Surjection(first .. e, S)
  BY DEF Surjection
<1>6. ExistsBijection(first .. e, S)
  <2> HIDE DEF f, S
  <2> QED BY <1>4, <1>5 DEF ExistsBijection, Bijection
<1>7. first \in Int /\ e \in Int
  BY <1>1
<1>8. /\ IsFiniteSet(first .. e)
      /\ Cardinality(first .. e) = IF first > e THEN 0 ELSE e - first + 1
  BY <1>7, FS_Interval
<1>9. Cardinality(S) = Cardinality(first .. e)
  <2> HIDE DEF S
  <2> QED BY <1>6, <1>8, FS_Bijection
<1> HIDE DEF S
<1>10. Cardinality(S) = e + 1 - first
  BY <1>1, <1>8, <1>9
<1> QED BY <1>10 DEF S, Ones

SelectFrom(win, first, n) == Select(win, n - first)

\* select64 finds the one of that rank.
LEMMA SelectIs ==
  ASSUME Sized, NEW o, Sorted(o), Len(o) = count, NEW win, NEW cw \in Nat,
         NEW first, NEW e, IsWindow(win, o, cw, first, e), NEW n \in first .. e
  PROVE  SelectFrom(win, first, n) = Pos(o, n) - WordBits * cw
<1>1. count \in Nat /\ first \in 0 .. count /\ e \in first - 1 .. count - 1 /\ n \in Nat
  BY DEF Sized, IsWindow
<1>2. PICK x \in Nat : x = WordBits * cw
  BY Powers
<1>3. win = {Pos(o, k) - x : k \in first .. e}
  BY <1>2 DEF IsWindow
<1>4. ASSUME NEW k \in first .. e
      PROVE  Cardinality({q \in win : q < Pos(o, k) - x}) = k - first
  <2>1. k \in 0 .. Len(o) - 1 /\ k - 1 \in first - 1 .. count - 1 /\ k \in Nat
    BY <1>1
  <2>2. ASSUME NEW j \in first .. e
        PROVE  Pos(o, j) - x < Pos(o, k) - x <=> j \in first .. k - 1
    <3>1. j \in 0 .. Len(o) - 1 /\ j \in Nat
      BY <1>1
    <3>2. Pos(o, j) \in Nat /\ Pos(o, k) \in Nat
      BY <2>1, <3>1, PosIs
    <3>3. /\ j < k => Pos(o, j) < Pos(o, k)
          /\ k < j => Pos(o, k) < Pos(o, j)
      BY <2>1, <3>1, PosIs
    <3>4. j = k => Pos(o, j) = Pos(o, k)
      OBVIOUS
    <3> QED BY <1>1, <2>1, <3>1, <3>2, <3>3, <3>4
  <2>3. \A j \in first .. k - 1 : j \in first .. e
    BY <1>1
  <2>4. {q \in win : q < Pos(o, k) - x} = {Pos(o, j) - x : j \in first .. k - 1}
    BY <1>3, <2>2, <2>3
  <2>5. PICK k1 \in first - 1 .. count - 1 : k1 = k - 1
    BY <2>1
  <2>6. Cardinality(Ones(o, x, first, k1)) = k1 + 1 - first
    BY <1>1, <1>2, Ranks
  <2>7. k1 + 1 - first = k - first
    BY <1>1, <2>1, <2>5
  <2> QED BY <2>4, <2>5, <2>6, <2>7 DEF Ones
<1> DEFINE found(b) == Cardinality({q \in win : q < b}) = n - first
<1>5. Pos(o, n) - x \in win /\ found(Pos(o, n) - x)
  BY <1>3, <1>4
<1>6. ASSUME NEW b \in win, found(b) PROVE b = Pos(o, n) - x
  <2>1. PICK k \in first .. e : b = Pos(o, k) - x
    BY <1>3
  <2>2. k - first = n - first
    BY <1>4, <1>6, <2>1
  <2>3. k = n
    BY <1>1, <2>2
  <2> QED BY <2>1, <2>3
<1>7. Select(win, n - first) = CHOOSE b \in win : found(b)
  BY DEF Select
<1> HIDE DEF found
<1>8. Select(win, n - first) = Pos(o, n) - x
  BY <1>5, <1>6, <1>7
<1> QED BY <1>2, <1>8 DEF SelectFrom

(***************************************************************************)
(* The invariant of the making.                                            *)
(***************************************************************************)
SetUp ==
  /\ plan \in Plans /\ count = plan.count /\ maxOffset = plan.bound
  /\ phase \in {"add", "build", "built", "written", "open", "scan", "done", "refused",
                "failed", "panic"}
  /\ Sorted(offsets)
  /\ phase \notin {"add", "failed"} => Len(offsets) = count
  /\ phase \in {"build", "built"} => count > 0

\* What the builder's words hold.
Made ==
  phase \in {"add", "build", "built", "written"} /\ count > 0 =>
    IsRow(data) /\ LowRight(offsets, data) /\ UpRight(offsets, data)

Adding ==
  phase = "add" => at = 0 /\ c = 0 /\ (count > 0 => LowClear(offsets, data))

\* build has seen the ones before bit at, and entered them.
Counting ==
  phase = "build" =>
    /\ at \in 0 .. WordBits * WordsUpper /\ c \in 0 .. count
    /\ \A n \in 0 .. c - 1 : Pos(offsets, n) < at
    /\ \A n \in c .. count - 1 : Pos(offsets, n) >= at
    /\ c % SuperQ # 0 => lastSuperQ = Pos(offsets, BlockStart(c))
    /\ JumpsRight(offsets, data, c)

Entries ==
  phase \in {"built", "written"} /\ count > 0 => JumpsRight(offsets, data, count)

MakeInv == SetUp /\ Made /\ Adding /\ Counting /\ Entries

\* The sizes come from the count and the bound.
LEMMA SameSizes ==
  ASSUME count' = count, maxOffset' = maxOffset
  PROVE  /\ L' = L /\ WordsLower' = WordsLower /\ WordsUpper' = WordsUpper
         /\ JumpBase' = JumpBase /\ Size' = Size /\ U' = U
         /\ \A n : SuperEntry(n)' = SuperEntry(n) /\ HalfEntry(n)' = HalfEntry(n)
         /\ \A o, n : Pos(o, n)' = Pos(o, n)
         /\ \A o : Sorted(o)' <=> Sorted(o)
         /\ \A w : IsRow(w)' <=> IsRow(w)
         /\ \A o, w : /\ LowRight(o, w)' <=> LowRight(o, w)
                      /\ LowClear(o, w)' <=> LowClear(o, w)
                      /\ UpRight(o, w)' <=> UpRight(o, w)
         /\ \A o, w, m : JumpsRight(o, w, m)' <=> JumpsRight(o, w, m)
         /\ \A win, o, cw, first, e :
              IsWindow(win, o, cw, first, e)' <=> IsWindow(win, o, cw, first, e)
<1>1. U' = U
  BY DEF U
<1>2. L' = L
  BY <1>1 DEF L
<1>3. WordsLower' = WordsLower
  BY <1>2 DEF WordsLower
<1>4. WordsUpper' = WordsUpper
  BY <1>1, <1>2 DEF WordsUpper
<1>5. JumpBase' = JumpBase
  BY <1>3, <1>4 DEF JumpBase
<1>6. Size' = Size
  <2>1. JumpSize' = JumpSize
    BY DEF JumpSize
  <2> QED BY <1>5, <2>1 DEF Size
<1>7. \A n : SuperEntry(n)' = SuperEntry(n)
  BY <1>5 DEF SuperEntry
<1>8. \A n : HalfEntry(n)' = HalfEntry(n)
  BY <1>7 DEF HalfEntry
<1>9. \A o, n : Pos(o, n)' = Pos(o, n)
  BY <1>2 DEF Pos
<1>10. \A o : Sorted(o)' <=> Sorted(o)
  BY DEF Sorted
<1>11. \A o, w : LowRight(o, w)' <=> LowRight(o, w)
  BY <1>2, <1>3 DEF LowRight
<1>12. \A o, w : LowClear(o, w)' <=> LowClear(o, w)
  BY <1>2, <1>3 DEF LowClear
<1>13. \A o, w : UpRight(o, w)' <=> UpRight(o, w)
  BY <1>3, <1>4, <1>9 DEF UpRight
<1>14. \A o, w, m : JumpsRight(o, w, m)' <=> JumpsRight(o, w, m)
  BY <1>7, <1>8, <1>9 DEF JumpsRight
<1>15. \A w : IsRow(w)' <=> IsRow(w)
  BY <1>6 DEF IsRow
<1>16. \A win, o, cw, first, e :
         IsWindow(win, o, cw, first, e)' <=> IsWindow(win, o, cw, first, e)
  BY <1>9 DEF IsWindow
<1> QED BY <1>1, <1>2, <1>3, <1>4, <1>5, <1>6, <1>7, <1>8, <1>9, <1>10, <1>11, <1>12,
           <1>13, <1>14, <1>15, <1>16

LEMMA PlansFit ==
  ASSUME SetUp
  PROVE  /\ count \in Nat /\ maxOffset \in Nat /\ (count > 0 => Sized)
         /\ plan.m \in Nat /\ plan.layout \in {"Legacy", "Footer"}
         /\ plan.lens \in [0 .. count - 1 -> Nat]
BY PlansAssumption DEF SetUp, Sized

LEMMA MakeInit ==
  ASSUME BtInit
  PROVE  MakeInv
<1>1. /\ plan \in Plans /\ count = plan.count /\ maxOffset = plan.bound
      /\ data = IF count = 0 THEN <<>> ELSE [w \in 0 .. Size - 1 |-> 0]
      /\ phase = "add" /\ offsets = <<>> /\ at = 0 /\ c = 0
  BY DEF BtInit, NewBuilder
<1>2. SetUp
  <2>1. count \in Nat
    BY <1>1, PlansAssumption
  <2>2. <<>> \in Seq(0 .. maxOffset) /\ Len(<<>>) = 0
    OBVIOUS
  <2>3. Sorted(<<>>)
    BY <2>1, <2>2 DEF Sorted
  <2> QED BY <1>1, <2>3 DEF SetUp
<1>3. count > 0 => Sized /\ data = [w \in 0 .. Size - 1 |-> 0]
  BY <1>1, <1>2, PlansFit
<1>4. count > 0 => /\ IsRow(data)
                   /\ LowRight(offsets, data) /\ LowClear(offsets, data)
                   /\ UpRight(offsets, data)
  BY <1>1, <1>3, NewRight DEF IsRow
<1> QED BY <1>1, <1>2, <1>4 DEF MakeInv, Made, Adding, Counting, Entries

LEMMA AddSorts ==
  ASSUME NEW o, Sorted(o), count \in Nat, maxOffset \in Nat, Len(o) < count,
         NEW offset \in (IF o = <<>> THEN 0 ELSE o[Len(o)]) .. maxOffset
  PROVE  offset \in 0 .. maxOffset /\ Sorted(Append(o, offset))
<1>1. /\ o \in Seq(0 .. maxOffset) /\ Len(o) \in Nat
      /\ \A k \in 1 .. Len(o) : o[k] \in 0 .. maxOffset
  BY DEF Sorted
<1>2. o # <<>> => Len(o) \in 1 .. Len(o)
  BY <1>1
<1>3. offset \in 0 .. maxOffset /\ \A k \in 1 .. Len(o) : o[k] <= offset
  <2>1. CASE o = <<>>
    BY <2>1
  <2>2. CASE o # <<>>
    <3>1. PICK t \in 0 .. maxOffset : t = o[Len(o)]
      BY <1>1, <1>2, <2>2
    <3>2. offset \in t .. maxOffset
      BY <2>2, <3>1
    <3>3. \A k \in 1 .. Len(o) : o[k] <= t
      <4>1. \A k \in 1 .. Len(o) : k <= Len(o)
        BY <1>1
      <4> QED BY <1>2, <2>2, <3>1, <4>1 DEF Sorted
    <3> QED BY <1>1, <3>1, <3>2, <3>3
  <2> QED BY <2>1, <2>2
<1>4. PICK p : p = Append(o, offset)
  OBVIOUS
<1>5. /\ p \in Seq(0 .. maxOffset) /\ Len(p) = Len(o) + 1 /\ p[Len(o) + 1] = offset
      /\ \A k \in 1 .. Len(o) : p[k] = o[k]
  BY <1>1, <1>3, <1>4
<1>6. ASSUME NEW j \in 1 .. Len(p), NEW k \in 1 .. Len(p), j <= k
      PROVE  p[j] <= p[k]
  <2>1. CASE k = Len(o) + 1
    <3>1. j \in 1 .. Len(o) \/ j = Len(o) + 1
      BY <1>1, <1>5
    <3> QED BY <1>3, <1>5, <2>1, <3>1
  <2>2. CASE k # Len(o) + 1
    <3>1. j \in 1 .. Len(o) /\ k \in 1 .. Len(o)
      BY <1>1, <1>5, <1>6, <2>2
    <3>2. o[j] <= o[k]
      BY <1>6, <3>1 DEF Sorted
    <3> QED BY <1>5, <3>1, <3>2
  <2> QED BY <2>1, <2>2
<1>7. Sorted(p)
  BY <1>1, <1>5, <1>6 DEF Sorted
<1> QED BY <1>3, <1>4, <1>7

LEMMA AddMakes ==
  ASSUME MakeInv, NEW offset \in Last .. maxOffset, AddKey(offset)
  PROVE  MakeInv'
<1>1. /\ phase = "add" /\ Len(offsets) < count /\ phase' = "add"
      /\ offsets' = Append(offsets, offset)
      /\ count' = count /\ maxOffset' = maxOffset /\ plan' = plan /\ at' = at /\ c' = c
  BY DEF AddKey, AddOffset, builder, building, MakeInv, SetUp
<1>2. count \in Nat /\ maxOffset \in Nat /\ Sorted(offsets) /\ Len(offsets) \in Nat
  BY PlansFit DEF MakeInv, SetUp, Sorted
<1>3. Sized /\ count > 0
  BY <1>1, <1>2, PlansFit DEF MakeInv
<1>4. offset \in 0 .. maxOffset /\ Sorted(Append(offsets, offset))
  BY <1>1, <1>2, AddSorts DEF Last
<1>5. PICK p : p = Added(offsets, offset)
  OBVIOUS
<1>0. offsets' = p
  BY <1>1, <1>5 DEF Added
<1>6. /\ IsRow(data) /\ LowRight(offsets, data)
      /\ LowClear(offsets, data) /\ UpRight(offsets, data)
  BY <1>1, <1>3 DEF MakeInv, Made, Adding
<1>7. PICK low : low = LowAdded(offsets, offset, data)
  OBVIOUS
<1>8. /\ IsRow(low) /\ LowRight(p, low) /\ LowClear(p, low)
      /\ \A w \in 0 .. Size - 1 : w >= WordsLower => low[w] = data[w]
  <2>1. Len(offsets) < count
    BY <1>1
  <2> QED BY <1>2, <1>3, <1>4, <1>5, <1>6, <1>7, <2>1, AddLow
<1>9. UpRight(offsets, low)
  BY <1>2, <1>3, <1>6, <1>8, SameUpper
<1>10. PICK pos : pos = (offset \div Pow2[L]) + Len(offsets)
  OBVIOUS
<1>11. data' = SetAt(low, WordsLower, pos)
  BY <1>7, <1>10 DEF AddKey, AddOffset, SetAt, LowAdded
<1>12. /\ IsRow(data') /\ UpRight(p, data')
       /\ \A w \in 0 .. WordsLower - 1 : data'[w] = low[w]
  <2>1. PICK new : new = SetAt(low, WordsLower, pos) /\ data' = new
    BY <1>11
  <2>2. Sorted(p) /\ Len(offsets) < count
    BY <1>1, <1>4, <1>5 DEF Added
  <2>3. /\ IsRow(new) /\ UpRight(p, new)
        /\ \A w \in 0 .. WordsLower - 1 : new[w] = low[w]
    BY <1>2, <1>3, <1>4, <1>5, <1>8, <1>9, <1>10, <2>1, <2>2, AddUp
  <2> QED BY <2>1, <2>3
<1>14. Sorted(p)
  BY <1>4, <1>5 DEF Added
<1>13. LowRight(p, data') /\ LowClear(p, data')
  BY <1>3, <1>8, <1>12, <1>14, SameLower
<1>16. SetUp'
  <2>1. Sorted(offsets)'
    BY <1>0, <1>1, <1>14, SameSizes
  <2> QED BY <1>1, <2>1 DEF MakeInv, SetUp
<1>17. Made'
  <2>1. (IsRow(data) /\ LowRight(offsets, data) /\ UpRight(offsets, data))'
    BY <1>0, <1>1, <1>12, <1>13, SameSizes
  <2> QED BY <2>1 DEF Made
<1>18. Adding'
  <2>1. LowClear(offsets, data)'
    BY <1>0, <1>1, <1>13, SameSizes
  <2> QED BY <1>1, <2>1 DEF MakeInv, Adding
<1>19. Counting' /\ Entries'
  BY <1>1 DEF Counting, Entries
<1> QED BY <1>16, <1>17, <1>18, <1>19 DEF MakeInv

LEMMA BlockNext ==
  ASSUME NEW n \in Nat, (n + 1) % SuperQ # 0
  PROVE  BlockStart(n + 1) = BlockStart(n)
<1>1. SuperQ \in Nat \ {0}
  BY QAssumption
<1>2. PICK a \in Nat, r \in 0 .. SuperQ - 1 : n = SuperQ * a + r /\ a = n \div SuperQ
  BY <1>1, Euclid
<1>3. PICK b \in Nat : b = SuperQ * a
  BY <1>1
<1>4. r + 1 # SuperQ
  <2> SUFFICES ASSUME r + 1 = SuperQ PROVE FALSE
    OBVIOUS
  <2>1. n + 1 = SuperQ * (a + 1) + 0
    <3>1. SuperQ * (a + 1) = b + SuperQ
      BY <1>1, <1>3
    <3> QED BY <1>1, <1>2, <1>3, <3>1
  <2>2. (n + 1) % SuperQ = 0
    <3>1. n + 1 \in Nat /\ a + 1 \in Nat /\ 0 < SuperQ
      BY <1>1
    <3> QED BY <1>1, <2>1, <3>1, EuclidUnique
  <2> QED BY <2>2
<1>5. (n + 1) \div SuperQ = a
  <2>1. n + 1 \in Nat /\ r + 1 \in Nat /\ r + 1 < SuperQ /\ n + 1 = SuperQ * a + (r + 1)
    BY <1>1, <1>2, <1>3, <1>4
  <2> QED BY <1>1, <2>1, EuclidUnique
<1> QED BY <1>2, <1>5 DEF BlockStart

\* When build meets a one, it is the next offset's.
LEMMA OneMet ==
  ASSUME MakeInv, phase = "build", at < WordsUpper * WordBits,
         at % WordBits \in BitsOf(data[WordsLower + at \div WordBits])
  PROVE  /\ c \in 0 .. count - 1 /\ Pos(offsets, c) = at
         /\ (IF c % SuperQ = 0 THEN at ELSE lastSuperQ) = Pos(offsets, BlockStart(c))
<1>1. /\ count \in Nat /\ Sized /\ Sorted(offsets) /\ Len(offsets) = count
      /\ UpRight(offsets, data)
  BY PlansFit DEF MakeInv, SetUp, Made
<1>2. PICK e \in Nat : e = WordBits * WordsUpper
  BY <1>1, Powers, RegionsAre
<1>3. /\ at \in 0 .. e /\ c \in 0 .. count
      /\ \A n \in 0 .. c - 1 : Pos(offsets, n) < at
      /\ \A n \in c .. count - 1 : Pos(offsets, n) >= at
      /\ c % SuperQ # 0 => lastSuperQ = Pos(offsets, BlockStart(c))
  BY <1>2 DEF MakeInv, Counting
<1>4. at \in Nat /\ at \div WordBits < WordsUpper
  <2>1. PICK w \in Nat, m \in Nat \ {0} : w = WordsUpper /\ m = WordBits
    BY <1>1, Powers, RegionsAre
  <2>2. at \in Nat /\ at < m * w
    BY <1>3, <2>1
  <2> QED BY <2>1, <2>2, DivLess
<1>5. PICK n \in 0 .. count - 1 : Pos(offsets, n) = at
  <2>1. BitAt(data, WordsLower, at)
    BY DEF BitAt
  <2> QED BY <1>1, <1>4, <2>1 DEF UpRight
<1>6. n >= c
  <2> SUFFICES ASSUME n < c PROVE FALSE
    BY <1>3
  <2>1. n \in 0 .. c - 1
    BY <1>3
  <2> QED BY <1>3, <1>4, <1>5, <2>1
<1>7. c \in 0 .. count - 1
  BY <1>1, <1>3, <1>6
<1>8. n = c
  <2> SUFFICES ASSUME n > c PROVE FALSE
    BY <1>3, <1>6
  <2>1. Pos(offsets, c) < Pos(offsets, n) /\ Pos(offsets, c) \in Nat
    BY <1>1, <1>7, PosIs
  <2>2. Pos(offsets, c) >= at
    BY <1>3, <1>7
  <2> QED BY <1>4, <1>5, <2>1, <2>2
<1>9. c % SuperQ = 0 => BlockStart(c) = c
  BY <1>3, BlockIs
<1> QED BY <1>3, <1>5, <1>7, <1>8, <1>9

LEMMA BuildMakes ==
  ASSUME MakeInv, BuildStep, UNCHANGED plan
  PROVE  MakeInv'
<1>1. /\ phase = "build" /\ at < WordsUpper * WordBits /\ at' = at + 1 /\ plan' = plan
      /\ count' = count /\ maxOffset' = maxOffset /\ offsets' = offsets
  BY DEF BuildStep, builder
<1>2. /\ count \in Nat /\ Sized /\ Sorted(offsets) /\ Len(offsets) = count /\ count > 0
      /\ IsRow(data) /\ LowRight(offsets, data) /\ UpRight(offsets, data)
  BY <1>1, PlansFit DEF MakeInv, SetUp, Made
<1>3. PICK e \in Nat : e = WordBits * WordsUpper /\ at \in Nat /\ at < e
  <2>1. PICK w \in Nat, m \in Nat \ {0} : w = WordsUpper /\ m = WordBits
    BY <1>2, Powers, RegionsAre
  <2>2. w * m = m * w /\ m * w \in Nat
    OBVIOUS
  <2> QED BY <1>1, <2>1, <2>2 DEF MakeInv, Counting
<1>4. /\ c \in 0 .. count
      /\ \A n \in 0 .. c - 1 : Pos(offsets, n) < at
      /\ \A n \in c .. count - 1 : Pos(offsets, n) >= at
      /\ c % SuperQ # 0 => lastSuperQ = Pos(offsets, BlockStart(c))
      /\ JumpsRight(offsets, data, c)
  BY <1>1 DEF MakeInv, Counting
<1>5. \A n \in 0 .. count - 1 : Pos(offsets, n) \in Nat
  BY <1>2, PosIs
<1>6. at' \in 0 .. e
  BY <1>1, <1>3
<1>7. SetUp'
  <2>1. Sorted(offsets)'
    BY <1>1, <1>2, SameSizes
  <2>2. phase' \in {"build", "panic"}
    BY <1>1 DEF BuildStep
  <2>3. /\ plan \in Plans /\ count = plan.count /\ maxOffset = plan.bound
    BY DEF MakeInv, SetUp
  <2> QED BY <1>1, <1>2, <2>1, <2>2, <2>3 DEF SetUp
<1>8. SUFFICES ASSUME phase' = "build" PROVE MakeInv'
  <2>1. phase' \in {"build", "panic"}
    BY <1>1 DEF BuildStep
  <2> QED BY <1>7, <1>8, <2>1 DEF MakeInv, Made, Adding, Counting, Entries
<1>9. CASE at % WordBits \notin BitsOf(data[WordsLower + at \div WordBits])
  <2>1. data' = data /\ c' = c /\ lastSuperQ' = lastSuperQ
    BY <1>9 DEF BuildStep
  <2>2. ASSUME NEW n \in c .. count - 1 PROVE Pos(offsets, n) >= at + 1
    <3>1. n \in 0 .. count - 1
      BY <1>4
    <3>2. Pos(offsets, n) # at
      <4>1. at \div WordBits < WordsUpper
        BY <1>2, <1>3, Powers, RegionsAre, DivLess
      <4>2. ~ BitAt(data, WordsLower, at)
        BY <1>9 DEF BitAt
      <4> QED BY <1>2, <1>3, <3>1, <4>1, <4>2 DEF UpRight
    <3> QED BY <1>3, <1>4, <1>5, <3>1, <3>2
  <2>3. \A n \in 0 .. c - 1 : Pos(offsets, n) < at + 1
    BY <1>2, <1>3, <1>4, <1>5
  <2>4. Made'
    BY <1>1, <1>2, <2>1, SameSizes DEF Made
  <2>5. Counting'
    <3>1. (at \in 0 .. WordBits * WordsUpper)'
      BY <1>1, <1>3, <1>6, SameSizes
    <3>2. (\A n \in 0 .. c - 1 : Pos(offsets, n) < at)'
      BY <1>1, <2>1, <2>3, SameSizes
    <3>3. (\A n \in c .. count - 1 : Pos(offsets, n) >= at)'
      BY <1>1, <2>1, <2>2, SameSizes
    <3>4. (c % SuperQ # 0 => lastSuperQ = Pos(offsets, BlockStart(c)))'
      BY <1>1, <1>4, <2>1, SameSizes DEF BlockStart
    <3>5. JumpsRight(offsets, data, c)'
      BY <1>1, <1>4, <2>1, SameSizes
    <3>6. (c \in 0 .. count)'
      BY <1>1, <1>4, <2>1
    <3> QED BY <3>1, <3>2, <3>3, <3>4, <3>5, <3>6 DEF Counting
  <2> QED BY <1>7, <1>8, <2>4, <2>5 DEF MakeInv, Adding, Entries
<1>10. CASE at % WordBits \in BitsOf(data[WordsLower + at \div WordBits])
  <2>1. /\ c \in 0 .. count - 1 /\ Pos(offsets, c) = at
        /\ (IF c % SuperQ = 0 THEN at ELSE lastSuperQ) = Pos(offsets, BlockStart(c))
    BY <1>1, <1>10, OneMet
  <2>2. c' = c + 1 /\ lastSuperQ' = Pos(offsets, BlockStart(c))
    BY <1>10, <2>1 DEF BuildStep
  <2>3. /\ IsRow(data') /\ JumpsRight(offsets, data', c + 1)
        /\ \A w \in 0 .. JumpBase - 1 : data'[w] = data[w]
    <3>1. CASE c % Q # 0
      <4>1. data' = data
        BY <1>10, <3>1 DEF BuildStep
      <4>2. \A n \in 0 .. c : n \in 0 .. c - 1 \/ n = c
        BY <2>1
      <4>3. JumpsRight(offsets, data, c + 1)
        BY <1>4, <2>1, <3>1, <4>2 DEF JumpsRight
      <4> QED BY <1>2, <4>1, <4>3
    <3>2. CASE c % Q = 0
      <4>1. at - lastSuperQ' < Half
        <5>1. ~ (at - lastSuperQ' >= Half)
          BY <1>8, <1>10, <3>2, <1>1 DEF BuildStep
        <5>2. lastSuperQ' \in Nat
          <6>1. BlockStart(c) \in 0 .. count - 1
            BY <2>1, <1>2, BlockIs
          <6> QED BY <1>5, <2>2, <6>1
        <5>3. PICK h \in Nat, l \in Nat : h = Half /\ l = lastSuperQ'
          BY <5>2, PairsAre
        <5>4. ~ (at - l >= h)
          BY <5>1, <5>3
        <5>5. at - l < h
          BY <1>3, <5>4
        <5> QED BY <5>3, <5>5
      <4>2. data' = Entered(data, c, at, lastSuperQ')
        BY <1>1, <1>8, <1>10, <3>2 DEF BuildStep, Entered
      <4>3. PICK new : new = Entered(data, c, Pos(offsets, c), Pos(offsets, BlockStart(c)))
                       /\ data' = new
        BY <2>1, <2>2, <4>2
      <4>4. Pos(offsets, c) - Pos(offsets, BlockStart(c)) < Half
        BY <2>1, <2>2, <4>1
      <4>5. /\ IsRow(new) /\ JumpsRight(offsets, new, c + 1)
            /\ \A w \in 0 .. JumpBase - 1 : new[w] = data[w]
        BY <1>2, <1>4, <2>1, <3>2, <4>3, <4>4, EnterJump
      <4> QED BY <4>3, <4>5
    <3> QED BY <3>1, <3>2
  <2>4. LowRight(offsets, data') /\ UpRight(offsets, data')
    BY <1>2, <2>3, SameRegions
  <2>5. Made'
    <3>1. (IsRow(data) /\ LowRight(offsets, data) /\ UpRight(offsets, data))'
      BY <1>1, <2>3, <2>4, SameSizes
    <3> QED BY <3>1 DEF Made
  <2>6. ASSUME NEW n \in 0 .. c PROVE Pos(offsets, n) < at + 1
    <3>1. n \in 0 .. c - 1 \/ n = c
      BY <2>1
    <3>2. n \in 0 .. count - 1
      BY <1>2, <2>1
    <3> QED BY <1>3, <1>4, <1>5, <2>1, <3>1, <3>2
  <2>7. ASSUME NEW n \in c + 1 .. count - 1 PROVE Pos(offsets, n) >= at + 1
    <3>1. c < n /\ n \in 0 .. count - 1
      BY <2>1
    <3>2. Pos(offsets, c) < Pos(offsets, n)
      BY <1>2, <2>1, <3>1, PosIs
    <3> QED BY <1>3, <1>5, <2>1, <3>1, <3>2
  <2>8. Counting'
    <3>1. (at \in 0 .. WordBits * WordsUpper)'
      BY <1>1, <1>3, <1>6, SameSizes
    <3>2. (\A n \in 0 .. c - 1 : Pos(offsets, n) < at)'
      <4>1. \A n \in 0 .. c' - 1 : n \in 0 .. c
        BY <2>1, <2>2
      <4> QED BY <1>1, <2>6, <4>1, SameSizes
    <3>3. (\A n \in c .. count - 1 : Pos(offsets, n) >= at)'
      BY <1>1, <2>2, <2>7, SameSizes
    <3>4. (c % SuperQ # 0 => lastSuperQ = Pos(offsets, BlockStart(c)))'
      <4>1. (c + 1) % SuperQ # 0 => BlockStart(c + 1) = BlockStart(c)
        BY <2>1, BlockNext
      <4>2. \A n : BlockStart(n)' = BlockStart(n)
        BY DEF BlockStart
      <4> QED BY <1>1, <2>2, <4>1, <4>2, SameSizes
    <3>5. JumpsRight(offsets, data, c)'
      BY <1>1, <2>2, <2>3, SameSizes
    <3>6. (c \in 0 .. count)'
      BY <1>1, <1>2, <2>1, <2>2
    <3> QED BY <3>1, <3>2, <3>3, <3>4, <3>5, <3>6 DEF Counting
  <2> QED BY <1>7, <1>8, <2>5, <2>8 DEF MakeInv, Adding, Entries
<1> QED BY <1>9, <1>10

\* The jumps are short enough for half a word.
JumpsFit == (maxOffset \div Pow2[L]) + SuperQ <= Half

LEMMA BuildPanics ==
  ASSUME MakeInv, BuildStep, phase' = "panic"
  PROVE  ~ JumpsFit
<1>1. /\ phase = "build" /\ at < WordsUpper * WordBits
  BY DEF BuildStep
<1>2. /\ count \in Nat /\ Sized /\ Sorted(offsets) /\ Len(offsets) = count /\ count > 0
      /\ IsRow(data)
  BY <1>1, PlansFit DEF MakeInv, SetUp, Made
<1>3. at % WordBits \in BitsOf(data[WordsLower + at \div WordBits]) /\ c % Q = 0
  BY <1>1 DEF BuildStep
<1>4. /\ c \in 0 .. count - 1 /\ Pos(offsets, c) = at
      /\ lastSuperQ' = Pos(offsets, BlockStart(c))
  <2>1. /\ c \in 0 .. count - 1 /\ Pos(offsets, c) = at
        /\ (IF c % SuperQ = 0 THEN at ELSE lastSuperQ) = Pos(offsets, BlockStart(c))
    BY <1>1, <1>3, OneMet
  <2> QED BY <1>3, <2>1 DEF BuildStep
<1>5. HalfEntry(c) \in DOMAIN data
  <2>1. HalfEntry(c) \in Nat /\ HalfEntry(c) < Size /\ Size \in Nat
    BY <1>2, <1>4, PlaceFits
  <2>2. HalfEntry(c) \in 0 .. Size - 1
    BY <2>1
  <2> QED BY <1>2, <2>2 DEF IsRow
<1>6. at - lastSuperQ' >= Half
  BY <1>1, <1>3, <1>5 DEF BuildStep
<1>7. PICK b \in 0 .. count - 1 : b = BlockStart(c) /\ b <= c /\ c < b + SuperQ
  <2>1. SuperQ \in Nat \ {0} /\ c \in Nat
    BY <1>4, QAssumption
  <2>2. PICK a \in Nat, r \in 0 .. SuperQ - 1, q \in Nat :
          c = SuperQ * a + r /\ a = c \div SuperQ /\ q = SuperQ * a
    BY <2>1, Euclid
  <2>3. a * SuperQ = SuperQ * a
    BY <2>1, <2>2
  <2>4. BlockStart(c) = q
    BY <2>2, <2>3 DEF BlockStart
  <2> QED BY <1>2, <1>4, <2>1, <2>2, <2>4
<1>8. PICK m \in Nat \ {0} : m = Pow2[L]
  BY <1>2, LowIs
<1>9. PICK x \in 0 .. maxOffset, y \in 0 .. maxOffset :
        x = offsets[c + 1] /\ y = offsets[b + 1]
  <2>1. c \in 0 .. Len(offsets) - 1 /\ b \in 0 .. Len(offsets) - 1
    BY <1>2, <1>4
  <2>2. offsets[c + 1] \in 0 .. maxOffset
    BY <1>2, <2>1, OffsetIs
  <2>3. offsets[b + 1] \in 0 .. maxOffset
    BY <1>2, <2>1, OffsetIs
  <2> QED BY <2>2, <2>3
<1>10. PICK u \in Nat, v \in Nat, t \in Nat :
         /\ u = x \div m /\ v = y \div m /\ t = maxOffset \div m /\ u <= t
  <2>1. maxOffset \in Nat /\ x \in Nat /\ y \in Nat /\ x <= maxOffset
    BY <1>2 DEF Sized
  <2>2. y \div m \in Nat
    BY <2>1, Euclid
  <2> QED BY <2>1, <2>2, DivMono
<1>11. at = u + c /\ lastSuperQ' = v + b
  BY <1>4, <1>7, <1>8, <1>9, <1>10 DEF Pos
<1>12. PICK h \in Nat, s \in Nat : h = Half /\ s = SuperQ
  BY PairsAre
<1>13. t + s > h
  BY <1>4, <1>6, <1>7, <1>10, <1>11, <1>12
<1> QED BY <1>8, <1>10, <1>12, <1>13 DEF JumpsFit

\* The other steps leave what was made.
LEMMA RestMakes ==
  ASSUME MakeInv, UNCHANGED <<plan, builder, building>>,
         \/ phase = "add" /\ Len(offsets) < count /\ phase' = "failed"
         \/ StartBuild
         \/ Built
         \/ phase \in {"built", "add"} /\ (phase = "add" => count = 0) /\ phase' = "written"
            /\ data' = data
         \/ phase \notin {"add", "build", "built", "failed"}
            /\ phase' \in {"open", "scan", "done", "refused", "panic"}
  PROVE  MakeInv'
<1>1. /\ plan' = plan /\ count' = count /\ maxOffset' = maxOffset /\ offsets' = offsets
      /\ at' = at /\ c' = c /\ lastSuperQ' = lastSuperQ
  BY DEF builder, building
<1>2. /\ plan \in Plans /\ count = plan.count /\ maxOffset = plan.bound /\ count \in Nat
      /\ Sorted(offsets) /\ Len(offsets) \in Nat /\ Len(offsets) <= count
      /\ (phase \notin {"add", "failed"} => Len(offsets) = count)
      /\ phase \in {"add", "build", "built", "written", "open", "scan", "done", "refused",
                    "failed", "panic"}
  BY PlansFit DEF MakeInv, SetUp, Sorted
<1>3. Sorted(offsets)'
  BY <1>1, <1>2, SameSizes
<1>4. CASE phase = "add" /\ Len(offsets) < count /\ phase' = "failed"
  BY <1>1, <1>2, <1>3, <1>4 DEF MakeInv, SetUp, Made, Adding, Counting, Entries
<1>5. CASE StartBuild
  <2>1. /\ phase = "add" /\ count > 0 /\ Len(offsets) = count /\ phase' = "build"
        /\ data' = data
    BY <1>5 DEF StartBuild
  <2>2. Sized /\ at = 0 /\ c = 0 /\ IsRow(data) /\ LowRight(offsets, data)
        /\ UpRight(offsets, data)
    BY <2>1, PlansFit DEF MakeInv, Made, Adding
  <2>3. (IsRow(data) /\ LowRight(offsets, data) /\ UpRight(offsets, data))'
    BY <1>1, <2>1, <2>2, SameSizes
  <2>4. Counting'
    <3>1. (at \in 0 .. WordBits * WordsUpper)'
      <4>1. PICK w \in Nat, m \in Nat \ {0} : w = WordsUpper /\ m = WordBits
        BY <2>2, Powers, RegionsAre
      <4>2. 0 \in 0 .. m * w
        OBVIOUS
      <4> QED BY <1>1, <2>2, <4>1, <4>2, SameSizes
    <3>2. 0 .. 0 - 1 = {}
      OBVIOUS
    <3>3. (\A n \in 0 .. c - 1 : Pos(offsets, n) < at)'
      BY <1>1, <2>2, <3>2
    <3>4. \A n \in 0 .. count - 1 : Pos(offsets, n) >= 0
      <4>1. \A n \in 0 .. count - 1 : Pos(offsets, n) \in Nat
        BY <1>2, <2>1, <2>2, PosIs
      <4> QED BY <4>1
    <3>5. (\A n \in c .. count - 1 : Pos(offsets, n) >= at)'
      BY <1>1, <2>2, <3>4, SameSizes
    <3>6. c' % SuperQ = 0
      BY <1>1, <2>2, QAssumption
    <3>7. JumpsRight(offsets, data, c)'
      <4>1. JumpsRight(offsets, data, 0)
        BY <3>2 DEF JumpsRight
      <4> QED BY <1>1, <2>1, <2>2, <4>1, SameSizes
    <3>8. (c \in 0 .. count)'
      BY <1>1, <1>2, <2>2
    <3> QED BY <3>1, <3>3, <3>5, <3>6, <3>7, <3>8 DEF Counting
  <2>5. SetUp' /\ Adding' /\ Entries'
    BY <1>1, <1>2, <1>3, <2>1 DEF SetUp, Adding, Entries
  <2> QED BY <2>3, <2>4, <2>5 DEF MakeInv, Made
<1>6. CASE Built
  <2>1. phase = "build" /\ at = WordsUpper * WordBits /\ phase' = "built" /\ data' = data
    BY <1>6 DEF Built
  <2>2. /\ Sized /\ count > 0 /\ IsRow(data) /\ LowRight(offsets, data)
        /\ UpRight(offsets, data) /\ Len(offsets) = count
    BY <2>1, PlansFit DEF MakeInv, SetUp, Made
  <2>3. (IsRow(data) /\ LowRight(offsets, data) /\ UpRight(offsets, data))'
    BY <1>1, <2>1, <2>2, SameSizes
  <2>4. /\ c \in 0 .. count /\ JumpsRight(offsets, data, c)
        /\ \A n \in c .. count - 1 : Pos(offsets, n) >= at
    BY <2>1 DEF MakeInv, Counting
  <2>5. c = count
    <3> SUFFICES ASSUME c # count PROVE FALSE
      OBVIOUS
    <3>1. c \in c .. count - 1 /\ c \in 0 .. count - 1
      BY <1>2, <2>4
    <3>2. PICK w \in Nat, m \in Nat \ {0} : w = WordsUpper /\ m = WordBits
      BY <2>2, Powers, RegionsAre
    <3>3. w * m = m * w /\ m * w \in Nat
      OBVIOUS
    <3>4. Pos(offsets, c) < m * w /\ Pos(offsets, c) \in Nat
      BY <1>2, <2>2, <3>1, <3>2, PosIs
    <3> QED BY <2>1, <2>4, <3>1, <3>2, <3>3, <3>4
  <2>6. JumpsRight(offsets, data, count)'
    BY <1>1, <2>1, <2>4, <2>5, SameSizes
  <2>7. SetUp' /\ Adding' /\ Counting'
    BY <1>1, <1>2, <1>3, <2>1, <2>2 DEF SetUp, Adding, Counting
  <2> QED BY <2>3, <2>6, <2>7 DEF MakeInv, Made, Entries
<1>7. CASE /\ phase \in {"built", "add"} /\ (phase = "add" => count = 0)
           /\ phase' = "written" /\ data' = data
  <2>1. SetUp' /\ Adding' /\ Counting'
    BY <1>1, <1>2, <1>3, <1>7 DEF SetUp, Adding, Counting
  <2>2. CASE count = 0
    BY <1>1, <1>7, <2>1, <2>2 DEF MakeInv, Made, Entries
  <2>3. CASE count # 0
    <3>1. phase = "built" /\ count > 0
      BY <1>2, <1>7, <2>3
    <3>2. /\ IsRow(data) /\ LowRight(offsets, data) /\ UpRight(offsets, data)
          /\ JumpsRight(offsets, data, count)
      BY <3>1 DEF MakeInv, Made, Entries
    <3>3. (/\ IsRow(data) /\ LowRight(offsets, data) /\ UpRight(offsets, data)
           /\ JumpsRight(offsets, data, count))'
      BY <1>1, <1>7, <3>2, SameSizes
    <3> QED BY <2>1, <3>3 DEF MakeInv, Made, Entries
  <2> QED BY <2>2, <2>3
<1>8. CASE /\ phase \notin {"add", "build", "built", "failed"}
           /\ phase' \in {"open", "scan", "done", "refused", "panic"}
  <2> QED BY <1>1, <1>2, <1>3, <1>8 DEF MakeInv, SetUp, Made, Adding, Counting, Entries
<1> QED BY <1>4, <1>5, <1>6, <1>7, <1>8

(***************************************************************************)
(* The file.                                                               *)
(***************************************************************************)

\* Every cell but the magic.
Cell == {"num", "mark", "byte", "pad"} \X Nat

LEMMA CellsAre ==
  /\ \A n \in Nat : Num(n) \in Cell /\ Num(n)[2] = n
  /\ Mark \in Cell /\ Pad \in Cell /\ Magic \notin Cell
  /\ \A n \in Nat : Num(n) # Mark
BY DEF Cell, Num, Mark, Pad, Magic

LEMMA Cat ==
  ASSUME NEW S, NEW s \in Seq(S), NEW t \in Seq(S)
  PROVE  /\ s \o t \in Seq(S) /\ Len(s \o t) = Len(s) + Len(t)
         /\ Len(s) \in Nat /\ Len(t) \in Nat
         /\ \A p \in 1 .. Len(s) : (s \o t)[p] = s[p]
         /\ \A p \in 1 .. Len(t) : (s \o t)[Len(s) + p] = t[p]
OBVIOUS

LEMMA PaddedIs ==
  ASSUME NEW cells \in Seq(Cell)
  PROVE  /\ Padded(cells) \in Seq(Cell) /\ Len(Padded(cells)) \in Nat
         /\ Len(cells) \in Nat /\ Len(cells) <= Len(Padded(cells))
         /\ \A p \in 1 .. Len(cells) : Padded(cells)[p] = cells[p]
<1>1. PICK n \in Nat : n = (EfAlign - (Len(cells) % EfAlign)) % EfAlign
  <2>1. EfAlign \in Nat \ {0} /\ Len(cells) \in Nat
    BY EfAlignAssumption
  <2>2. PICK r \in 0 .. EfAlign - 1 : r = Len(cells) % EfAlign
    BY <2>1, Euclid
  <2>3. EfAlign - r \in Nat
    BY <2>1
  <2>4. (EfAlign - r) % EfAlign \in 0 .. EfAlign - 1
    BY <2>1, <2>3, Euclid
  <2> QED BY <2>1, <2>2, <2>4
<1>2. PICK s : s = [p \in 1 .. n |-> Pad]
  OBVIOUS
<1>3. s \in Seq(Cell)
  BY <1>2, CellsAre
<1>4. Padded(cells) = cells \o s
  BY <1>1, <1>2 DEF Padded
<1>5. Len(s) \in Nat
  BY <1>3
<1> QED BY <1>3, <1>4, <1>5, Cat

\* The cells before the array.
Lead == IF plan.layout = "Legacy" THEN 0 ELSE Len(Padded(nodes))

\* f is all of what is to be written.
Laid(f) ==
  /\ Lead \in Nat
  /\ f \in Seq(Cell \cup {Magic})
  /\ Len(f) = IF plan.layout = "Legacy" THEN 2 + Size ELSE Lead + Size + 7
  /\ f[Lead + 1] = Num(count - 1)
  /\ \A w \in 0 .. Size - 1 : f[Lead + 3 + w] = Num(data[w])
  /\ \A p \in 1 .. Len(f) : f[p] = Magic => plan.layout = "Footer" /\ p = Len(f)
  /\ plan.layout = "Footer" =>
       /\ \A p \in 1 .. Lead : f[p] = Padded(nodes)[p]
       /\ f[1] = Mark
       /\ f[Lead + Size + 3] = Num(count) /\ f[Lead + Size + 4] = Num(Fanout)
       /\ f[Lead + Size + 5] = Num(Lead) /\ f[Lead + Size + 6] = Num(3)
       /\ f[Lead + Size + 7] = Magic

NodesInv ==
  /\ nodes \in Seq(Cell)
  /\ plan.layout = "Footer" => Len(nodes) > 0 /\ nodes[1] = Mark

LEMMA EfCellsAre ==
  ASSUME Sized, IsRow(data)
  PROVE  /\ EfCells \in Seq(Cell) /\ Size \in Nat /\ Len(EfCells) = 2 + Size
         /\ EfCells[1] = Num(count - 1)
         /\ \A w \in 0 .. Size - 1 : EfCells[3 + w] = Num(data[w])
<1>1. count - 1 \in Nat /\ U \in Nat /\ Size \in Nat
  <2>1. 0 \in 0 .. count - 1
    BY DEF Sized
  <2> QED BY <2>1, PlaceFits DEF Sized, U
<1>2. PICK s : s = [w \in 1 .. Size |-> Num(data[w - 1])]
  OBVIOUS
<1>3. s \in Seq(Cell) /\ Len(s) = Size /\ \A w \in 1 .. Size : s[w] = Num(data[w - 1])
  <2>1. \A w \in 1 .. Size : Num(data[w - 1]) \in Cell
    <3> SUFFICES ASSUME NEW w \in 1 .. Size PROVE Num(data[w - 1]) \in Cell
      OBVIOUS
    <3>1. w - 1 \in 0 .. Size - 1
      BY <1>1
    <3>2. data[w - 1] \in Nat
      BY <3>1 DEF IsRow
    <3> QED BY <3>2, CellsAre
  <2> QED BY <1>1, <1>2, <2>1
<1>4. PICK h : h = <<Num(count - 1), Num(U)>>
  OBVIOUS
<1>5. h \in Seq(Cell) /\ Len(h) = 2 /\ h[1] = Num(count - 1)
  <2>1. Num(count - 1) \in Cell /\ Num(U) \in Cell
    BY <1>1, CellsAre
  <2> QED BY <1>4, <2>1
<1>6. EfCells = h \o s
  BY <1>2, <1>4 DEF EfCells
<1>7. /\ EfCells \in Seq(Cell) /\ Len(EfCells) = 2 + Size /\ EfCells[1] = Num(count - 1)
      /\ \A w \in 1 .. Size : EfCells[2 + w] = s[w]
  <2>1. /\ h \o s \in Seq(Cell) /\ Len(h \o s) = Len(h) + Len(s)
        /\ \A p \in 1 .. Len(h) : (h \o s)[p] = h[p]
        /\ \A p \in 1 .. Len(s) : (h \o s)[Len(h) + p] = s[p]
    <3>1. h \in Seq(Cell) /\ s \in Seq(Cell)
      BY <1>3, <1>5
    <3> QED BY <3>1
  <2>2. 1 \in 1 .. 2
    OBVIOUS
  <2> QED BY <1>3, <1>5, <1>6, <2>1, <2>2
<1>8. ASSUME NEW w \in 0 .. Size - 1 PROVE EfCells[3 + w] = Num(data[w])
  <2>1. w + 1 \in 1 .. Size /\ 2 + (w + 1) = 3 + w /\ (w + 1) - 1 = w
    BY <1>1
  <2> QED BY <1>3, <1>7, <2>1
<1> QED BY <1>1, <1>7, <1>8

LEMMA WholeFileIs ==
  ASSUME SetUp, NodesInv, count > 0, IsRow(data)
  PROVE  Laid(WholeFile)
<1>1. /\ Sized /\ count \in Nat /\ plan.layout \in {"Legacy", "Footer"} /\ plan.m \in Nat
      /\ nodes \in Seq(Cell)
  BY PlansFit DEF NodesInv
<1>2. PICK ef : ef = EfCells
  OBVIOUS
<1>3. PICK z \in Nat : z = Size
  BY <1>1, EfCellsAre
<1>4. /\ ef \in Seq(Cell) /\ Len(ef) = 2 + z /\ ef[1] = Num(count - 1)
      /\ \A w \in 0 .. z - 1 : ef[3 + w] = Num(data[w])
  BY <1>1, <1>2, <1>3, EfCellsAre
<1>5. CASE plan.layout = "Legacy"
  <2>1. Lead = 0 /\ WholeFile = ef
    BY <1>1, <1>2, <1>5 DEF Lead, WholeFile
  <2>2. \A p \in 1 .. Len(ef) : ef[p] # Magic
    BY <1>4, CellsAre
  <2>3. ef \in Seq(Cell \cup {Magic})
    BY <1>4
  <2>4. \A w \in 0 .. z - 1 : 0 + 3 + w = 3 + w
    OBVIOUS
  <2> QED BY <1>3, <1>4, <1>5, <2>1, <2>2, <2>3, <2>4 DEF Laid
<1>6. CASE plan.layout = "Footer"
  <2>0. PICK body : body = Padded(nodes)
    OBVIOUS
  <2>20. body \in Seq(Cell) /\ Len(body) \in Nat
    BY <1>1, <2>0, PaddedIs
  <2>21. PICK b \in Nat : b = Len(body)
    BY <2>20
  <2>1. body = Padded(nodes) /\ b = Len(body) /\ body \in Seq(Cell)
    BY <2>0, <2>20, <2>21
  <2>2. b > 0 /\ body[1] = Mark
    <3>1. 1 \in 1 .. Len(nodes) /\ nodes[1] = Mark
      BY <1>1, <1>6 DEF NodesInv
    <3> QED BY <1>1, <2>1, <3>1, PaddedIs
  <2>3. Lead = b
    BY <1>6, <2>1 DEF Lead
  <2>4. Fanout \in Nat
    BY <1>1 DEF Fanout
  <2>5. PICK foot : foot = <<Num(count), Num(Fanout), Num(b), Num(3), Magic>>
    OBVIOUS
  <2>6. /\ foot \in Seq(Cell \cup {Magic}) /\ Len(foot) = 5
        /\ foot[1] = Num(count) /\ foot[2] = Num(Fanout) /\ foot[3] = Num(b)
        /\ foot[4] = Num(3) /\ foot[5] = Magic
    <3>1. Num(count) \in Cell /\ Num(Fanout) \in Cell /\ Num(b) \in Cell /\ Num(3) \in Cell
      BY <1>1, <2>1, <2>4, CellsAre
    <3> QED BY <2>5, <3>1
  <2>7. PICK front : front = body \o ef
    OBVIOUS
  <2>8. /\ front \in Seq(Cell) /\ Len(front) = b + 2 + z
        /\ \A p \in 1 .. b : front[p] = body[p]
        /\ \A p \in 1 .. 2 + z : front[b + p] = ef[p]
    <3>1. /\ front \in Seq(Cell) /\ Len(front) = b + (2 + z)
          /\ \A p \in 1 .. b : front[p] = body[p]
          /\ \A p \in 1 .. 2 + z : front[b + p] = ef[p]
      <4>1. /\ body \o ef \in Seq(Cell) /\ Len(body \o ef) = Len(body) + Len(ef)
            /\ \A p \in 1 .. Len(body) : (body \o ef)[p] = body[p]
            /\ \A p \in 1 .. Len(ef) : (body \o ef)[Len(body) + p] = ef[p]
        BY <1>4, <2>1
      <4> QED BY <1>4, <2>1, <2>7, <4>1
    <3> QED BY <3>1
  <2>9. PICK f : f = WholeFile
    OBVIOUS
  <2>10. f = front \o foot
    <3>1. count # 0 /\ plan.layout # "Legacy"
      BY <1>6
    <3>2. WholeFile = Padded(nodes) \o EfCells \o
                        <<Num(count), Num(Fanout), Num(Len(Padded(nodes))), Num(3), Magic>>
      BY <3>1, Zenon DEF WholeFile
    <3>3. Len(Padded(nodes)) = b
      BY <2>1
    <3> QED BY <1>2, <2>1, <2>5, <2>7, <2>9, <3>2, <3>3, Zenon
  <2>11. /\ f \in Seq(Cell \cup {Magic}) /\ Len(f) = b + 2 + z + 5
         /\ \A p \in 1 .. b + 2 + z : f[p] = front[p]
         /\ \A p \in 1 .. 5 : f[b + 2 + z + p] = foot[p]
    <3>1. front \in Seq(Cell \cup {Magic})
      BY <2>8
    <3>2. /\ f \in Seq(Cell \cup {Magic}) /\ Len(f) = Len(front) + 5
          /\ \A p \in 1 .. Len(front) : f[p] = front[p]
          /\ \A p \in 1 .. 5 : f[Len(front) + p] = foot[p]
      <4>1. /\ front \o foot \in Seq(Cell \cup {Magic})
            /\ Len(front \o foot) = Len(front) + Len(foot)
            /\ \A p \in 1 .. Len(front) : (front \o foot)[p] = front[p]
            /\ \A p \in 1 .. Len(foot) : (front \o foot)[Len(front) + p] = foot[p]
        <5>1. foot \in Seq(Cell \cup {Magic})
          BY <2>6
        <5> QED BY <3>1, <5>1
      <4> QED BY <2>6, <2>10, <4>1
    <3> QED BY <2>8, <3>2
  <2>12. Len(f) = b + z + 7
    BY <2>11
  <2>13. f[b + 1] = Num(count - 1)
    <3>1. 1 \in 1 .. 2 + z /\ b + 1 \in 1 .. b + 2 + z
      OBVIOUS
    <3> QED BY <1>4, <2>8, <2>11, <3>1
  <2>14. ASSUME NEW w \in 0 .. z - 1 PROVE f[b + 3 + w] = Num(data[w])
    <3>1. 3 + w \in 1 .. 2 + z /\ b + (3 + w) \in 1 .. b + 2 + z /\ b + (3 + w) = b + 3 + w
      OBVIOUS
    <3>2. ef[3 + w] = Num(data[w])
      BY <1>4
    <3> QED BY <2>8, <2>11, <3>1, <3>2
  <2>15. \A p \in 1 .. b : f[p] = body[p]
    <3>1. \A p \in 1 .. b : p \in 1 .. b + 2 + z
      OBVIOUS
    <3> QED BY <2>8, <2>11, <3>1
  <2>16. f[1] = Mark
    <3>1. 1 \in 1 .. b
      BY <2>2
    <3> QED BY <2>2, <2>15, <3>1
  <2>17. /\ f[b + z + 3] = Num(count) /\ f[b + z + 4] = Num(Fanout) /\ f[b + z + 5] = Num(b)
         /\ f[b + z + 6] = Num(3) /\ f[b + z + 7] = Magic
    <3>1. /\ f[b + 2 + z + 1] = foot[1] /\ f[b + 2 + z + 2] = foot[2]
          /\ f[b + 2 + z + 3] = foot[3] /\ f[b + 2 + z + 4] = foot[4]
          /\ f[b + 2 + z + 5] = foot[5]
      BY <2>11
    <3>2. /\ b + 2 + z + 1 = b + z + 3 /\ b + 2 + z + 2 = b + z + 4
          /\ b + 2 + z + 3 = b + z + 5 /\ b + 2 + z + 4 = b + z + 6
          /\ b + 2 + z + 5 = b + z + 7
      OBVIOUS
    <3> QED BY <2>6, <3>1, <3>2
  <2>18. ASSUME NEW p \in 1 .. Len(f), f[p] = Magic PROVE p = Len(f)
    <3>1. CASE p <= b + 2 + z
      <4>1. p \in 1 .. b + 2 + z
        BY <3>1
      <4>2. front[p] \in Cell
        BY <2>8, <4>1
      <4> QED BY <2>11, <2>18, <4>1, <4>2, CellsAre
    <3>2. CASE p > b + 2 + z
      <4>1. PICK q \in 1 .. 5 : p = b + 2 + z + q
        <5>1. p - (b + 2 + z) \in 1 .. 5
          BY <2>11, <3>2
        <5>2. p = b + 2 + z + (p - (b + 2 + z))
          BY <2>11
        <5> QED BY <5>1, <5>2
      <4>2. foot[q] = Magic
        BY <2>11, <2>18, <4>1
      <4>3. Num(count) # Magic /\ Num(Fanout) # Magic /\ Num(b) # Magic /\ Num(3) # Magic
        BY DEF Num, Magic
      <4>4. q = 5
        BY <2>6, <4>2, <4>3
      <4> QED BY <2>11, <4>1, <4>4
    <3> QED BY <2>11, <3>1, <3>2
  <2>19. Laid(f)
    BY <1>3, <1>6, <2>1, <2>3, <2>11, <2>12, <2>13, <2>14, <2>15, <2>16, <2>17, <2>18 DEF Laid
  <2> QED BY <2>9, <2>19
<1> QED BY <1>1, <1>5, <1>6

\* What is written may end anywhere.
Put ==
  phase = "written" => \E n \in 0 .. Len(WholeFile) : file = SubSeq(WholeFile, 1, n)

LEMMA JumpsCarry ==
  ASSUME Sized, NEW o, NEW words, IsRow(words), JumpsRight(o, words, count), NEW others,
         \A w \in 0 .. Size - 1 : w \in DOMAIN others => others[w] = words[w]
  PROVE  JumpsRight(o, others, count)
<1> SUFFICES ASSUME NEW n \in 0 .. count - 1, n % Q = 0,
                    {SuperEntry(n), HalfEntry(n)} \subseteq DOMAIN others
             PROVE  /\ others[SuperEntry(n)] = Pos(o, BlockStart(n))
                    /\ (others[HalfEntry(n)] \div Shift(n)) % Half
                         = Pos(o, n) - Pos(o, BlockStart(n))
  BY DEF JumpsRight
<1>1. SuperEntry(n) \in 0 .. Size - 1 /\ HalfEntry(n) \in 0 .. Size - 1
  <2>1. PICK a \in Nat, b \in Nat, z \in Nat :
          a = SuperEntry(n) /\ b = HalfEntry(n) /\ z = Size /\ a < b /\ b < z
    BY PlaceFits
  <2> QED BY <2>1
<1>2. {SuperEntry(n), HalfEntry(n)} \subseteq DOMAIN words
  <2>1. DOMAIN words = 0 .. Size - 1
    BY DEF IsRow
  <2> QED BY <1>1, <2>1
<1>3. /\ words[SuperEntry(n)] = Pos(o, BlockStart(n))
      /\ (words[HalfEntry(n)] \div Shift(n)) % Half = Pos(o, n) - Pos(o, BlockStart(n))
  BY <1>2 DEF JumpsRight
<1>4. others[SuperEntry(n)] = words[SuperEntry(n)] /\ others[HalfEntry(n)] = words[HalfEntry(n)]
  BY <1>1
<1> QED BY <1>3, <1>4

\* What a reader has of an array that it took from the file.
Taken ==
  /\ count > 0 /\ kind = plan.layout
  /\ LowRight(offsets, data) /\ UpRight(offsets, data) /\ JumpsRight(offsets, data, count)
  /\ 0 .. JumpBase - 1 \subseteq DOMAIN data
  /\ Len(file) \in Nat
  /\ kind = "Legacy" => DOMAIN data = 0 .. Len(file) - 3 /\ Len(file) >= 2 + JumpBase
                        /\ Len(file) <= 2 + Size
  /\ kind = "Footer" => 0 .. Size - 1 \subseteq DOMAIN data /\ Len(file) = Lead + Size + 7

Readable ==
  phase \in {"open", "scan", "done"} =>
    /\ phase # "open" => kind # "Empty"
    /\ kind # "Empty" => Taken

\* What is written, as far as it is there.
LEMMA PutIs ==
  ASSUME SetUp, Made, NodesInv, Put, phase = "written", file # <<>>
  PROVE  /\ count > 0 /\ IsRow(data) /\ Len(file) \in Nat /\ Len(file) > 0
         /\ \E f : /\ Laid(f) /\ Len(file) <= Len(f)
                   /\ \A p \in 1 .. Len(file) : file[p] = f[p]
<1>1. count \in Nat
  BY PlansFit
<1>2. PICK f : f = WholeFile
  OBVIOUS
<1>3. PICK n \in 0 .. Len(f) : file = SubSeq(f, 1, n)
  BY <1>2 DEF Put
<1>4. count > 0
  <2> SUFFICES ASSUME count = 0 PROVE FALSE
    BY <1>1
  <2>1. f = <<>>
    BY <1>2 DEF WholeFile
  <2>2. n = 0
    BY <1>3, <2>1
  <2>3. SubSeq(<<>>, 1, 0) = <<>>
    OBVIOUS
  <2> QED BY <1>3, <2>1, <2>2, <2>3
<1>5. IsRow(data)
  BY <1>4 DEF Made
<1>6. Laid(f)
  BY <1>2, <1>4, <1>5, WholeFileIs
<1>7. f \in Seq(Cell \cup {Magic})
  BY <1>6 DEF Laid
<1>8. Len(file) = n /\ \A p \in 1 .. n : file[p] = f[p]
  <2>1. Len(f) \in Nat
    BY <1>7
  <2>2. Len(SubSeq(f, 1, n)) = n /\ \A p \in 1 .. n : SubSeq(f, 1, n)[p] = f[p]
    BY <1>7, <2>1
  <2> QED BY <1>3, <2>2
<1>9. n # 0
  <2>1. n = 0 => SubSeq(f, 1, n) = <<>>
    BY <1>7
  <2> QED BY <1>3, <2>1
<1>10. n \in Nat /\ n > 0 /\ n <= Len(f)
  <2>1. Len(f) \in Nat
    BY <1>7
  <2> QED BY <1>9, <2>1
<1> QED BY <1>4, <1>5, <1>6, <1>8, <1>10

\* The words that a reader takes are those that were written.
LEMMA WordsAre ==
  ASSUME Sized, IsRow(data), NEW f, Laid(f), Len(file) \in Nat, Len(file) <= Len(f),
         \A p \in 1 .. Len(file) : file[p] = f[p]
  PROVE  /\ DOMAIN WordsFrom(Lead) = 0 .. Len(file) - Lead - 3
         /\ \A w \in 0 .. Size - 1 :
              w \in DOMAIN WordsFrom(Lead) => WordsFrom(Lead)[w] = data[w]
<1>1. Lead \in Nat
  BY DEF Laid
<1>2. DOMAIN WordsFrom(Lead) = 0 .. Len(file) - Lead - 3
  BY DEF WordsFrom
<1>3. ASSUME NEW w \in 0 .. Size - 1, w \in DOMAIN WordsFrom(Lead)
      PROVE  WordsFrom(Lead)[w] = data[w]
  <2>1. w \in 0 .. Len(file) - Lead - 3 /\ w \in Nat
    BY <1>2, <1>3
  <2>2. WordsFrom(Lead)[w] = file[Lead + 3 + w][2]
    BY <2>1 DEF WordsFrom
  <2>3. Lead + 3 + w \in 1 .. Len(file)
    BY <1>1, <2>1
  <2>4. f[Lead + 3 + w] = Num(data[w])
    BY <1>3 DEF Laid
  <2>5. data[w] \in Nat
    BY <1>3 DEF IsRow
  <2>6. file[Lead + 3 + w] = Num(data[w])
    BY <2>3, <2>4
  <2> QED BY <2>2, <2>5, <2>6, CellsAre
<1> QED BY <1>2, <1>3

LEMMA TakenIs ==
  ASSUME MakeInv, NodesInv, Put, phase = "written", file # <<>>, OpenBt,
         kind' = plan.layout, data' = WordsFrom(Lead), Lead + 2 + JumpBase <= Len(file),
         plan.layout = "Footer" => Len(file) = Lead + Size + 7
  PROVE  Taken'
<1>1. /\ plan' = plan /\ count' = count /\ maxOffset' = maxOffset /\ offsets' = offsets
      /\ file' = file /\ nodes' = nodes
  BY DEF OpenBt, builder
<1>2. /\ count > 0 /\ IsRow(data) /\ Len(file) \in Nat
      /\ \E f : /\ Laid(f) /\ Len(file) <= Len(f)
                /\ \A p \in 1 .. Len(file) : file[p] = f[p]
  BY PutIs DEF MakeInv
<1>3. PICK f : /\ Laid(f) /\ Len(file) <= Len(f)
               /\ \A p \in 1 .. Len(file) : file[p] = f[p]
  BY <1>2
<1>4. /\ Sized /\ Sorted(offsets) /\ Len(offsets) = count /\ LowRight(offsets, data)
      /\ UpRight(offsets, data) /\ JumpsRight(offsets, data, count)
      /\ plan.layout \in {"Legacy", "Footer"}
  BY <1>2, PlansFit DEF MakeInv, SetUp, Made, Entries
<1>5. PICK words : words = WordsFrom(Lead)
  OBVIOUS
<1>6. /\ DOMAIN words = 0 .. Len(file) - Lead - 3
      /\ \A w \in 0 .. Size - 1 : w \in DOMAIN words => words[w] = data[w]
  BY <1>2, <1>3, <1>4, <1>5, WordsAre
<1>7. PICK b \in Nat, j \in Nat, z \in Nat, n \in Nat :
        b = Lead /\ j = JumpBase /\ z = Size /\ n = Len(file) /\ j <= z /\ b + 2 + j <= n
  <2>1. Lead \in Nat
    BY <1>3 DEF Laid
  <2>2. 0 \in 0 .. count - 1
    BY <1>4 DEF Sized
  <2>3. JumpBase \in Nat /\ Size \in Nat /\ JumpBase <= Size
    BY <1>4, <2>2, RegionsAre, PlaceFits
  <2> QED BY <1>2, <2>1, <2>3
<1>8. 0 .. j - 1 \subseteq DOMAIN words
  BY <1>6, <1>7
<1>9. \A w \in 0 .. JumpBase - 1 : words[w] = data[w]
  <2>1. \A w \in 0 .. j - 1 : w \in 0 .. z - 1
    BY <1>7
  <2> QED BY <1>6, <1>7, <1>8, <2>1
<1>10. LowRight(offsets, words) /\ UpRight(offsets, words)
  BY <1>4, <1>9, SameRegions
<1>11. JumpsRight(offsets, words, count)
  BY <1>2, <1>4, <1>6, JumpsCarry
<1>12. kind' = "Legacy" => DOMAIN words = 0 .. n - 3 /\ n >= 2 + j /\ n <= 2 + z
  <2> SUFFICES ASSUME plan.layout = "Legacy"
               PROVE  DOMAIN words = 0 .. n - 3 /\ n >= 2 + j /\ n <= 2 + z
    OBVIOUS
  <2>1. b = 0
    BY <1>7 DEF Lead
  <2>2. n <= 2 + z
    BY <1>3, <1>7 DEF Laid
  <2> QED BY <1>6, <1>7, <2>1, <2>2
<1>13. kind' = "Footer" => 0 .. z - 1 \subseteq DOMAIN words /\ n = b + z + 7
  <2> SUFFICES ASSUME plan.layout = "Footer"
               PROVE  0 .. z - 1 \subseteq DOMAIN words /\ n = b + z + 7
    OBVIOUS
  <2>1. n = b + z + 7
    BY <1>7
  <2> QED BY <1>6, <1>7, <2>1
<1>14. data' = words /\ kind' = plan'.layout
  BY <1>1, <1>5
<1>15. Lead' = Lead
  BY <1>1 DEF Lead, Padded
<1>16. (LowRight(offsets, data) /\ UpRight(offsets, data) /\ JumpsRight(offsets, data, count))'
  BY <1>1, <1>10, <1>11, <1>14, SameSizes
<1>17. JumpBase' = j /\ Size' = z
  BY <1>1, <1>7, SameSizes
<1>18. Len(file)' = n
  BY <1>1, <1>7
<1> QED BY <1>1, <1>2, <1>7, <1>8, <1>12, <1>13, <1>14, <1>15, <1>16, <1>17, <1>18 DEF Taken

\* A file that is taken for one of either layout is of that layout, and long enough.
LEMMA Opens ==
  ASSUME MakeInv, NodesInv, Put, OpenBt
  PROVE  Readable'
<1>1. phase = "written" /\ phase' \in {"open", "refused"}
  BY DEF OpenBt
<1>2. SUFFICES ASSUME phase' = "open", kind' # "Empty" PROVE Taken'
  BY <1>1 DEF Readable
<1>3. CASE file = <<>>
  <2>1. ~ HasMagic
    BY <1>3 DEF HasMagic
  <2> QED BY <1>2, <1>3, <2>1 DEF OpenBt
<1>4. CASE file # <<>>
  <2>1. /\ count > 0 /\ IsRow(data) /\ Len(file) \in Nat /\ Len(file) > 0
        /\ \E f : /\ Laid(f) /\ Len(file) <= Len(f)
                  /\ \A p \in 1 .. Len(file) : file[p] = f[p]
    BY <1>1, <1>4, PutIs DEF MakeInv
  <2>2. PICK f : /\ Laid(f) /\ Len(file) <= Len(f)
                 /\ \A p \in 1 .. Len(file) : file[p] = f[p]
    BY <2>1
  <2>3. Sized /\ plan.layout \in {"Legacy", "Footer"}
    BY <2>1, PlansFit DEF MakeInv
  <2>4. PICK b \in Nat, n \in Nat : b = Lead /\ n = Len(file)
    BY <2>1, <2>2 DEF Laid
  <2>5. PICK j \in Nat, z \in Nat, x \in Nat, y \in Nat :
          /\ j = JumpBase /\ z = Size /\ j <= z /\ j = x + y
          /\ x = WordsLower /\ y = WordsUpper
    <3>1. 0 \in 0 .. count - 1
      BY <2>3 DEF Sized
    <3>2. /\ JumpBase \in Nat /\ Size \in Nat /\ JumpBase <= Size /\ WordsLower \in Nat
          /\ WordsUpper \in Nat /\ JumpBase = WordsLower + WordsUpper
      BY <2>3, <3>1, RegionsAre, PlaceFits
    <3> QED BY <3>2
  <2>6. CASE HasMagic
    <3>1. plan.layout = "Footer" /\ n = Len(f)
      <4>1. n \in 1 .. Len(file) /\ file[n] = Magic
        BY <2>1, <2>4, <2>6 DEF HasMagic
      <4>2. f[n] = Magic
        BY <2>2, <4>1
      <4>3. n \in 1 .. Len(f)
        BY <2>2, <2>4, <4>1 DEF Laid
      <4> QED BY <2>2, <4>2, <4>3 DEF Laid
    <3>2. n = b + z + 7
      BY <2>2, <2>4, <2>5, <3>1 DEF Laid
    <3>3. EfOffset = b
      <4>1. Payload + 3 = b + z + 5 /\ b + z + 5 \in 1 .. n
        BY <2>4, <3>2 DEF Payload
      <4>2. f[b + z + 5] = Num(b)
        BY <2>2, <2>4, <2>5, <3>1 DEF Laid
      <4>3. file[b + z + 5] = Num(b)
        BY <2>2, <2>4, <4>1, <4>2
      <4> QED BY <4>1, <4>3, CellsAre DEF EfOffset
    <3>4. kind' = "Footer" /\ data' = WordsFrom(EfOffset)
      BY <1>2, <1>4, <2>6 DEF OpenBt
    <3> QED BY <1>1, <1>4, <2>4, <2>5, <3>1, <3>2, <3>3, <3>4, TakenIs
  <2>7. CASE ~ HasMagic
    <3>1. /\ file[1] # Mark /\ ArrayFits(0) /\ kind' = "Legacy" /\ data' = WordsFrom(0)
      BY <1>2, <1>4, <2>7 DEF OpenBt
    <3>2. plan.layout = "Legacy"
      <4> SUFFICES ASSUME plan.layout = "Footer" PROVE FALSE
        BY <2>3
      <4>1. f[1] = Mark
        BY <2>2 DEF Laid
      <4>2. 1 \in 1 .. Len(file)
        BY <2>1
      <4> QED BY <2>2, <3>1, <4>1, <4>2
    <3>3. b = 0
      BY <2>4, <3>2 DEF Lead
    <3>4. 0 + 2 + j <= n
      BY <2>4, <2>5, <3>1 DEF ArrayFits
    <3> QED BY <1>1, <1>4, <2>4, <2>5, <3>1, <3>2, <3>3, <3>4, TakenIs
  <2> QED BY <2>6, <2>7
<1> QED BY <1>3, <1>4

(***************************************************************************)
(* get.                                                                    *)
(***************************************************************************)

\* The search stands at word currWord, with the one looked for d ones further on.
Scanning ==
  phase = "scan" =>
    /\ i \in 0 .. count - 1 /\ d \in 0 .. i /\ currWord \in 0 .. WordsUpper - 1
    /\ \E e : IsWindow(window, offsets, currWord, i - d, e)
    /\ \A k \in 0 .. i - d - 1 : Pos(offsets, k) < WordBits * currWord + WordBits
    /\ lower % Pow2[L] = offsets[i + 1] % Pow2[L]

Returned == phase = "done" => result = offsets[i + 1]

\* The low bits that get reads are the offset's.
LEMMA LowerRight ==
  ASSUME Sized, Sorted(offsets), Len(offsets) = count, LowRight(offsets, data),
         NEW n \in 0 .. count - 1
  PROVE  LowerBits(n) % Pow2[L] = offsets[n + 1] % Pow2[L]
<1>1. offsets[n + 1] \in Nat
  <2>1. offsets[n + 1] \in 0 .. maxOffset
    BY OffsetIs
  <2> QED BY <2>1
<1>2. PICK x \in Nat : x = offsets[n + 1]
  BY <1>1
<1>3. CASE L = 0
  <2>1. LowerBits(n) = 0 /\ Pow2[L] = 1
    BY <1>3, Powers DEF LowerBits
  <2>2. 0 % 1 = 0 /\ x % 1 = 0
    OBVIOUS
  <2> QED BY <1>2, <2>1, <2>2
<1>4. CASE L # 0
  <2>1. PICK l \in 1 .. WordBits - 1 : l = L
    BY <1>4, LowIs
  <2>2. WordsLower \in Nat \ {0} /\ n \in Nat /\ WordBits \in Nat
    BY RegionsAre, Powers DEF Sized
  <2>3. 0 \in 0 .. L - 1
    BY <2>1
  <2>4. /\ n * L \in Nat /\ (n * L) \div WordBits \in 0 .. WordsLower - 2
    BY <2>3, LowPlace
  <2>5. PICK w \in 0 .. WordsLower - 2 : w = (n * L) \div WordBits
    BY <2>4
  <2>6. data[w] \in Word /\ data[w + 1] \in Word
    <3>1. w \in 0 .. WordsLower - 1 /\ w + 1 \in 0 .. WordsLower - 1
      BY <2>2
    <3> QED BY <3>1 DEF LowRight
  <2>7. L \in 1 .. WordBits - 1
    BY <2>1
  <2>8. /\ LowerBits(n) \in Word
        /\ \A k \in 0 .. L - 1 : IsSet(LowerBits(n), k) <=> BitAt(data, 0, n * L + k)
    BY <2>2, <2>4, <2>5, <2>6, <2>7, LowerIs
  <2>9. PICK y \in Nat : y = LowerBits(n)
    BY <2>8, WordIs
  <2>10. \A k \in 0 .. l - 1 : IsSet(y, k) <=> IsSet(x, k)
    <3> SUFFICES ASSUME NEW k \in 0 .. l - 1 PROVE IsSet(y, k) <=> IsSet(x, k)
      OBVIOUS
    <3>1. k \in 0 .. L - 1 /\ n \in 0 .. Len(offsets) - 1
      BY <2>1
    <3>2. BitAt(data, 0, n * L + k) <=> IsSet(offsets[n + 1], k)
      BY <3>1 DEF LowRight
    <3> QED BY <1>2, <2>8, <2>9, <3>1, <3>2
  <2>11. l \in 0 .. WordBits /\ WordBits \in 0 .. WordBits
    BY <2>2
  <2>12. /\ y % Pow2[l] \in 0 .. Pow2[l] - 1 /\ y % Pow2[l] \in Nat
         /\ \A b \in 0 .. WordBits - 1 : IsSet(y % Pow2[l], b) <=> b < l /\ IsSet(y, b)
    BY <2>11, ModBits
  <2>13. /\ x % Pow2[l] \in 0 .. Pow2[l] - 1 /\ x % Pow2[l] \in Nat
         /\ \A b \in 0 .. WordBits - 1 : IsSet(x % Pow2[l], b) <=> b < l /\ IsSet(x, b)
    BY <2>11, ModBits
  <2>14. PICK u \in Nat, v \in Nat : u = y % Pow2[l] /\ v = x % Pow2[l]
    BY <2>12, <2>13
  <2>15. u \in Word /\ v \in Word
    <3>1. PICK p \in Nat, q \in Nat : p = Pow2[l] /\ q = Pow2[WordBits] /\ p <= q
      <4>1. l <= WordBits
        BY <2>11
      <4> QED BY <2>11, <4>1, Powers
    <3>2. u \in 0 .. p - 1 /\ v \in 0 .. p - 1
      BY <2>12, <2>13, <2>14, <3>1
    <3>3. u < q /\ v < q
      BY <3>1, <3>2
    <3> QED BY <3>1, <3>3, WordIs
  <2>16. ASSUME NEW b \in 0 .. WordBits - 1 PROVE IsSet(u, b) <=> IsSet(v, b)
    <3>1. b < l => b \in 0 .. l - 1
      BY <2>1
    <3>2. b < l => (IsSet(y, b) <=> IsSet(x, b))
      BY <2>10, <3>1
    <3>3. /\ IsSet(u, b) <=> b < l /\ IsSet(y, b)
          /\ IsSet(v, b) <=> b < l /\ IsSet(x, b)
      BY <2>12, <2>13, <2>14
    <3> QED BY <3>2, <3>3, Zenon
  <2>17. BitsOf(u) = BitsOf(v)
    <3>1. \A b \in 0 .. WordBits - 1 : b \in BitsOf(u) <=> b \in BitsOf(v)
      BY <2>16, BitsAre
    <3>2. BitsOf(u) \subseteq 0 .. WordBits - 1 /\ BitsOf(v) \subseteq 0 .. WordBits - 1
      BY DEF BitsOf
    <3> QED BY <3>1, <3>2
  <2>18. u = v
    BY <2>15, <2>17, BitsApart
  <2> QED BY <1>2, <2>1, <2>9, <2>14, <2>18
<1> QED BY <1>3, <1>4

\* Reading never goes on behind the upper region, and comes to the one looked for.
LEMMA WordPasses ==
  ASSUME Sized, NEW o, Sorted(o), Len(o) = count, NEW n \in 0 .. count - 1,
         NEW e2 \in 0 .. n, NEW cw \in 0 .. WordsUpper - 1, NEW win, NEW e,
         IsWindow(win, o, cw, n - e2, e), Cardinality(win) <= e2
  PROVE  /\ cw + 1 \in 0 .. WordsUpper - 1
         /\ e + 1 \in 0 .. n /\ e2 - Cardinality(win) = n - (e + 1)
         /\ e2 - Cardinality(win) \in 0 .. n
         /\ \A k \in e + 1 .. count - 1 : Pos(o, k) >= WordBits * (cw + 1)
<1>1. count \in Nat /\ WordBits \in Nat \ {0} /\ WordsUpper \in Nat /\ n \in Nat /\ cw \in Nat
  BY Powers, RegionsAre DEF Sized
<1>2. PICK first \in 0 .. count : first = n - e2
  BY <1>1
<1>3. /\ e \in first - 1 .. count - 1
      /\ win = {Pos(o, k) - WordBits * cw : k \in first .. e}
      /\ \A k \in e + 1 .. count - 1 : Pos(o, k) >= WordBits * cw + WordBits
  BY <1>2 DEF IsWindow
<1>4. PICK x \in Nat : x = WordBits * cw
  BY <1>1
<1>5. Cardinality(win) = e + 1 - first
  <2>1. Cardinality({Pos(o, k) - x : k \in first .. e}) = e + 1 - first
    <3>1. PICK t \in first - 1 .. count - 1 : t = e
      BY <1>3
    <3>2. Cardinality(Ones(o, x, first, t)) = t + 1 - first
      BY Ranks
    <3> QED BY <3>1, <3>2 DEF Ones
  <2> QED BY <1>3, <1>4, <2>1
<1>6. e + 1 - first <= e2 /\ e \in Int
  BY <1>1, <1>3, <1>5
<1>7. e + 1 \in 0 .. n /\ e2 - Cardinality(win) = n - (e + 1)
  BY <1>1, <1>2, <1>3, <1>5, <1>6
<1>8. WordBits * (cw + 1) = x + WordBits
  BY <1>1, <1>4
<1>9. \A k \in e + 1 .. count - 1 : Pos(o, k) >= WordBits * (cw + 1)
  BY <1>3, <1>4, <1>8
<1>10. cw + 1 < WordsUpper
  <2> SUFFICES ASSUME cw + 1 = WordsUpper PROVE FALSE
    BY <1>1
  <2>1. n \in e + 1 .. count - 1 /\ n \in 0 .. Len(o) - 1
    BY <1>1, <1>7
  <2>2. Pos(o, n) < WordBits * WordsUpper /\ Pos(o, n) \in Nat
    BY <2>1, PosIs
  <2>3. PICK p \in Nat : p = Pos(o, n) /\ p < x + WordBits /\ p >= x + WordBits
    BY <1>8, <1>9, <2>1, <2>2
  <2> QED BY <1>1, <1>4, <2>3
<1> QED BY <1>1, <1>7, <1>9, <1>10

LEMMA TakenFits ==
  ASSUME SetUp, Taken, phase \in {"open", "scan", "done"}
  PROVE  /\ Sized /\ count \in Nat /\ Sorted(offsets) /\ Len(offsets) = count
         /\ kind \in {"Legacy", "Footer"}
BY PlansFit DEF SetUp, Taken

LEMMA GetPanics ==
  ASSUME SetUp, Taken, phase \in {"open", "done"}, NEW n \in 0 .. count - 1, Get(n),
         phase' = "panic"
  PROVE  kind = "Legacy" /\ Len(file) < 2 + Size
<1>1. Sized /\ kind \in {"Legacy", "Footer"}
  BY TakenFits
<1>2. PICK a \in Nat, b \in Nat, z \in Nat :
        a = SuperEntry(n) /\ b = HalfEntry(n) /\ z = Size /\ a < b /\ b < z
  BY <1>1, PlaceFits
<1>3. a \in 0 .. z - 1 /\ b \in 0 .. z - 1
  BY <1>2
<1>4. ~ (0 .. z - 1 \subseteq DOMAIN data)
  <2>1. ~ ({SuperEntry(n), HalfEntry(n)} \subseteq DOMAIN data)
    BY DEF Get
  <2> QED BY <1>2, <1>3, <2>1
<1>5. kind = "Legacy"
  BY <1>1, <1>2, <1>4 DEF Taken
<1>6. DOMAIN data = 0 .. Len(file) - 3 /\ Len(file) \in Nat
  BY <1>5 DEF Taken
<1>7. ~ (Len(file) >= 2 + z)
  <2> SUFFICES ASSUME Len(file) >= 2 + z PROVE FALSE
    OBVIOUS
  <2>1. 0 .. z - 1 \subseteq DOMAIN data
    BY <1>6
  <2> QED BY <1>4, <2>1
<1> QED BY <1>2, <1>5, <1>6, <1>7

LEMMA GetScans ==
  ASSUME SetUp, Taken, phase \in {"open", "done"}, NEW n \in 0 .. count - 1, Get(n),
         phase' = "scan"
  PROVE  Scanning'
<1>1. /\ Sized /\ count \in Nat /\ Sorted(offsets) /\ Len(offsets) = count
      /\ LowRight(offsets, data) /\ UpRight(offsets, data) /\ JumpsRight(offsets, data, count)
  BY TakenFits DEF Taken
<1>2. /\ count' = count /\ maxOffset' = maxOffset /\ offsets' = offsets /\ i' = n
      /\ {SuperEntry(n), HalfEntry(n)} \subseteq DOMAIN data
      /\ lower' = LowerBits(n) /\ currWord' = Jump(n) \div WordBits
      /\ window' = Mask(Jump(n)) /\ d' = n % Q
  BY DEF Get, builder
<1>3. /\ n - (n % Q) \in 0 .. n /\ n % Q \in 0 .. n /\ Jump(n) = Pos(offsets, n - (n % Q))
  BY <1>1, <1>2, JumpIs
<1>4. PICK r \in 0 .. n, first \in 0 .. n : r = n % Q /\ first = n - r
  BY <1>3
<1>5. n \in Nat /\ first \in 0 .. count - 1 /\ first \in 0 .. count
  BY <1>1, <1>4
<1>6. PICK start \in Nat : start = Jump(n) /\ start = Pos(offsets, first)
  <2>1. first \in 0 .. Len(offsets) - 1
    BY <1>1, <1>5
  <2> QED BY <1>1, <1>3, <1>4, <2>1, PosIs
<1>7. PICK cw \in 0 .. WordsUpper - 1 : cw = start \div WordBits
  <2>1. first \in 0 .. Len(offsets) - 1
    BY <1>1, <1>5
  <2>2. start \div WordBits \in Nat /\ start \div WordBits < WordsUpper
    BY <1>1, <1>6, <2>1, PosIs
  <2> QED BY <1>1, <2>2, RegionsAre
<1>8. PICK x \in Nat, b0 \in 0 .. WordBits - 1 :
        x = WordBits * cw /\ b0 = start % WordBits /\ start = x + b0
  <2>1. WordBits \in Nat \ {0}
    BY Powers
  <2>2. /\ start = WordBits * (start \div WordBits) + (start % WordBits)
        /\ start % WordBits \in 0 .. WordBits - 1 /\ start \div WordBits \in Nat
    BY <2>1, Euclid
  <2>3. WordBits * cw \in Nat
    BY <1>7, <2>1, <2>2
  <2> QED BY <1>7, <2>2, <2>3
<1>9. \A k \in 0 .. first - 1 : Pos(offsets, k) < start
  <2> SUFFICES ASSUME NEW k \in 0 .. first - 1 PROVE Pos(offsets, k) < start
    OBVIOUS
  <2>1. k \in 0 .. Len(offsets) - 1 /\ first \in 0 .. Len(offsets) - 1 /\ k < first
    BY <1>1, <1>5
  <2> QED BY <1>1, <1>6, <2>1, PosIs
<1>10. \A k \in first .. count - 1 : Pos(offsets, k) >= start
  <2> SUFFICES ASSUME NEW k \in first .. count - 1 PROVE Pos(offsets, k) >= start
    OBVIOUS
  <2>1. k \in 0 .. Len(offsets) - 1 /\ first \in 0 .. Len(offsets) - 1
    BY <1>1, <1>5
  <2>2. Pos(offsets, k) \in Nat /\ (first < k => Pos(offsets, first) < Pos(offsets, k))
    BY <1>1, <2>1, PosIs
  <2>3. first = k \/ first < k
    BY <1>5
  <2> QED BY <1>6, <2>2, <2>3
<1>11. start >= WordBits * cw
  BY <1>8
<1>12. PICK ones : ones = OnesFrom(data, cw, start)
  OBVIOUS
<1>13. PICK e : IsWindow(ones, offsets, cw, first, e)
  BY <1>1, <1>5, <1>9, <1>10, <1>11, <1>12, WindowIs
<1>14. window' = ones
  <2>1. window' = {b \in BitsOf(data[WordsLower + cw]) : b >= b0}
    BY <1>2, <1>6, <1>7, <1>8 DEF Mask
  <2>2. BitsOf(data[WordsLower + cw]) \subseteq Nat
    BY Powers DEF BitsOf
  <2>3. \A b \in Nat : WordBits * cw + b >= start <=> b >= b0
    BY <1>8
  <2> QED BY <1>12, <2>1, <2>2, <2>3 DEF OnesFrom
<1>15. \A k \in 0 .. first - 1 : Pos(offsets, k) < WordBits * cw + WordBits
  <2> SUFFICES ASSUME NEW k \in 0 .. first - 1
               PROVE  Pos(offsets, k) < WordBits * cw + WordBits
    OBVIOUS
  <2>1. Pos(offsets, k) < start
    BY <1>9
  <2>2. k \in 0 .. Len(offsets) - 1
    BY <1>1, <1>5
  <2>3. Pos(offsets, k) \in Nat
    BY <1>1, <2>2, PosIs
  <2> QED BY <1>8, <2>1, <2>3, Powers
<1>16. LowerBits(n) % Pow2[L] = offsets[n + 1] % Pow2[L]
  BY <1>1, LowerRight
<1>17. currWord' = cw /\ d' = r
  BY <1>2, <1>4, <1>6, <1>7
<1>18. (\E e3 : IsWindow(window, offsets, currWord, i - d, e3))'
  <2>1. i' - d' = first
    BY <1>2, <1>4, <1>17
  <2>2. IsWindow(window, offsets, currWord, i - d, e)'
    BY <1>2, <1>13, <1>14, <1>17, <2>1, SameSizes
  <2> QED BY <2>2
<1>19. (\A k \in 0 .. i - d - 1 : Pos(offsets, k) < WordBits * currWord + WordBits)'
  <2>1. i' - d' - 1 = first - 1
    BY <1>2, <1>4, <1>17
  <2> QED BY <1>2, <1>15, <1>17, <2>1, SameSizes
<1>20. (lower % Pow2[L] = offsets[i + 1] % Pow2[L])'
  BY <1>2, <1>16, SameSizes
<1>21. (i \in 0 .. count - 1 /\ d \in 0 .. i /\ currWord \in 0 .. WordsUpper - 1)'
  BY <1>2, <1>4, <1>7, <1>17, SameSizes
<1> QED BY <1>18, <1>19, <1>20, <1>21 DEF Scanning

LEMMA WordScans ==
  ASSUME SetUp, Taken, Scanning, NextWord
  PROVE  phase' = "scan" /\ Scanning'
<1>1. /\ phase = "scan" /\ Cardinality(window) <= d /\ count' = count
      /\ maxOffset' = maxOffset /\ offsets' = offsets /\ i' = i /\ lower' = lower
  BY DEF NextWord, builder
<1>2. /\ Sized /\ count \in Nat /\ Sorted(offsets) /\ Len(offsets) = count
      /\ UpRight(offsets, data) /\ 0 .. JumpBase - 1 \subseteq DOMAIN data
  BY <1>1, TakenFits DEF Taken
<1>0. i \in 0 .. count - 1 /\ d \in 0 .. i /\ currWord \in 0 .. WordsUpper - 1
  BY <1>1 DEF Scanning
<1>30. PICK n \in 0 .. count - 1 : n = i
  BY <1>0
<1>31. PICK e2 \in 0 .. n : e2 = d
  BY <1>0, <1>30
<1>32. PICK cw \in 0 .. WordsUpper - 1 : cw = currWord
  BY <1>0
<1>33. PICK win : win = window
  OBVIOUS
<1>3. n = i /\ e2 = d /\ cw = currWord /\ win = window
  BY <1>30, <1>31, <1>32, <1>33
<1>4. PICK e : IsWindow(win, offsets, cw, n - e2, e)
  BY <1>1, <1>3 DEF Scanning
<1>5. \A k \in 0 .. n - e2 - 1 : Pos(offsets, k) < WordBits * cw + WordBits
  BY <1>1, <1>3 DEF Scanning
<1>6. lower % Pow2[L] = offsets[i + 1] % Pow2[L]
  BY <1>1 DEF Scanning
<1>7. Cardinality(win) <= e2
  BY <1>1, <1>3
<1>8. /\ cw + 1 \in 0 .. WordsUpper - 1
      /\ e + 1 \in 0 .. n /\ e2 - Cardinality(win) = n - (e + 1)
      /\ e2 - Cardinality(win) \in 0 .. n
      /\ \A k \in e + 1 .. count - 1 : Pos(offsets, k) >= WordBits * (cw + 1)
  BY <1>2, <1>4, <1>7, WordPasses
<1>9. PICK cw2 \in 0 .. WordsUpper - 1, first \in 0 .. n, d2 \in 0 .. n :
        cw2 = cw + 1 /\ first = e + 1 /\ d2 = e2 - Cardinality(win) /\ d2 = n - first
  BY <1>8
<1>10. PICK x \in Nat : x = WordBits * cw2 /\ x = WordBits * cw + WordBits
  <2>1. WordBits \in Nat /\ cw \in Nat /\ cw2 \in Nat /\ WordsUpper \in Nat
    BY <1>2, Powers, RegionsAre
  <2> QED BY <1>9, <2>1
<1>11. WordsLower + cw2 \in DOMAIN data
  <2>1. WordsLower \in Nat /\ WordsUpper \in Nat /\ JumpBase = WordsLower + WordsUpper
    BY <1>2, RegionsAre
  <2>2. WordsLower + cw2 \in 0 .. JumpBase - 1
    BY <2>1
  <2> QED BY <1>2, <2>2
<1>12. /\ phase' = "scan" /\ currWord' = cw2 /\ window' = BitsOf(data[WordsLower + cw2])
       /\ d' = d2
  <2>1. WordsLower + cw2 = WordsLower + currWord + 1
    <3>1. WordsLower \in Nat /\ cw \in Nat
      BY <1>2, RegionsAre
    <3> QED BY <1>3, <1>9, <3>1
  <2>2. WordsLower + currWord + 1 \in DOMAIN data
    BY <1>11, <2>1
  <2>3. phase' = "scan" /\ currWord' = currWord + 1 /\ d' = Counted
        /\ window' = BitsOf(data[WordsLower + currWord + 1])
    BY <1>1, <2>2 DEF NextWord
  <2> QED BY <1>3, <1>9, <2>1, <2>3 DEF Counted
<1>13. \A k \in first .. count - 1 : Pos(offsets, k) >= x
  BY <1>8, <1>9, <1>10
<1>14. \A k \in 0 .. first - 1 : Pos(offsets, k) < x
  <2> SUFFICES ASSUME NEW k \in 0 .. first - 1 PROVE Pos(offsets, k) < x
    OBVIOUS
  <2>1. CASE k < n - e2
    BY <1>3, <1>5, <1>10, <2>1
  <2>2. CASE k >= n - e2
    <3>0. e \in Int
      BY <1>2, <1>4 DEF IsWindow
    <3>1. k \in n - e2 .. e
      BY <1>9, <2>2, <3>0
    <3>2. Pos(offsets, k) < WordBits * cw + WordBits
      BY <1>4, <3>1 DEF IsWindow
    <3> QED BY <1>10, <3>2
  <2> QED BY <1>2, <2>1, <2>2
<1>15. PICK ones : ones = OnesFrom(data, cw2, x)
  OBVIOUS
<1>16. \E t : IsWindow(ones, offsets, cw2, first, t)
  <2>1. first \in 0 .. count /\ x >= WordBits * cw2
    BY <1>2, <1>10
  <2> QED BY <1>2, <1>13, <1>14, <1>15, <2>1, WindowIs
<1>17. window' = ones
  <2>1. BitsOf(data[WordsLower + cw2]) \subseteq Nat
    BY Powers DEF BitsOf
  <2>2. \A b \in Nat : WordBits * cw2 + b >= x
    BY <1>10
  <2> QED BY <1>12, <1>15, <2>1, <2>2 DEF OnesFrom
<1>18. PICK t : IsWindow(ones, offsets, cw2, first, t)
  BY <1>16
<1>19. i' - d' = first
  BY <1>1, <1>2, <1>3, <1>9, <1>12
<1>20. (\E t2 : IsWindow(window, offsets, currWord, i - d, t2))'
  <2>1. IsWindow(window, offsets, currWord, i - d, t)'
    BY <1>1, <1>12, <1>17, <1>18, <1>19, SameSizes
  <2> QED BY <2>1
<1>21. (\A k \in 0 .. i - d - 1 : Pos(offsets, k) < WordBits * currWord + WordBits)'
  <2>1. \A k \in 0 .. first - 1 : Pos(offsets, k) < WordBits * cw2 + WordBits
    <3>1. \A k \in 0 .. first - 1 : Pos(offsets, k) \in Nat
      <4>1. \A k \in 0 .. first - 1 : k \in 0 .. Len(offsets) - 1
        BY <1>2
      <4> QED BY <1>2, <4>1, PosIs
    <3> QED BY <1>10, <1>14, <3>1, Powers
  <2>2. i' - d' - 1 = first - 1
    BY <1>19
  <2> QED BY <1>1, <1>12, <2>1, <2>2, SameSizes
<1>22. (lower % Pow2[L] = offsets[i + 1] % Pow2[L])'
  BY <1>1, <1>6, SameSizes
<1>23. (i \in 0 .. count - 1 /\ d \in 0 .. i /\ currWord \in 0 .. WordsUpper - 1)'
  BY <1>1, <1>3, <1>9, <1>12, SameSizes
<1> QED BY <1>12, <1>20, <1>21, <1>22, <1>23 DEF Scanning

\* The one that is found is the offset's, and the result the offset.
LEMMA FoundIs ==
  ASSUME SetUp, Taken, Scanning, Found
  PROVE  phase' = "done" /\ Returned'
<1>1. /\ phase = "scan" /\ Cardinality(window) > d /\ offsets' = offsets /\ i' = i
      /\ result' = ((currWord * WordBits + Select(window, d) - i) * Pow2[L])
                     + (lower % Pow2[L])
      /\ phase' = "done"
  BY DEF Found, builder, getting
<1>2. Sized /\ count \in Nat /\ Sorted(offsets) /\ Len(offsets) = count
  BY <1>1, TakenFits
<1>0. i \in 0 .. count - 1 /\ d \in 0 .. i /\ currWord \in 0 .. WordsUpper - 1
  BY <1>1 DEF Scanning
<1>30. PICK n \in 0 .. count - 1 : n = i
  BY <1>0
<1>31. PICK e2 \in 0 .. n : e2 = d
  BY <1>0, <1>30
<1>32. PICK cw \in 0 .. WordsUpper - 1 : cw = currWord
  BY <1>0
<1>33. PICK win : win = window
  OBVIOUS
<1>3. n = i /\ e2 = d /\ cw = currWord /\ win = window
  BY <1>30, <1>31, <1>32, <1>33
<1>4. PICK e : IsWindow(win, offsets, cw, n - e2, e)
  BY <1>1, <1>3 DEF Scanning
<1>5. PICK first \in 0 .. count : first = n - e2
  BY <1>2
<1>6. IsWindow(win, offsets, cw, first, e)
  BY <1>4, <1>5
<1>7. e \in first - 1 .. count - 1 /\ win = {Pos(offsets, k) - WordBits * cw : k \in first .. e}
  BY <1>6 DEF IsWindow
<1>8. PICK x \in Nat : x = WordBits * cw /\ x = cw * WordBits
  <2>1. WordBits \in Nat /\ cw \in Nat /\ WordsUpper \in Nat
    BY <1>2, Powers, RegionsAre
  <2> QED BY <2>1
<1>9. PICK t \in first - 1 .. count - 1 : t = e
  BY <1>7
<1>10. Cardinality(win) = t + 1 - first
  <2>1. Cardinality(Ones(offsets, x, first, t)) = t + 1 - first
    BY <1>2, Ranks
  <2> QED BY <1>7, <1>8, <1>9, <2>1 DEF Ones
<1>11. n \in first .. t
  BY <1>1, <1>2, <1>3, <1>5, <1>10
<1>12. Select(win, n - first) = Pos(offsets, n) - WordBits * cw
  <2>1. Sized /\ Sorted(offsets) /\ Len(offsets) = count /\ cw \in Nat
    BY <1>2
  <2>2. IsWindow(win, offsets, cw, first, t)
    BY <1>6, <1>9
  <2>3. PICK k \in first .. t : k = n
    BY <1>11
  <2>4. SelectFrom(win, first, k) = Pos(offsets, k) - WordBits * cw
    BY <2>1, <2>2, SelectIs
  <2> QED BY <2>3, <2>4 DEF SelectFrom
<1>13. n - first = e2
  BY <1>2, <1>5
<1>14. PICK y \in Nat, m \in Nat \ {0} : y = offsets[n + 1] /\ m = Pow2[L]
  <2>1. offsets[n + 1] \in 0 .. maxOffset
    BY <1>2, OffsetIs
  <2> QED BY <1>2, <2>1, LowIs
<1>15. PICK q \in Nat, r \in 0 .. m - 1 : y = m * q + r /\ q = y \div m /\ r = y % m
  BY Euclid
<1>16. Pos(offsets, n) = q + n
  BY <1>14, <1>15 DEF Pos
<1>17. currWord * WordBits + Select(window, d) - i = q
  <2>1. Select(window, d) = q + n - x
    BY <1>3, <1>8, <1>12, <1>13, <1>16
  <2>2. currWord * WordBits = x
    BY <1>3, <1>8
  <2> QED BY <1>2, <1>3, <2>1, <2>2
<1>18. lower % Pow2[L] = r
  <2>1. lower % Pow2[L] = offsets[i + 1] % Pow2[L]
    BY <1>1 DEF Scanning
  <2> QED BY <1>3, <1>14, <1>15, <2>1
<1>19. result' = q * m + r
  BY <1>1, <1>14, <1>17, <1>18
<1>20. q * m + r = y
  BY <1>15
<1>21. result' = offsets[i + 1]
  BY <1>3, <1>14, <1>19, <1>20
<1> QED BY <1>1, <1>21 DEF Returned

(***************************************************************************)
(* The steps.                                                              *)
(***************************************************************************)

\* Only what a legacy file lacks of the table of jumps, or a jump too long, is met with
\* a panic.
Panics ==
  phase = "panic" /\ JumpsFit => kind = "Legacy" /\ Len(file) < 2 + Size

BtInv ==
  MakeInv /\ NodesInv /\ Put /\ Readable /\ Scanning /\ Returned /\ Panics

LEMMA TakenStays ==
  ASSUME Taken, UNCHANGED <<builder, data, plan, nodes, file, kind>>
  PROVE  Taken'
<1>1. /\ count' = count /\ maxOffset' = maxOffset /\ offsets' = offsets /\ data' = data
      /\ plan' = plan /\ nodes' = nodes /\ file' = file /\ kind' = kind
  BY DEF builder
<1>2. (LowRight(offsets, data) /\ UpRight(offsets, data) /\ JumpsRight(offsets, data, count))'
  BY <1>1, SameSizes DEF Taken
<1>3. Lead' = Lead
  BY <1>1 DEF Lead, Padded
<1>4. JumpBase' = JumpBase /\ Size' = Size
  BY <1>1, SameSizes
<1> QED BY <1>1, <1>2, <1>3, <1>4 DEF Taken

LEMMA FitStays ==
  ASSUME count' = count, maxOffset' = maxOffset
  PROVE  JumpsFit' <=> JumpsFit
BY SameSizes DEF JumpsFit

LEMMA NodesStay ==
  ASSUME NodesInv, UNCHANGED <<plan, nodes>>
  PROVE  NodesInv'
BY DEF NodesInv

LEMMA AddPuts ==
  ASSUME BtInv, NEW offset \in Last .. maxOffset, AddKey(offset)
  PROVE  BtInv'
<1>1. MakeInv'
  BY AddMakes DEF BtInv
<1>2. phase' = "add" /\ phase = "add" /\ plan' = plan /\ Len(offsets) < count
  BY DEF AddKey, AddOffset, BtInv, MakeInv, SetUp
<1>3. PICK n : n = Len(offsets)
  OBVIOUS
<1>4. n \in 0 .. count - 1
  BY <1>2, <1>3, PlansFit DEF BtInv, MakeInv, SetUp, Sorted
<1>5. NodesInv'
  <2>1. PICK old : old = nodes
    OBVIOUS
  <2>2. old \in Seq(Cell)
    BY <2>1 DEF BtInv, NodesInv
  <2>3. CASE ~ TakesKey(n)
    <3>1. nodes' = nodes
      BY <1>3, <2>3 DEF AddKey
    <3> QED BY <1>2, <3>1, NodesStay DEF BtInv
  <2>4. CASE TakesKey(n)
    <3>1. nodes' = old \o <<Num(plan.lens[n])>> \o KeyCells(n)
      BY <1>3, <2>1, <2>4 DEF AddKey
    <3>2. PICK l \in Nat : l = plan.lens[n]
      BY <1>4, PlansFit DEF BtInv, MakeInv
    <3>3. PICK key : key = KeyCells(n)
      OBVIOUS
    <3>4. key \in Seq(Cell)
      <4>1. \A p \in 1 .. l : <<"byte", n * 10 + p>> \in Cell
        BY <1>4 DEF Cell
      <4>2. key = [p \in 1 .. l |-> <<"byte", n * 10 + p>>]
        BY <3>2, <3>3 DEF KeyCells
      <4> QED BY <4>1, <4>2
    <3>5. PICK h : h = <<Num(l)>>
      OBVIOUS
    <3>6. h \in Seq(Cell)
      BY <3>5, CellsAre
    <3>7. PICK s : s = old \o h
      OBVIOUS
    <3>8. s \in Seq(Cell) /\ Len(s) >= Len(old) /\ \A p \in 1 .. Len(old) : s[p] = old[p]
      <4>1. old \o h \in Seq(Cell) /\ Len(old \o h) = Len(old) + Len(h) /\ Len(h) \in Nat
            /\ Len(old) \in Nat /\ \A p \in 1 .. Len(old) : (old \o h)[p] = old[p]
        BY <2>2, <3>6
      <4> QED BY <3>7, <4>1
    <3>9. s \o key \in Seq(Cell) /\ Len(s \o key) >= Len(s) /\ Len(s) \in Nat
          /\ \A p \in 1 .. Len(s) : (s \o key)[p] = s[p]
      BY <3>4, <3>8
    <3>10. PICK new : new = s \o key /\ nodes' = new
      BY <3>1, <3>2, <3>3, <3>5, <3>7
    <3>11. ASSUME plan.layout = "Footer" PROVE Len(new) > 0 /\ new[1] = Mark
      <4>1. Len(old) > 0 /\ old[1] = Mark /\ Len(old) \in Nat
        BY <2>1, <2>2, <3>11 DEF BtInv, NodesInv
      <4>2. 1 \in 1 .. Len(old) /\ 1 \in 1 .. Len(s)
        BY <3>8, <3>9, <4>1
      <4>3. s[1] = old[1]
        BY <3>8, <4>2
      <4>4. (s \o key)[1] = s[1]
        BY <3>9, <4>2
      <4>5. Len(s \o key) > 0
        BY <3>8, <3>9, <4>1
      <4> QED BY <3>10, <4>1, <4>3, <4>4, <4>5
    <3> QED BY <1>2, <3>9, <3>10, <3>11 DEF NodesInv
  <2> QED BY <2>3, <2>4
<1> QED BY <1>1, <1>2, <1>5 DEF BtInv, Put, Readable, Scanning, Returned, Panics

LEMMA BuildPuts ==
  ASSUME BtInv, Build
  PROVE  BtInv'
<1>1. plan' = plan /\ nodes' = nodes /\ file' = file /\ kind' = kind
  BY DEF Build
<1>2. NodesInv'
  BY <1>1, NodesStay DEF BtInv
<1>3. CASE StartBuild \/ Built
  <2>1. UNCHANGED <<plan, builder, building>> /\ phase' \in {"build", "built"}
    BY <1>1, <1>3 DEF StartBuild, Built
  <2>2. MakeInv'
    BY <1>3, <2>1, RestMakes DEF BtInv
  <2> QED BY <1>2, <2>1, <2>2 DEF BtInv, Put, Readable, Scanning, Returned, Panics
<1>4. CASE BuildStep
  <2>1. /\ phase = "build" /\ phase' \in {"build", "panic"} /\ count' = count
        /\ maxOffset' = maxOffset
    BY <1>4 DEF BuildStep, builder
  <2>2. MakeInv'
    BY <1>1, <1>4, BuildMakes DEF BtInv
  <2>3. phase' = "panic" => ~ JumpsFit
    BY <1>4, BuildPanics DEF BtInv
  <2>4. Panics'
    BY <2>1, <2>3, FitStays DEF Panics
  <2> QED BY <1>2, <2>1, <2>2, <2>4 DEF BtInv, Put, Readable, Scanning, Returned
<1> QED BY <1>3, <1>4 DEF Build

LEMMA WritePuts ==
  ASSUME BtInv, WriteBt
  PROVE  BtInv'
<1>1. /\ phase \in {"built", "add"} /\ (phase = "add" => count = 0) /\ phase' = "written"
      /\ data' = data /\ plan' = plan /\ nodes' = nodes /\ kind' = kind
      /\ count' = count /\ maxOffset' = maxOffset /\ offsets' = offsets
      /\ UNCHANGED <<builder, building>>
  BY DEF WriteBt, builder
<1>2. MakeInv'
  BY <1>1, RestMakes DEF BtInv
<1>3. NodesInv'
  BY <1>1, NodesStay DEF BtInv
<1>4. WholeFile' = WholeFile
  <2>1. Size' = Size /\ U' = U
    BY <1>1, SameSizes
  <2>2. EfCells' = EfCells
    BY <1>1, <2>1 DEF EfCells
  <2>3. Padded(nodes)' = Padded(nodes)
    BY <1>1 DEF Padded
  <2>4. Fanout' = Fanout
    BY <1>1 DEF Fanout
  <2> QED BY <1>1, <2>2, <2>3, <2>4 DEF WholeFile
<1>5. \E n \in 0 .. Len(WholeFile) : file' = SubSeq(WholeFile, 1, n)
  <2>1. Len(WholeFile) \in Nat
    <3>1. CASE count = 0
      <4>1. WholeFile = <<>>
        BY <3>1 DEF WholeFile
      <4> QED BY <4>1
    <3>2. CASE count # 0
      <4>1. count > 0 /\ phase = "built"
        BY <1>1, <3>2, PlansFit DEF BtInv, MakeInv
      <4>2. IsRow(data)
        BY <4>1 DEF BtInv, MakeInv, Made
      <4>3. Laid(WholeFile)
        BY <4>1, <4>2, WholeFileIs DEF BtInv, MakeInv
      <4>4. WholeFile \in Seq(Cell \cup {Magic})
        BY <4>3 DEF Laid
      <4> QED BY <4>4
    <3> QED BY <3>1, <3>2
  <2>2. Len(WholeFile) \in 0 .. Len(WholeFile)
    BY <2>1
  <2> QED BY <2>2 DEF WriteBt
<1>6. Put'
  BY <1>1, <1>4, <1>5 DEF Put
<1> QED BY <1>1, <1>2, <1>3, <1>6 DEF BtInv, Readable, Scanning, Returned, Panics

LEMMA OpenPuts ==
  ASSUME BtInv, OpenBt
  PROVE  BtInv'
<1>1. /\ phase = "written" /\ phase' \in {"open", "refused"} /\ plan' = plan /\ nodes' = nodes
      /\ UNCHANGED <<plan, builder, building>>
  BY DEF OpenBt
<1>2. MakeInv'
  BY <1>1, RestMakes DEF BtInv
<1>3. NodesInv'
  BY <1>1, NodesStay DEF BtInv
<1>4. Readable'
  BY Opens DEF BtInv
<1> QED BY <1>1, <1>2, <1>3, <1>4 DEF BtInv, Put, Scanning, Returned, Panics

LEMMA GetPuts ==
  ASSUME BtInv, NEW n \in 0 .. KeyCount - 1, KeyOffset(n)
  PROVE  BtInv'
<1>1. /\ phase \in {"open", "done"} /\ phase' \in {"scan", "panic"} /\ Get(n)
      /\ UNCHANGED <<builder, building, data, plan, nodes, file, kind>>
  BY DEF KeyOffset, Get
<1>2. n \in 0 .. count - 1 /\ kind # "Empty"
  <2>1. kind # "Empty"
    <3> SUFFICES ASSUME kind = "Empty" PROVE FALSE
      OBVIOUS
    <3>1. KeyCount = 0
      BY DEF KeyCount
    <3> QED BY <3>1
  <2> QED BY <2>1 DEF KeyCount
<1>3. Taken /\ SetUp
  BY <1>1, <1>2 DEF BtInv, MakeInv, Readable
<1>4. MakeInv'
  BY <1>1, RestMakes DEF BtInv
<1>5. NodesInv'
  BY <1>1, NodesStay DEF BtInv
<1>6. Readable'
  <2>1. Taken'
    BY <1>1, <1>3, TakenStays
  <2>2. kind' # "Empty"
    BY <1>1, <1>2
  <2> QED BY <2>1, <2>2 DEF Readable
<1>7. Scanning'
  BY <1>1, <1>2, <1>3, GetScans DEF Scanning
<1>8. Panics'
  <2> SUFFICES ASSUME phase' = "panic" PROVE (kind = "Legacy" /\ Len(file) < 2 + Size)'
    BY DEF Panics
  <2>1. kind = "Legacy" /\ Len(file) < 2 + Size
    BY <1>1, <1>2, <1>3, GetPanics
  <2>2. Size' = Size
    BY <1>1, SameSizes DEF builder
  <2> QED BY <1>1, <2>1, <2>2
<1> QED BY <1>1, <1>4, <1>5, <1>6, <1>7, <1>8 DEF BtInv, Put, Returned

LEMMA SearchPuts ==
  ASSUME BtInv, Search
  PROVE  BtInv'
<1>1. /\ phase = "scan"
      /\ UNCHANGED <<builder, building, data, plan, nodes, file, kind>>
  BY DEF Search, NextWord, Found
<1>2. Taken /\ SetUp /\ Scanning /\ kind # "Empty"
  BY <1>1 DEF BtInv, MakeInv, Readable
<1>3. phase' \in {"scan", "done"} /\ Scanning' /\ Returned'
  <2>1. CASE NextWord
    <3>1. phase' = "scan" /\ Scanning'
      BY <1>2, <2>1, WordScans
    <3> QED BY <3>1 DEF Returned
  <2>2. CASE Found
    <3>1. phase' = "done" /\ Returned'
      BY <1>2, <2>2, FoundIs
    <3> QED BY <3>1 DEF Scanning
  <2> QED BY <2>1, <2>2 DEF Search
<1>4. MakeInv'
  BY <1>1, <1>3, RestMakes DEF BtInv
<1>5. NodesInv'
  BY <1>1, NodesStay DEF BtInv
<1>6. Readable'
  <2>1. Taken'
    BY <1>1, <1>2, TakenStays
  <2> QED BY <1>1, <1>2, <2>1 DEF Readable
<1> QED BY <1>3, <1>4, <1>5, <1>6 DEF BtInv, Put, Panics

LEMMA TooLongPuts ==
  ASSUME BtInv, KeyTooLong
  PROVE  BtInv'
<1>1. /\ phase = "add" /\ Len(offsets) < count /\ phase' = "failed"
      /\ UNCHANGED <<plan, builder, building, nodes>>
  BY DEF KeyTooLong
<1>2. MakeInv'
  BY <1>1, RestMakes DEF BtInv
<1>3. NodesInv'
  BY <1>1, NodesStay DEF BtInv
<1> QED BY <1>1, <1>2, <1>3 DEF BtInv, Put, Readable, Scanning, Returned, Panics

LEMMA StutterPuts ==
  ASSUME BtInv, UNCHANGED btVars
  PROVE  BtInv'
<1>1. /\ count' = count /\ maxOffset' = maxOffset /\ offsets' = offsets /\ data' = data
      /\ phase' = phase /\ at' = at /\ c' = c /\ lastSuperQ' = lastSuperQ /\ i' = i
      /\ lower' = lower /\ currWord' = currWord /\ window' = window /\ d' = d
      /\ result' = result /\ plan' = plan /\ nodes' = nodes /\ file' = file /\ kind' = kind
      /\ UNCHANGED <<builder, data, plan, nodes, file, kind>>
  BY DEF btVars, vars, builder, building, getting
<1>2. SetUp' /\ Made' /\ Adding' /\ Entries'
  <2>1. SetUp'
    BY <1>1, SameSizes DEF BtInv, MakeInv, SetUp
  <2>2. Made'
    BY <1>1, SameSizes DEF BtInv, MakeInv, Made
  <2>3. Adding'
    BY <1>1, SameSizes DEF BtInv, MakeInv, Adding
  <2>4. Entries'
    BY <1>1, SameSizes DEF BtInv, MakeInv, Entries
  <2> QED BY <2>1, <2>2, <2>3, <2>4
<1>3. Counting'
  <2> SUFFICES ASSUME phase = "build" PROVE Counting'
    BY <1>1 DEF Counting
  <2>1. /\ at \in 0 .. WordBits * WordsUpper /\ c \in 0 .. count
        /\ \A n \in 0 .. c - 1 : Pos(offsets, n) < at
        /\ \A n \in c .. count - 1 : Pos(offsets, n) >= at
        /\ c % SuperQ # 0 => lastSuperQ = Pos(offsets, BlockStart(c))
        /\ JumpsRight(offsets, data, c)
    BY DEF BtInv, MakeInv, Counting
  <2>2. (at \in 0 .. WordBits * WordsUpper /\ c \in 0 .. count)'
    BY <1>1, <2>1, SameSizes
  <2>3. (\A n \in 0 .. c - 1 : Pos(offsets, n) < at)'
    BY <1>1, <2>1, SameSizes
  <2>4. (\A n \in c .. count - 1 : Pos(offsets, n) >= at)'
    BY <1>1, <2>1, SameSizes
  <2>5. (c % SuperQ # 0 => lastSuperQ = Pos(offsets, BlockStart(c)))'
    BY <1>1, <2>1, SameSizes DEF BlockStart
  <2>6. JumpsRight(offsets, data, c)'
    BY <1>1, <2>1, SameSizes
  <2> QED BY <2>2, <2>3, <2>4, <2>5, <2>6 DEF Counting
<1>4. NodesInv'
  BY <1>1, NodesStay DEF BtInv
<1>5. Put'
  <2>1. Size' = Size /\ U' = U
    BY <1>1, SameSizes
  <2>2. EfCells' = EfCells
    BY <1>1, <2>1 DEF EfCells
  <2>3. Padded(nodes)' = Padded(nodes)
    BY <1>1 DEF Padded
  <2>4. Fanout' = Fanout
    BY <1>1 DEF Fanout
  <2>5. WholeFile' = WholeFile
    BY <1>1, <2>2, <2>3, <2>4 DEF WholeFile
  <2> QED BY <1>1, <2>5 DEF BtInv, Put
<1>6. Readable'
  BY <1>1, TakenStays DEF BtInv, Readable
<1>7. Scanning'
  <2> SUFFICES ASSUME phase = "scan" PROVE Scanning'
    BY <1>1 DEF Scanning
  <2>1. /\ i \in 0 .. count - 1 /\ d \in 0 .. i /\ currWord \in 0 .. WordsUpper - 1
        /\ \E e : IsWindow(window, offsets, currWord, i - d, e)
        /\ \A k \in 0 .. i - d - 1 : Pos(offsets, k) < WordBits * currWord + WordBits
        /\ lower % Pow2[L] = offsets[i + 1] % Pow2[L]
    BY DEF BtInv, Scanning
  <2>2. (i \in 0 .. count - 1 /\ d \in 0 .. i /\ currWord \in 0 .. WordsUpper - 1)'
    BY <1>1, <2>1, SameSizes
  <2>3. (\E e : IsWindow(window, offsets, currWord, i - d, e))'
    BY <1>1, <2>1, SameSizes
  <2>4. (\A k \in 0 .. i - d - 1 : Pos(offsets, k) < WordBits * currWord + WordBits)'
    BY <1>1, <2>1, SameSizes
  <2>5. (lower % Pow2[L] = offsets[i + 1] % Pow2[L])'
    BY <1>1, <2>1, SameSizes
  <2> QED BY <2>2, <2>3, <2>4, <2>5 DEF Scanning
<1>8. Returned'
  BY <1>1 DEF BtInv, Returned
<1>9. Panics'
  <2>1. Size' = Size
    BY <1>1, SameSizes
  <2> QED BY <1>1, <2>1, FitStays DEF BtInv, Panics
<1> QED BY <1>2, <1>3, <1>4, <1>5, <1>6, <1>7, <1>8, <1>9 DEF BtInv, MakeInv

LEMMA InitPuts ==
  ASSUME BtInit
  PROVE  BtInv
<1>1. MakeInv
  BY MakeInit
<1>2. NodesInv
  <2>1. <<Mark>> \in Seq(Cell) /\ Len(<<Mark>>) = 1 /\ <<Mark>>[1] = Mark
    BY CellsAre
  <2>2. <<>> \in Seq(Cell)
    OBVIOUS
  <2>3. nodes = IF plan.layout = "Footer" THEN <<Mark>> ELSE <<>>
    BY DEF BtInit
  <2>4. CASE plan.layout = "Footer"
    <3>1. nodes = <<Mark>>
      BY <2>3, <2>4
    <3> QED BY <2>1, <3>1 DEF NodesInv
  <2>5. CASE plan.layout # "Footer"
    BY <2>2, <2>3, <2>5 DEF NodesInv
  <2> QED BY <2>4, <2>5
<1>3. phase = "add"
  BY DEF BtInit, NewBuilder
<1> QED BY <1>1, <1>2, <1>3 DEF BtInv, Put, Readable, Scanning, Returned, Panics

\* The invariant: the words say what the offsets are, from the first offset added to the
\* last word read.
THEOREM BtInvHolds == BtSpec => []BtInv
<1>1. BtInit => BtInv
  BY InitPuts
<1>2. BtInv /\ [BtNext]_btVars => BtInv'
  <2> SUFFICES ASSUME BtInv, [BtNext]_btVars PROVE BtInv'
    OBVIOUS
  <2>1. ASSUME NEW offset \in Last .. maxOffset, AddKey(offset) PROVE BtInv'
    BY <2>1, AddPuts
  <2>2. CASE KeyTooLong
    BY <2>2, TooLongPuts
  <2>3. CASE Build
    BY <2>3, BuildPuts
  <2>4. CASE WriteBt
    BY <2>4, WritePuts
  <2>5. CASE OpenBt
    BY <2>5, OpenPuts
  <2>6. ASSUME NEW n \in 0 .. KeyCount - 1, KeyOffset(n) PROVE BtInv'
    BY <2>6, GetPuts
  <2>7. CASE Search
    BY <2>7, SearchPuts
  <2>8. CASE UNCHANGED btVars
    BY <2>8, StutterPuts
  <2> QED BY <2>1, <2>2, <2>3, <2>4, <2>5, <2>6, <2>7, <2>8 DEF BtNext
<1> QED BY <1>1, <1>2, PTL DEF BtSpec

\* get(i) gives the i-th offset, however wide a word is and however far apart the jumps
\* are (EliasFano::get_impl against EfBuilder).
THEOREM GetIsOffsetHolds == BtSpec => []GetIsOffset
<1>1. BtInv => GetIsOffset
  BY DEF BtInv, Returned, GetIsOffset
<1> QED BY <1>1, BtInvHolds, PTL

\* A file that opens is all that was to be written, or all but the end of a legacy file's
\* table of jumps (BtreeIndex::open).
THEOREM OpenedIsWholeHolds == BtSpec => []OpenedIsWhole
<1>1. BtInv => OpenedIsWhole
  <2> SUFFICES ASSUME BtInv, phase \in {"open", "scan", "done"}, kind # "Empty"
               PROVE  \/ Len(file) = IF kind = "Legacy" THEN 2 + Size
                                     ELSE Len(Padded(nodes)) + Size + 7
                      \/ plan.layout = "Legacy" /\ kind = "Legacy"
                         /\ Len(file) >= 2 + JumpBase
    BY DEF OpenedIsWhole
  <2>1. Taken
    BY DEF BtInv, Readable
  <2>2. kind = plan.layout /\ plan.layout \in {"Legacy", "Footer"}
    BY <2>1, PlansFit DEF Taken, BtInv, MakeInv
  <2>3. CASE kind = "Legacy"
    BY <2>1, <2>2, <2>3 DEF Taken
  <2>4. CASE kind = "Footer"
    BY <2>1, <2>2, <2>4 DEF Taken, Lead
  <2> QED BY <2>2, <2>3, <2>4
<1> QED BY <1>1, BtInvHolds, PTL

\* Where no jump is too long for half a word, only a table of jumps that was cut off makes
\* a run panic (EfBuilder::build, EliasFano::get_impl).
THEOREM OnlyCutJumpsPanicHolds == BtSpec => [](JumpsFit => OnlyCutJumpsPanic)
<1>1. BtInv => (JumpsFit => OnlyCutJumpsPanic)
  BY DEF BtInv, Panics, OnlyCutJumpsPanic
<1> QED BY <1>1, BtInvHolds, PTL

\* Jumps are short for any bound where there are not very many offsets.
THEOREM FewKeysFit ==
  ASSUME Sized, 2 * count + SuperQ <= Half
  PROVE  JumpsFit
<1>1. count \in Nat /\ maxOffset \in Nat /\ U = maxOffset + 1
  BY DEF Sized, U
<1>2. PICK m \in Nat \ {0}, q \in Nat : m = Pow2[L] /\ q = U \div m /\ q < 2 * count
  BY LowIs
<1>3. maxOffset \div m <= q /\ maxOffset \div m \in Nat
  <2>1. U \in Nat /\ maxOffset <= U
    BY <1>1
  <2> QED BY <1>1, <1>2, <2>1, DivMono
<1>4. PICK r \in Nat, s \in Nat, h \in Nat : r = maxOffset \div m /\ s = SuperQ /\ h = Half
  BY <1>3, PairsAre
<1> QED BY <1>1, <1>2, <1>3, <1>4 DEF JumpsFit

(***************************************************************************)
(* The nodes.                                                              *)
(***************************************************************************)
LEMMA CeilIs ==
  ASSUME NEW n \in Nat, NEW m \in Nat \ {0}
  PROVE  DivCeil(n, m) \in Nat /\ \A j \in Nat : j < DivCeil(n, m) <=> m * j < n
<1>1. PICK b \in Nat : b = n + m - 1
  OBVIOUS
<1>2. PICK q \in Nat, r \in 0 .. m - 1 : b = m * q + r /\ q = b \div m
  BY Euclid
<1>3. DivCeil(n, m) = q
  BY <1>1, <1>2 DEF DivCeil
<1>4. PICK p \in Nat : p = m * q
  OBVIOUS
<1>5. ASSUME NEW j \in Nat PROVE j < q <=> m * j < n
  <2>1. PICK u \in Nat : u = m * j
    OBVIOUS
  <2>2. \A x, y \in Nat : x < y => m * x + m <= m * y
    OBVIOUS
  <2>3. j < q => u + m <= p
    BY <1>4, <2>1, <2>2
  <2>4. q < j => p + m <= u
    BY <1>4, <2>1, <2>2
  <2>5. q = j => p = u
    BY <1>4, <2>1
  <2> QED BY <1>1, <1>2, <1>4, <2>1, <2>3, <2>4, <2>5
<1> QED BY <1>3, <1>5

LEMMA CeilNext ==
  ASSUME NEW n \in Nat, NEW m \in Nat \ {0}
  PROVE  /\ n % m # 0 => DivCeil(n + 1, m) = DivCeil(n, m)
         /\ n % m = 0 => /\ DivCeil(n + 1, m) = DivCeil(n, m) + 1
                         /\ n = DivCeil(n, m) * m
<1>1. PICK s \in Nat, t \in Nat : /\ s = DivCeil(n, m) /\ t = DivCeil(n + 1, m)
                                  /\ \A j \in Nat : j < s <=> m * j < n
                                  /\ \A j \in Nat : j < t <=> m * j < n + 1
  <2>1. n + 1 \in Nat
    OBVIOUS
  <2> QED BY <2>1, CeilIs
<1>2. PICK q \in Nat, r \in 0 .. m - 1 : n = m * q + r /\ q = n \div m /\ r = n % m
  BY Euclid
<1>3. \A x, y \in Nat : m * x \in Nat /\ (x < y => m * x + m <= m * y)
  OBVIOUS
<1>4. ASSUME r # 0 PROVE t = s
  <2>1. ASSUME NEW j \in Nat PROVE m * j # n
    <3> SUFFICES ASSUME m * j = n PROVE FALSE
      OBVIOUS
    <3>1. n = m * j + 0 /\ 0 < m
      OBVIOUS
    <3>2. n % m = 0
      BY <3>1, EuclidUnique
    <3> QED BY <1>2, <1>4, <3>2
  <2>2. ASSUME NEW j \in Nat PROVE m * j < n <=> m * j < n + 1
    <3>1. PICK u \in Nat : u = m * j
      OBVIOUS
    <3>2. u # n
      BY <2>1, <3>1
    <3>3. u < n <=> u < n + 1
      BY <3>2
    <3> QED BY <3>1, <3>3
  <2>3. \A j \in Nat : j < s <=> j < t
    BY <1>1, <2>2
  <2>4. ~ (s < t) /\ ~ (t < s)
    BY <2>3
  <2> QED BY <2>4
<1>5. ASSUME r = 0 PROVE t = s + 1 /\ s = q
  <2>1. n = m * q
    <3>1. PICK p \in Nat : p = m * q
      OBVIOUS
    <3>2. n = p + r
      BY <1>2, <3>1
    <3>3. n = p
      BY <1>5, <3>2
    <3> QED BY <3>1, <3>3
  <2>2. ~ (q < s) /\ q < t
    BY <1>1, <2>1
  <2>3. ~ (q + 1 < t)
    <3>1. m * q + m <= m * (q + 1) /\ m * (q + 1) \in Nat
      BY <1>3
    <3>2. ~ (m * (q + 1) < n + 1)
      BY <2>1, <3>1
    <3> QED BY <1>1, <3>2
  <2>4. ~ (s < q)
    <3> SUFFICES ASSUME s < q PROVE FALSE
      OBVIOUS
    <3>1. m * s + m <= m * q /\ m * s \in Nat
      BY <1>3
    <3>2. m * s < n
      BY <2>1, <3>1
    <3> QED BY <1>1, <3>2
  <2> QED BY <2>2, <2>3, <2>4
<1>6. m * q = q * m
  OBVIOUS
<1> QED BY <1>1, <1>2, <1>4, <1>5, <1>6

\* Where in the arena each of the first t keys ends.
IsTable(ar, t) ==
  /\ ar \in [0 .. t -> Nat] /\ ar[0] = 0
  /\ \A j \in 0 .. t - 1 :
       plan.lens[j * Fanout] \in Nat /\ ar[j + 1] = ar[j] + plan.lens[j * Fanout]

\* These cells hold the first t keys.
Holds(cells, ar, t) ==
  \A j \in 0 .. t - 1 :
    /\ j + ar[j + 1] + 2 <= Len(cells)
    /\ cells[j + ar[j] + 2] = Num(plan.lens[j * Fanout])
    /\ \A p \in 1 .. plan.lens[j * Fanout] :
         cells[j + ar[j] + 2 + p] = KeyCells(j * Fanout)[p]

Keyed(cells, t) ==
  \E ar : IsTable(ar, t) /\ Len(cells) = t + ar[t] + 1 /\ Holds(cells, ar, t)

KeysInv == plan.layout = "Footer" => Keyed(nodes, DivCeil(Len(offsets), Fanout))

LEMMA FanoutIs ==
  ASSUME SetUp
  PROVE  Fanout \in Nat \ {0}
BY PlansFit DEF Fanout

LEMMA SamePlan ==
  ASSUME plan' = plan
  PROVE  /\ Fanout' = Fanout
         /\ \A cells, t : Keyed(cells, t)' <=> Keyed(cells, t)
<1>1. Fanout' = Fanout
  BY DEF Fanout
<1>2. \A k : KeyCells(k)' = KeyCells(k)
  BY DEF KeyCells
<1>3. \A ar, t : IsTable(ar, t)' <=> IsTable(ar, t)
  BY <1>1 DEF IsTable
<1>4. \A cells, ar, t : Holds(cells, ar, t)' <=> Holds(cells, ar, t)
  BY <1>1, <1>2 DEF Holds
<1> QED BY <1>1, <1>3, <1>4 DEF Keyed

Byte(n) == <<"byte", n>>

LEMMA KeyIs ==
  ASSUME NEW k \in Nat, NEW l \in Nat, l = plan.lens[k]
  PROVE  KeyCells(k) \in Seq(Cell) /\ Len(KeyCells(k)) = l
<1>1. PICK b \in Nat : b = k * 10
  OBVIOUS
<1>2. PICK key : key = [p \in 1 .. l |-> Byte(b + p)]
  OBVIOUS
<1>3. \A p \in 1 .. l : Byte(b + p) \in Cell
  BY DEF Cell, Byte
<1>4. key \in Seq(Cell) /\ Len(key) = l
  BY <1>2, <1>3
<1>5. KeyCells(k) = key
  BY <1>1, <1>2 DEF KeyCells, Byte
<1> QED BY <1>4, <1>5

\* A key is written behind those that are there.
LEMMA KeyFollows ==
  ASSUME NEW t \in Nat, NEW cells, cells \in Seq(Cell), Keyed(cells, t),
         plan.lens[t * Fanout] \in Nat, t * Fanout \in Nat
  PROVE  Keyed(cells \o <<Num(plan.lens[t * Fanout])>> \o KeyCells(t * Fanout), t + 1)
<1>1. PICK ar : IsTable(ar, t) /\ Len(cells) = t + ar[t] + 1 /\ Holds(cells, ar, t)
  BY DEF Keyed
<1>2. PICK k \in Nat, l \in Nat : k = t * Fanout /\ l = plan.lens[k]
  OBVIOUS
<1>3. PICK key : key = KeyCells(k)
  OBVIOUS
<1>4. key \in Seq(Cell) /\ Len(key) = l
  BY <1>2, <1>3, KeyIs
<1>5. PICK h : h = <<Num(l)>>
  OBVIOUS
<1>6. h \in Seq(Cell) /\ Len(h) = 1 /\ h[1] = Num(l)
  BY <1>5, CellsAre
<1>7. PICK s : s = cells \o h
  OBVIOUS
<1>8. PICK n \in Nat : n = Len(cells)
  OBVIOUS
<1>9. /\ s \in Seq(Cell) /\ Len(s) = n + 1 /\ s[n + 1] = Num(l)
      /\ \A p \in 1 .. n : s[p] = cells[p]
  <2>1. /\ cells \o h \in Seq(Cell) /\ Len(cells \o h) = Len(cells) + Len(h)
        /\ \A p \in 1 .. Len(cells) : (cells \o h)[p] = cells[p]
        /\ \A p \in 1 .. Len(h) : (cells \o h)[Len(cells) + p] = h[p]
    <3>1. cells \in Seq(Cell) /\ h \in Seq(Cell)
      BY <1>6
    <3> QED BY <3>1
  <2>2. 1 \in 1 .. 1
    OBVIOUS
  <2> QED BY <1>6, <1>7, <1>8, <2>1, <2>2
<1>10. PICK new : new = s \o key
  OBVIOUS
<1>11. /\ Len(new) = n + 1 + l
       /\ \A p \in 1 .. n : new[p] = cells[p]
       /\ new[n + 1] = Num(l)
       /\ \A p \in 1 .. l : new[n + 1 + p] = key[p]
  <2>1. /\ Len(s \o key) = Len(s) + Len(key)
        /\ \A p \in 1 .. Len(s) : (s \o key)[p] = s[p]
        /\ \A p \in 1 .. Len(key) : (s \o key)[Len(s) + p] = key[p]
    <3>1. s \in Seq(Cell) /\ key \in Seq(Cell)
      BY <1>4, <1>9
    <3> QED BY <3>1
  <2>2. \A p \in 1 .. n : p \in 1 .. n + 1
    OBVIOUS
  <2>3. n + 1 \in 1 .. n + 1
    OBVIOUS
  <2> QED BY <1>4, <1>9, <1>10, <2>1, <2>2, <2>3
<1>12. /\ ar \in [0 .. t -> Nat] /\ ar[0] = 0
       /\ \A j \in 0 .. t - 1 :
            plan.lens[j * Fanout] \in Nat /\ ar[j + 1] = ar[j] + plan.lens[j * Fanout]
  BY <1>1 DEF IsTable
<1>13. PICK a \in Nat : a = ar[t] /\ n = t + a + 1
  BY <1>1, <1>8, <1>12
<1>14. PICK br : br = [j \in 0 .. t + 1 |-> IF j = t + 1 THEN a + l ELSE ar[j]]
  OBVIOUS
<1>15. /\ br \in [0 .. t + 1 -> Nat] /\ br[t + 1] = a + l
       /\ \A j \in 0 .. t : br[j] = ar[j]
  BY <1>12, <1>14
<1>16. IsTable(br, t + 1)
  <2>1. ASSUME NEW j \in 0 .. t
        PROVE  plan.lens[j * Fanout] \in Nat /\ br[j + 1] = br[j] + plan.lens[j * Fanout]
    <3>1. CASE j = t
      BY <1>2, <1>13, <1>15, <3>1
    <3>2. CASE j # t
      <4>1. j \in 0 .. t - 1 /\ j + 1 \in 0 .. t
        BY <3>2
      <4> QED BY <1>12, <1>15, <4>1
    <3> QED BY <3>1, <3>2
  <2>2. br[0] = 0
    BY <1>12, <1>15
  <2>3. (t + 1) - 1 = t
    OBVIOUS
  <2> QED BY <1>15, <2>1, <2>2, <2>3 DEF IsTable
<1>17. Holds(new, br, t + 1)
  <2>1. ASSUME NEW j \in 0 .. t
        PROVE  /\ j + br[j + 1] + 2 <= Len(new)
               /\ new[j + br[j] + 2] = Num(plan.lens[j * Fanout])
               /\ \A p \in 1 .. plan.lens[j * Fanout] :
                    new[j + br[j] + 2 + p] = KeyCells(j * Fanout)[p]
    <3>1. CASE j = t
      <4>1. j * Fanout = k /\ plan.lens[j * Fanout] = l /\ KeyCells(j * Fanout) = key
        BY <1>2, <1>3, <3>1
      <4>2. br[j] = a /\ br[j + 1] = a + l /\ j + br[j] + 2 = n + 1
        BY <1>13, <1>15, <3>1
      <4>3. j + br[j + 1] + 2 <= Len(new)
        <5>1. Len(new) = t + a + 1 + 1 + l
          BY <1>11, <1>13
        <5>2. j + br[j + 1] + 2 = t + (a + l) + 2
          BY <3>1, <4>2
        <5> QED BY <5>1, <5>2
      <4> QED BY <1>11, <4>1, <4>2, <4>3
    <3>2. CASE j # t
      <4>1. j \in 0 .. t - 1 /\ j + 1 \in 0 .. t /\ j \in 0 .. t
        BY <3>2
      <4>2. PICK b \in Nat, e \in Nat, u \in Nat :
              b = ar[j] /\ e = ar[j + 1] /\ u = plan.lens[j * Fanout] /\ e = b + u
        BY <1>12, <4>1
      <4>3. /\ j + e + 2 <= n
            /\ cells[j + b + 2] = Num(u)
            /\ \A p \in 1 .. u : cells[j + b + 2 + p] = KeyCells(j * Fanout)[p]
        BY <1>1, <1>8, <4>1, <4>2 DEF Holds
      <4>4. br[j] = b /\ br[j + 1] = e
        BY <1>15, <4>1, <4>2
      <4>5. j + b + 2 \in 1 .. n /\ \A p \in 1 .. u : j + b + 2 + p \in 1 .. n
        <5>1. j + b + u + 2 <= n
          BY <4>2, <4>3
        <5> QED BY <5>1
      <4>6. j + e + 2 <= Len(new)
        BY <1>11, <4>3
      <4> QED BY <1>11, <4>2, <4>3, <4>4, <4>5, <4>6
    <3> QED BY <3>1, <3>2
  <2>2. (t + 1) - 1 = t
    OBVIOUS
  <2> QED BY <2>1, <2>2 DEF Holds
<1>18. Len(new) = (t + 1) + br[t + 1] + 1
  <2>1. Len(new) = t + a + 1 + 1 + l
    BY <1>11, <1>13
  <2>2. br[t + 1] = a + l
    BY <1>15
  <2>3. (t + 1) + (a + l) + 1 = t + a + 1 + 1 + l
    OBVIOUS
  <2> QED BY <2>1, <2>2, <2>3
<1>19. Keyed(new, t + 1)
  BY <1>16, <1>17, <1>18 DEF Keyed
<1> QED BY <1>2, <1>3, <1>5, <1>7, <1>10, <1>19

LEMMA KeysInit ==
  ASSUME BtInit
  PROVE  KeysInv
<1> SUFFICES ASSUME plan.layout = "Footer" PROVE Keyed(nodes, DivCeil(Len(offsets), Fanout))
  BY DEF KeysInv
<1>1. nodes = <<Mark>> /\ offsets = <<>> /\ plan \in Plans
  BY DEF BtInit, NewBuilder
<1>2. PICK m \in Nat \ {0} : m = Fanout
  BY <1>1, PlansAssumption DEF Fanout
<1>3. DivCeil(Len(offsets), Fanout) = 0
  <2>1. (0 + m - 1) \div m = 0
    <3>1. m - 1 = m * 0 + (m - 1) /\ m - 1 \in Nat /\ m - 1 < m
      OBVIOUS
    <3>2. (m - 1) \div m = 0
      BY <3>1, EuclidUnique
    <3> QED BY <3>2
  <2>2. Len(offsets) = 0
    BY <1>1
  <2> QED BY <1>2, <2>1, <2>2 DEF DivCeil
<1>4. PICK ar : ar = [j \in 0 .. 0 |-> 0]
  OBVIOUS
<1>5. IsTable(ar, 0)
  BY <1>4 DEF IsTable
<1>6. Holds(nodes, ar, 0)
  BY DEF Holds
<1>7. Len(nodes) = 0 + ar[0] + 1
  BY <1>1, <1>4
<1> QED BY <1>3, <1>5, <1>6, <1>7 DEF Keyed

LEMMA KeysStay ==
  ASSUME KeysInv, plan' = plan, nodes' = nodes, offsets' = offsets
  PROVE  KeysInv'
BY SamePlan DEF KeysInv, DivCeil

LEMMA KeyAdded ==
  ASSUME BtInv, KeysInv, NEW offset, AddKey(offset)
  PROVE  KeysInv'
<1> SUFFICES ASSUME plan.layout = "Footer" PROVE KeysInv'
  BY DEF KeysInv, AddKey
<1>1. /\ plan' = plan /\ offsets' = Append(offsets, offset) /\ Len(offsets) < count
      /\ Keyed(nodes, DivCeil(Len(offsets), Fanout))
  BY DEF AddKey, AddOffset, KeysInv
<1>2. PICK m \in Nat \ {0} : m = Fanout
  BY FanoutIs DEF BtInv, MakeInv
<1>3. PICK n : n = Len(offsets)
  OBVIOUS
<1>4. n \in 0 .. count - 1 /\ n \in Nat /\ Len(offsets') = n + 1
  <2>1. offsets \in Seq(0 .. maxOffset) /\ count \in Nat
    BY PlansFit DEF BtInv, MakeInv, SetUp, Sorted
  <2> QED BY <1>1, <1>3, <2>1
<1>5. PICK t \in Nat : /\ t = DivCeil(n, m)
                       /\ n % m # 0 => DivCeil(n + 1, m) = t
                       /\ n % m = 0 => DivCeil(n + 1, m) = t + 1 /\ n = t * m
  BY <1>4, CeilIs, CeilNext
<1>6. CASE n % m = 0
  <2>1. nodes' = nodes \o <<Num(plan.lens[n])>> \o KeyCells(n)
    BY <1>2, <1>3, <1>6 DEF AddKey, TakesKey
  <2>2. n = t * Fanout
    BY <1>2, <1>5, <1>6
  <2>3. plan.lens[n] \in Nat
    BY <1>4, PlansFit DEF BtInv, MakeInv
  <2>4. Keyed(nodes, t)
    BY <1>1, <1>2, <1>3, <1>5
  <2>5. nodes \in Seq(Cell)
    BY DEF BtInv, NodesInv
  <2>6. Keyed(nodes', t + 1)
    BY <1>4, <2>1, <2>2, <2>3, <2>4, <2>5, KeyFollows
  <2>7. DivCeil(Len(offsets), Fanout)' = t + 1
    BY <1>1, <1>2, <1>4, <1>5, <1>6, SamePlan DEF DivCeil
  <2> QED BY <1>1, <2>6, <2>7, SamePlan DEF KeysInv
<1>7. CASE n % m # 0
  <2>1. nodes' = nodes
    BY <1>2, <1>3, <1>7 DEF AddKey, TakesKey
  <2>2. DivCeil(Len(offsets), Fanout)' = t
    BY <1>1, <1>2, <1>4, <1>5, <1>7, SamePlan DEF DivCeil
  <2>3. Keyed(nodes, t)
    BY <1>1, <1>2, <1>3, <1>5
  <2> QED BY <1>1, <2>1, <2>2, <2>3, SamePlan DEF KeysInv
<1> QED BY <1>6, <1>7

FileCell == Cell \cup {Magic}

\* The reader has the whole file, and reads its footer.
FooterIs ==
  /\ plan.layout = "Footer" /\ Len(offsets) = count /\ count > 0
  /\ nodes \in Seq(Cell) /\ Lead \in Nat /\ Size \in Nat
  /\ file \in Seq(FileCell) /\ Len(file) = Lead + Size + 7
  /\ \A p \in 1 .. Lead : file[p] = Padded(nodes)[p]
  /\ file[Lead + Size + 3] = Num(count) /\ file[Lead + Size + 4] = Num(Fanout)
  /\ file[Lead + Size + 5] = Num(Lead)

FooterInv ==
  kind = "Footer" => phase \in {"open", "scan", "done", "panic"} /\ FooterIs

LEMMA FooterOpens ==
  ASSUME MakeInv, NodesInv, Put, OpenBt, kind # "Footer", kind' = "Footer"
  PROVE  FooterIs
<1>1. phase = "written" /\ Len(file) >= 2 /\ file[Len(file)] = Magic
  BY DEF OpenBt, HasMagic
<1>2. file # <<>>
  <2> SUFFICES ASSUME file = <<>> PROVE FALSE
    OBVIOUS
  <2> QED BY <1>1
<1>3. /\ count > 0 /\ IsRow(data) /\ Len(file) \in Nat /\ Len(file) > 0
      /\ \E f : /\ Laid(f) /\ Len(file) <= Len(f)
                /\ \A p \in 1 .. Len(file) : file[p] = f[p]
  BY <1>1, <1>2, PutIs DEF MakeInv
<1>4. PICK f : /\ Laid(f) /\ Len(file) <= Len(f)
               /\ \A p \in 1 .. Len(file) : file[p] = f[p]
  BY <1>3
<1>5. Sized /\ SetUp
  BY <1>3, PlansFit DEF MakeInv
<1>6. PICK b \in Nat, z \in Nat, n \in Nat : b = Lead /\ z = Size /\ n = Len(file)
  <2>1. 0 \in 0 .. count - 1
    BY <1>5 DEF Sized
  <2> QED BY <1>3, <1>4, <1>5, <2>1, PlaceFits DEF Laid
<1>7. plan.layout = "Footer" /\ n = Len(f) /\ n = b + z + 7
  <2>1. n \in 1 .. Len(file) /\ file[n] = Magic
    BY <1>1, <1>3, <1>6
  <2>2. f[n] = Magic
    BY <1>4, <2>1
  <2>3. n \in 1 .. Len(f)
    BY <1>4, <1>6, <2>1 DEF Laid
  <2>4. plan.layout = "Footer" /\ n = Len(f)
    BY <1>4, <2>2, <2>3 DEF Laid
  <2> QED BY <1>4, <1>6, <2>4 DEF Laid
<1>8. \A p \in 1 .. b : file[p] = Padded(nodes)[p]
  <2>1. \A p \in 1 .. b : p \in 1 .. Len(file)
    BY <1>6, <1>7
  <2>2. \A p \in 1 .. b : f[p] = Padded(nodes)[p]
    BY <1>4, <1>6, <1>7 DEF Laid
  <2> QED BY <1>4, <2>1, <2>2
<1>9. /\ file[b + z + 3] = Num(count) /\ file[b + z + 4] = Num(Fanout)
      /\ file[b + z + 5] = Num(b)
  <2>1. {b + z + 3, b + z + 4, b + z + 5} \subseteq 1 .. Len(file)
    BY <1>6, <1>7
  <2>2. /\ f[b + z + 3] = Num(count) /\ f[b + z + 4] = Num(Fanout)
        /\ f[b + z + 5] = Num(b)
    BY <1>4, <1>6, <1>7 DEF Laid
  <2> QED BY <1>4, <2>1, <2>2
<1>10. file \in Seq(FileCell)
  <2>1. PICK g : g = WholeFile
    OBVIOUS
  <2>2. PICK k \in 0 .. Len(g) : file = SubSeq(g, 1, k)
    BY <1>1, <2>1 DEF Put
  <2>3. g \in Seq(FileCell)
    BY <1>3, <1>5, <2>1, WholeFileIs DEF Laid, FileCell
  <2> QED BY <2>2, <2>3
<1>11. Len(offsets) = count
  BY <1>1 DEF MakeInv, SetUp
<1>12. nodes \in Seq(Cell)
  BY DEF NodesInv
<1> QED BY <1>3, <1>5, <1>6, <1>7, <1>8, <1>9, <1>10, <1>11, <1>12 DEF FooterIs

LEMMA FooterStays ==
  ASSUME FooterInv, UNCHANGED <<builder, plan, nodes, file, kind>>,
         phase = phase' \/ phase' \in {"open", "scan", "done", "panic"}
  PROVE  FooterInv'
<1>1. /\ count' = count /\ maxOffset' = maxOffset /\ offsets' = offsets
      /\ plan' = plan /\ nodes' = nodes /\ file' = file /\ kind' = kind
  BY DEF builder
<1>2. Lead' = Lead /\ Padded(nodes)' = Padded(nodes) /\ Fanout' = Fanout /\ Size' = Size
  BY <1>1, SameSizes DEF Lead, Padded, Fanout
<1>3. FooterIs => FooterIs'
  BY <1>1, <1>2 DEF FooterIs
<1> QED BY <1>1, <1>3 DEF FooterInv

LEMMA OpenFooter ==
  ASSUME BtInv, FooterInv, OpenBt
  PROVE  FooterInv'
<1>1. /\ phase = "written" /\ UNCHANGED <<builder, plan, nodes, file>>
  BY DEF OpenBt
<1>2. kind # "Footer"
  BY <1>1 DEF FooterInv
<1> SUFFICES ASSUME kind' = "Footer" PROVE FooterInv'
  BY DEF FooterInv
<1>3. FooterIs
  BY <1>2, FooterOpens DEF BtInv
<1>4. phase' = "open"
  BY <1>2 DEF OpenBt
<1>5. /\ count' = count /\ maxOffset' = maxOffset /\ offsets' = offsets
      /\ plan' = plan /\ nodes' = nodes /\ file' = file
  BY <1>1 DEF builder
<1>6. Lead' = Lead /\ Padded(nodes)' = Padded(nodes) /\ Fanout' = Fanout /\ Size' = Size
  BY <1>5, SameSizes DEF Lead, Padded, Fanout
<1>7. FooterIs'
  BY <1>3, <1>5, <1>6 DEF FooterIs
<1> QED BY <1>4, <1>7 DEF FooterInv

NodeInv == BtInv /\ KeysInv /\ FooterInv

LEMMA NodeStep ==
  ASSUME NodeInv, [BtNext]_btVars
  PROVE  KeysInv' /\ FooterInv'
<1>1. BtInv /\ KeysInv /\ FooterInv
  BY DEF NodeInv
<1>2. ASSUME NEW offset \in Last .. maxOffset, AddKey(offset) PROVE KeysInv' /\ FooterInv'
  <2>1. phase = "add" /\ kind' = kind
    BY <1>2 DEF AddKey, AddOffset
  <2> QED BY <1>1, <1>2, <2>1, KeyAdded DEF FooterInv
<1>3. CASE KeyTooLong \/ Build \/ WriteBt
  <2>1. /\ phase \in {"add", "build", "built"} /\ kind' = kind
        /\ plan' = plan /\ nodes' = nodes /\ offsets' = offsets
    BY <1>3 DEF KeyTooLong, Build, StartBuild, BuildStep, Built, WriteBt, builder
  <2> QED BY <1>1, <2>1, KeysStay DEF FooterInv
<1>4. CASE OpenBt
  <2>1. plan' = plan /\ nodes' = nodes /\ offsets' = offsets
    BY <1>4 DEF OpenBt, builder
  <2> QED BY <1>1, <1>4, <2>1, KeysStay, OpenFooter
<1>5. ASSUME NEW n \in 0 .. KeyCount - 1, KeyOffset(n) PROVE KeysInv' /\ FooterInv'
  <2>1. UNCHANGED <<builder, plan, nodes, file, kind>> /\ phase' \in {"scan", "panic"}
    BY <1>5 DEF KeyOffset, Get
  <2>2. plan' = plan /\ nodes' = nodes /\ offsets' = offsets
    BY <2>1 DEF builder
  <2> QED BY <1>1, <2>1, <2>2, KeysStay, FooterStays
<1>6. CASE Search
  <2>1. /\ UNCHANGED <<builder, plan, nodes, file, kind>>
        /\ phase = phase' \/ phase' \in {"panic", "done"}
    BY <1>6 DEF Search, NextWord, Found
  <2>2. plan' = plan /\ nodes' = nodes /\ offsets' = offsets
    BY <2>1 DEF builder
  <2> QED BY <1>1, <2>1, <2>2, KeysStay, FooterStays
<1>7. CASE UNCHANGED btVars
  <2>1. /\ UNCHANGED <<builder, plan, nodes, file, kind>> /\ phase' = phase
        /\ plan' = plan /\ nodes' = nodes /\ offsets' = offsets
    BY <1>7 DEF btVars, vars, builder
  <2> QED BY <1>1, <2>1, KeysStay, FooterStays
<1> QED BY <1>2, <1>3, <1>4, <1>5, <1>6, <1>7 DEF BtNext

\* What the footer says, and where the keys are.
FileHolds(ar, t) ==
  /\ IsTable(ar, t)
  /\ \A j \in 0 .. t - 1 :
       /\ j + ar[j + 1] + 1 < Lead
       /\ file[j + ar[j] + 2] = Num(plan.lens[j * Fanout])
       /\ \A p \in 1 .. plan.lens[j * Fanout] :
            file[j + ar[j] + 2 + p] = KeyCells(j * Fanout)[p]

LEMMA FooterReads ==
  ASSUME SetUp, FooterIs, KeysInv
  PROVE  /\ FooterKeys = count /\ FooterM = Fanout /\ EfOffset = Lead
         /\ NodeCount \in Nat /\ NodeCount = DivCeil(count, Fanout)
         /\ \E ar : FileHolds(ar, NodeCount)
<1>1. PICK b \in Nat, z \in Nat, m \in Nat \ {0}, n \in Nat :
        b = Lead /\ z = Size /\ m = Fanout /\ n = count
  BY FanoutIs, PlansFit DEF FooterIs
<1>2. Len(file) = b + z + 7
  BY <1>1 DEF FooterIs
<1>3. /\ Payload + 1 = b + z + 3 /\ Payload + 2 = b + z + 4 /\ Payload + 3 = b + z + 5
  BY <1>1, <1>2 DEF Payload
<1>4. /\ file[b + z + 3] = Num(n) /\ file[b + z + 4] = Num(m) /\ file[b + z + 5] = Num(b)
  BY <1>1 DEF FooterIs
<1>5. FooterKeys = n /\ FooterM = m /\ EfOffset = b
  BY <1>1, <1>3, <1>4, CellsAre DEF FooterKeys, FooterM, EfOffset
<1>6. PICK t \in Nat : t = DivCeil(n, m) /\ t = NodeCount
  BY <1>1, <1>5, CeilIs DEF NodeCount
<1>7. PICK ar : IsTable(ar, t) /\ Len(nodes) = t + ar[t] + 1 /\ Holds(nodes, ar, t)
  <2>1. Keyed(nodes, t)
    BY <1>1, <1>6 DEF KeysInv, FooterIs
  <2> QED BY <2>1 DEF Keyed
<1>8. PICK h \in Nat : /\ h = Len(nodes) /\ h <= b
                       /\ \A p \in 1 .. h : file[p] = nodes[p]
  <2>1. nodes \in Seq(Cell)
    BY DEF FooterIs
  <2>2. Lead = Len(Padded(nodes))
    BY DEF FooterIs, Lead
  <2>3. /\ Len(nodes) \in Nat /\ Len(nodes) <= b
        /\ \A p \in 1 .. Len(nodes) : Padded(nodes)[p] = nodes[p]
    BY <1>1, <2>1, <2>2, PaddedIs
  <2>4. \A p \in 1 .. Len(nodes) : p \in 1 .. Lead
    BY <1>1, <2>3
  <2> QED BY <2>3, <2>4 DEF FooterIs
<1>9. ASSUME NEW j \in 0 .. t - 1
      PROVE  /\ j + ar[j + 1] + 1 < b
             /\ file[j + ar[j] + 2] = Num(plan.lens[j * Fanout])
             /\ \A p \in 1 .. plan.lens[j * Fanout] :
                  file[j + ar[j] + 2 + p] = KeyCells(j * Fanout)[p]
  <2>1. PICK a \in Nat, e \in Nat, l \in Nat :
          a = ar[j] /\ e = ar[j + 1] /\ l = plan.lens[j * Fanout] /\ e = a + l
    <3>1. j \in 0 .. t /\ j + 1 \in 0 .. t
      BY <1>6
    <3> QED BY <1>7, <3>1 DEF IsTable
  <2>2. /\ j + e + 2 <= h
        /\ nodes[j + a + 2] = Num(l)
        /\ \A p \in 1 .. l : nodes[j + a + 2 + p] = KeyCells(j * Fanout)[p]
    BY <1>7, <1>8, <2>1 DEF Holds
  <2>3. j + a + l + 2 <= h
    BY <2>1, <2>2
  <2>4. j + a + 2 \in 1 .. h /\ \A p \in 1 .. l : j + a + 2 + p \in 1 .. h
    BY <2>3
  <2>5. j + e + 1 < b
    BY <1>8, <2>2
  <2> QED BY <1>8, <2>1, <2>2, <2>4, <2>5
<1>10. FileHolds(ar, NodeCount)
  BY <1>1, <1>6, <1>7, <1>9 DEF FileHolds
<1> QED BY <1>1, <1>5, <1>6, <1>10

(***************************************************************************)
(* parse_nodes.                                                            *)
(***************************************************************************)
NothingParsed ==
  [p |-> 1, arena |-> <<>>, ends |-> <<>>, fixedLen |-> 0, uniform |-> TRUE, ok |-> TRUE]

\* One round of the loop.
ParseStep(s, j) ==
  LET klen == file[s.p + 1][2]
      arena == s.arena \o SubSeq(file, s.p + 2, s.p + 1 + klen)
  IN  IF ~s.ok \/ s.p + 1 + klen > EfOffset THEN [s EXCEPT !.ok = FALSE]
      ELSE [p |-> s.p + 1 + klen,
            arena |-> arena,
            ends |-> Append(s.ends, Len(arena)),
            fixedLen |-> IF j = 1 THEN klen ELSE s.fixedLen,
            uniform |-> s.uniform /\ (j = 1 \/ SameLength(klen, s.fixedLen)),
            ok |-> TRUE]

AreParsed(f, t) == f = [j \in 0 .. t |-> IF j = 0 THEN NothingParsed ELSE ParseStep(f[j - 1], j)]

LEMMA CanParse ==
  ASSUME NEW t \in Nat
  PROVE  \E f : AreParsed(f, t)
<1> DEFINE T == {m \in 0 .. t : \E f : AreParsed(f, m)}
<1>1. 0 \in T
  <2>1. PICK f : f = [j \in 0 .. 0 |-> NothingParsed]
    OBVIOUS
  <2>2. f = [j \in 0 .. 0 |-> IF j = 0 THEN NothingParsed ELSE ParseStep(f[j - 1], j)]
    BY <2>1
  <2>3. AreParsed(f, 0)
    BY <2>2 DEF AreParsed
  <2> QED BY <2>3
<1>2. ASSUME NEW m \in 1 .. t, m - 1 \in T PROVE m \in T
  <2>1. PICK f : AreParsed(f, m - 1)
    BY <1>2
  <2>2. /\ f[0] = NothingParsed
        /\ \A j \in 1 .. m - 1 : f[j] = ParseStep(f[j - 1], j)
    <3>1. f = [j \in 0 .. m - 1 |-> IF j = 0 THEN NothingParsed ELSE ParseStep(f[j - 1], j)]
      BY <2>1 DEF AreParsed
    <3>2. 0 \in 0 .. m - 1 /\ \A j \in 1 .. m - 1 : j \in 0 .. m - 1 /\ j # 0
      OBVIOUS
    <3> QED BY <3>1, <3>2
  <2>3. PICK x : x = ParseStep(f[m - 1], m)
    OBVIOUS
  <2>4. PICK g : g = [j \in 0 .. m |-> IF j = m THEN x ELSE f[j]]
    OBVIOUS
  <2>5. ASSUME NEW j \in 0 .. m
        PROVE  g[j] = IF j = 0 THEN NothingParsed ELSE ParseStep(g[j - 1], j)
    <3>1. CASE j = m
      <4>1. m - 1 \in 0 .. m /\ m - 1 # m /\ m # 0
        OBVIOUS
      <4>2. g[m] = x /\ g[m - 1] = f[m - 1]
        BY <2>4, <4>1
      <4> QED BY <2>3, <3>1, <4>1, <4>2
    <3>2. CASE j = 0
      <4>1. 0 \in 0 .. m /\ 0 # m
        OBVIOUS
      <4> QED BY <2>2, <2>4, <3>2, <4>1
    <3>3. CASE j # 0 /\ j # m
      <4>1. j \in 1 .. m - 1 /\ j - 1 \in 0 .. m /\ j - 1 # m
        BY <3>3
      <4>2. g[j] = f[j] /\ g[j - 1] = f[j - 1]
        BY <2>4, <3>3, <4>1
      <4> QED BY <2>2, <3>3, <4>1, <4>2
    <3> QED BY <3>1, <3>2, <3>3
  <2>6. g = [j \in 0 .. m |-> IF j = 0 THEN NothingParsed ELSE ParseStep(g[j - 1], j)]
    BY <2>4, <2>5
  <2>7. AreParsed(g, m)
    BY <2>6 DEF AreParsed
  <2> QED BY <2>7
<1>3. t \in T
  <2> HIDE DEF T
  <2> QED BY <1>1, <1>2, Upto
<1> QED BY <1>3

LEMMA ParsedIs ==
  ASSUME NodeCount \in Nat
  PROVE  /\ Parsed[0] = NothingParsed
         /\ \A j \in 1 .. NodeCount : Parsed[j] = ParseStep(Parsed[j - 1], j)
<1>1. Parsed = CHOOSE f : AreParsed(f, NodeCount)
  BY DEF Parsed, AreParsed, ParseStep, NothingParsed
<1>2. AreParsed(Parsed, NodeCount)
  BY <1>1, CanParse
<1>3. PICK t \in Nat : t = NodeCount
  OBVIOUS
<1>4. Parsed = [j \in 0 .. t |-> IF j = 0 THEN NothingParsed ELSE ParseStep(Parsed[j - 1], j)]
  BY <1>2, <1>3 DEF AreParsed
<1>5. 0 \in 0 .. t /\ \A j \in 1 .. t : j \in 0 .. t /\ j # 0
  OBVIOUS
<1> QED BY <1>3, <1>4, <1>5

\* What j rounds have read.
ParsedTo(s, j, ar) ==
  /\ s.p = 1 + j + ar[j] /\ s.ok = TRUE
  /\ s.arena \in Seq(FileCell) /\ Len(s.arena) = ar[j]
  /\ \A k \in 0 .. j - 1 :
       /\ ar[k + 1] <= ar[j]
       /\ \A q \in 1 .. plan.lens[k * Fanout] : s.arena[ar[k] + q] = KeyCells(k * Fanout)[q]
  /\ s.ends \in Seq(Nat) /\ Len(s.ends) = j /\ \A k \in 1 .. j : s.ends[k] = ar[k]
  /\ j > 0 => s.fixedLen = plan.lens[0]
  /\ s.uniform => \A k \in 0 .. j - 1 : plan.lens[k * Fanout] = plan.lens[0]

LEMMA CutIs ==
  ASSUME NEW S, NEW s \in Seq(S), NEW b \in Nat, NEW l \in Nat, b + l <= Len(s)
  PROVE  /\ SubSeq(s, b + 1, b + l) \in Seq(S) /\ Len(SubSeq(s, b + 1, b + l)) = l
         /\ \A q \in 1 .. l : SubSeq(s, b + 1, b + l)[q] = s[b + q]
<1>1. PICK e \in Nat, f \in Nat : e = b + l /\ f = b + 1 /\ e <= Len(s) /\ e - f + 1 = l
  OBVIOUS
<1>2. PICK n \in Nat : n = Len(s) /\ e <= n
  BY <1>1
<1>3. \A q \in f .. e : q \in 1 .. n /\ s[q] \in S
  BY <1>1, <1>2
<1>4. /\ SubSeq(s, f, e) \in Seq(S) /\ Len(SubSeq(s, f, e)) = l
      /\ \A q \in 1 .. l : SubSeq(s, f, e)[q] = s[f + q - 1]
  BY <1>1, <1>2, <1>3
<1>5. \A q \in 1 .. l : f + q - 1 = b + q
  BY <1>1
<1> QED BY <1>1, <1>4, <1>5

LEMMA StepParsed ==
  ASSUME NEW t \in Nat, NEW ar, FileHolds(ar, t), NEW j \in 1 .. t, NEW s,
         ParsedTo(s, j - 1, ar), file \in Seq(FileCell), Lead \in Nat,
         Lead <= Len(file), EfOffset = Lead, Fanout \in Nat
  PROVE  ParsedTo(ParseStep(s, j), j, ar)
<1>1. PICK k \in 0 .. t - 1, lead \in Nat :
        k = j - 1 /\ j = k + 1 /\ lead = Lead /\ k \in Nat /\ k \in 0 .. t /\ j \in 0 .. t
  OBVIOUS
<1>1a. PICK o : o = k * Fanout
  OBVIOUS
<1>2. PICK a \in Nat, e \in Nat, l \in Nat :
        a = ar[k] /\ e = ar[j] /\ l = plan.lens[o] /\ e = a + l
  <2>1. ar[k] \in Nat /\ ar[j] \in Nat
    BY <1>1 DEF FileHolds, IsTable
  <2>2. plan.lens[k * Fanout] \in Nat /\ ar[k + 1] = ar[k] + plan.lens[k * Fanout]
    BY <1>1 DEF FileHolds, IsTable
  <2>3. plan.lens[o] \in Nat /\ ar[j] = ar[k] + plan.lens[o]
    BY <1>1, <1>1a, <2>2
  <2> QED BY <2>1, <2>3
<1>3. /\ k + e + 1 < lead /\ file[k + a + 2] = Num(l)
      /\ \A p \in 1 .. l : file[k + a + 2 + p] = KeyCells(o)[p]
  <2>1. /\ k + ar[k + 1] + 1 < Lead
        /\ file[k + ar[k] + 2] = Num(plan.lens[k * Fanout])
        /\ \A p \in 1 .. plan.lens[k * Fanout] :
             file[k + ar[k] + 2 + p] = KeyCells(k * Fanout)[p]
    BY <1>1 DEF FileHolds
  <2> QED BY <1>1, <1>2, <1>1a, <2>1
<1>4. /\ s.p = 1 + k + a /\ s.ok = TRUE
      /\ s.arena \in Seq(FileCell) /\ Len(s.arena) = a
      /\ \A i1 \in 0 .. k - 1 :
           /\ ar[i1 + 1] <= a
           /\ \A q \in 1 .. plan.lens[i1 * Fanout] :
                s.arena[ar[i1] + q] = KeyCells(i1 * Fanout)[q]
      /\ s.ends \in Seq(Nat) /\ Len(s.ends) = k /\ \A i1 \in 1 .. k : s.ends[i1] = ar[i1]
      /\ k > 0 => s.fixedLen = plan.lens[0]
      /\ s.uniform => \A i1 \in 0 .. k - 1 : plan.lens[i1 * Fanout] = plan.lens[0]
  BY <1>1, <1>2 DEF ParsedTo
<1>4a. k \in Nat /\ j = k + 1
  BY <1>1
<1>4b. e = a + l
  BY <1>2
<1>5. PICK b \in Nat : b = k + a + 2 /\ b + l <= Len(file) /\ b + l <= lead
  <2>1. k + a + 2 + l <= lead
    <3>1. k + e + 1 < lead
      BY <1>3
    <3> QED BY <1>4a, <1>4b, <3>1
  <2>2. lead <= Len(file) /\ Len(file) \in Nat
    BY <1>1
  <2> QED BY <2>1, <2>2
<1>6. PICK key : key = SubSeq(file, b + 1, b + l)
  OBVIOUS
<1>7. /\ key \in Seq(FileCell) /\ Len(key) = l
      /\ \A q \in 1 .. l : key[q] = KeyCells(o)[q]
  <2>1. /\ key \in Seq(FileCell) /\ Len(key) = l
        /\ \A q \in 1 .. l : key[q] = file[b + q]
    <3>1. PICK S : S = FileCell
      OBVIOUS
    <3>2. file \in Seq(S) /\ b + l <= Len(file)
      BY <1>5, <3>1
    <3>3. /\ SubSeq(file, b + 1, b + l) \in Seq(S) /\ Len(SubSeq(file, b + 1, b + l)) = l
          /\ \A q \in 1 .. l : SubSeq(file, b + 1, b + l)[q] = file[b + q]
      BY <3>2, CutIs
    <3> QED BY <1>6, <3>1, <3>3
  <2> QED BY <1>3, <1>5, <2>1
<1>8. file[s.p + 1][2] = l /\ s.p + 2 = b + 1 /\ s.p + 1 + l = b + l
  <2>1. s.p = 1 + k + a /\ b = k + a + 2
    BY <1>4, <1>5
  <2>2. Num(l)[2] = l
    BY CellsAre
  <2>3. s.p + 1 = b /\ s.p + 2 = b + 1 /\ s.p + 1 + l = b + l
    BY <1>4a, <2>1
  <2>4. file[b] = Num(l)
    BY <1>3, <2>1
  <2> QED BY <2>2, <2>3, <2>4
<1>9. PICK arena : arena = s.arena \o key
  OBVIOUS
<1>10. PICK uniform, fixed : /\ uniform = (s.uniform /\ (j = 1 \/ SameLength(l, s.fixedLen)))
                             /\ fixed = IF j = 1 THEN l ELSE s.fixedLen
  OBVIOUS
<1>11. PICK r : r = [p |-> b + l, arena |-> arena, ends |-> Append(s.ends, Len(arena)),
                     fixedLen |-> fixed, uniform |-> uniform, ok |-> TRUE]
  OBVIOUS
<1>12. ParseStep(s, j) = r
  <2>1. ~ (b + l > EfOffset)
    BY <1>1, <1>5
  <2> QED BY <1>4, <1>6, <1>8, <1>9, <1>10, <1>11, <2>1, Zenon DEF ParseStep
<1>13. /\ r.p = b + l /\ r.arena = arena /\ r.ends = Append(s.ends, Len(arena))
       /\ r.fixedLen = fixed /\ r.ok = TRUE
  BY <1>11
<1>14. r.uniform = uniform
  BY <1>11, Zenon
<1>15. /\ arena \in Seq(FileCell) /\ Len(arena) = e
       /\ \A p \in 1 .. a : arena[p] = s.arena[p]
       /\ \A p \in 1 .. l : arena[a + p] = key[p]
  <2>1. /\ s.arena \o key \in Seq(FileCell)
        /\ Len(s.arena \o key) = Len(s.arena) + Len(key)
        /\ \A p \in 1 .. Len(s.arena) : (s.arena \o key)[p] = s.arena[p]
        /\ \A p \in 1 .. Len(key) : (s.arena \o key)[Len(s.arena) + p] = key[p]
    <3>1. s.arena \in Seq(FileCell) /\ key \in Seq(FileCell)
      BY <1>4, <1>7
    <3> QED BY <3>1
  <2> QED BY <1>2, <1>4, <1>7, <1>9, <2>1
<1>16. /\ r.ends \in Seq(Nat) /\ Len(r.ends) = j /\ r.ends[j] = e
       /\ \A i1 \in 1 .. k : r.ends[i1] = s.ends[i1]
  BY <1>1, <1>4, <1>13, <1>15
<1>17. \A i1 \in 1 .. j : r.ends[i1] = ar[i1]
  <2>1. \A i1 \in 1 .. j : i1 = j \/ i1 \in 1 .. k
    BY <1>1
  <2> QED BY <1>2, <1>4, <1>16, <2>1
<1>18. ASSUME NEW i1 \in 0 .. j - 1
       PROVE  /\ ar[i1 + 1] <= e
              /\ \A q \in 1 .. plan.lens[i1 * Fanout] :
                   r.arena[ar[i1] + q] = KeyCells(i1 * Fanout)[q]
  <2>1. CASE i1 = k
    <3>1. ar[k + 1] <= e
      <4>1. ar[k + 1] = e
        BY <1>2, <1>4a
      <4> QED BY <4>1
    <3>2. \A q \in 1 .. l : r.arena[a + q] = KeyCells(o)[q]
      BY <1>7, <1>13, <1>15
    <3>3. \A q \in 1 .. plan.lens[k * Fanout] :
            r.arena[ar[k] + q] = KeyCells(k * Fanout)[q]
      BY <1>2, <1>1a, <3>2
    <3> QED BY <2>1, <3>1, <3>3
  <2>2. CASE i1 # k
    <3>1. i1 \in 0 .. k - 1
      BY <1>1, <2>2
    <3>2. PICK x \in Nat, y \in Nat, u \in Nat :
            x = ar[i1] /\ y = ar[i1 + 1] /\ u = plan.lens[i1 * Fanout] /\ y = x + u
      <4>1. i1 \in 0 .. t - 1 /\ i1 \in 0 .. t /\ i1 + 1 \in 0 .. t
        BY <1>1, <3>1
      <4>2. ar[i1] \in Nat /\ ar[i1 + 1] \in Nat
        BY <4>1 DEF FileHolds, IsTable
      <4>3. /\ plan.lens[i1 * Fanout] \in Nat
            /\ ar[i1 + 1] = ar[i1] + plan.lens[i1 * Fanout]
        BY <4>1 DEF FileHolds, IsTable
      <4> QED BY <4>2, <4>3
    <3>3. y <= a /\ \A q \in 1 .. u : s.arena[x + q] = KeyCells(i1 * Fanout)[q]
      BY <1>4, <3>1, <3>2
    <3>4. \A q \in 1 .. u : x + q \in 1 .. a
      <4>1. x + u <= a
        BY <3>2, <3>3
      <4> QED BY <4>1
    <3>5. y <= e
      BY <1>2, <3>3
    <3> QED BY <1>13, <1>15, <3>2, <3>3, <3>4, <3>5
  <2> QED BY <2>1, <2>2
<1>19. r.fixedLen = plan.lens[0]
  <2>1. CASE k = 0
    <3>1. j = 1 /\ o = 0
      BY <1>1, <1>1a, <2>1
    <3> QED BY <1>2, <1>10, <1>13, <3>1
  <2>2. CASE k # 0
    <3>1. j # 1 /\ k > 0
      BY <1>1, <2>2
    <3> QED BY <1>4, <1>10, <1>13, <3>1
  <2> QED BY <2>1, <2>2
<1>20. ASSUME r.uniform PROVE \A i1 \in 0 .. j - 1 : plan.lens[i1 * Fanout] = plan.lens[0]
  <2>1. s.uniform /\ (j = 1 \/ l = s.fixedLen)
    BY <1>10, <1>14, <1>20, Zenon DEF SameLength
  <2>2. \A i1 \in 0 .. k - 1 : plan.lens[i1 * Fanout] = plan.lens[0]
    BY <1>4, <2>1
  <2>3. plan.lens[k * Fanout] = plan.lens[0]
    <3>1. CASE k = 0
      <4>1. 0 * Fanout = 0
        OBVIOUS
      <4> QED BY <3>1, <4>1
    <3>2. CASE k # 0
      <4>1. j # 1 /\ k > 0
        BY <1>1, <3>2
      <4> QED BY <1>2, <1>4, <1>1a, <2>1, <4>1
    <3> QED BY <3>1, <3>2
  <2>4. \A i1 \in 0 .. j - 1 : i1 = k \/ i1 \in 0 .. k - 1
    BY <1>1
  <2> QED BY <2>2, <2>3, <2>4
<1>21. r.p = 1 + j + ar[j]
  <2>1. b + l = 1 + j + e
    <3>1. b = k + a + 2
      BY <1>5
    <3> QED BY <1>4a, <1>4b, <3>1
  <2> QED BY <1>2, <1>13, <2>1
<1> QED BY <1>2, <1>12, <1>13, <1>15, <1>16, <1>17, <1>18, <1>19, <1>20, <1>21 DEF ParsedTo

LEMMA AllParsed ==
  ASSUME SetUp, FooterIs, KeysInv, NEW ar, FileHolds(ar, NodeCount)
  PROVE  ParsedTo(Parsed[NodeCount], NodeCount, ar)
<1>1. PICK t \in Nat : t = NodeCount
  BY FooterReads
<1>2. /\ Parsed[0] = NothingParsed
      /\ \A j \in 1 .. t : Parsed[j] = ParseStep(Parsed[j - 1], j)
  BY <1>1, ParsedIs
<1> DEFINE T == {j \in 0 .. t : ParsedTo(Parsed[j], j, ar)}
<1>3. 0 \in T
  <2>1. PICK s : s = NothingParsed
    OBVIOUS
  <2>2. /\ s.p = 1 /\ s.ok = TRUE /\ s.arena = <<>> /\ s.ends = <<>>
    BY <2>1 DEF NothingParsed
  <2>3. ar[0] = 0
    BY DEF FileHolds, IsTable
  <2>4. /\ s.p = 1 + 0 + ar[0] /\ s.arena \in Seq(FileCell) /\ Len(s.arena) = ar[0]
        /\ s.ends \in Seq(Nat) /\ Len(s.ends) = 0
    BY <2>2, <2>3
  <2>5. ParsedTo(s, 0, ar)
    BY <2>2, <2>4 DEF ParsedTo
  <2> QED BY <1>2, <2>1, <2>5
<1>4. ASSUME NEW j \in 1 .. t, j - 1 \in T PROVE j \in T
  <2>1. /\ file \in Seq(FileCell) /\ Lead \in Nat /\ Lead <= Len(file)
        /\ EfOffset = Lead /\ Fanout \in Nat
    <3>1. Size \in Nat /\ Lead \in Nat /\ Len(file) = Lead + Size + 7
      BY DEF FooterIs
    <3> QED BY <3>1, FooterReads, FanoutIs DEF FooterIs
  <2>2. FileHolds(ar, t) /\ ParsedTo(Parsed[j - 1], j - 1, ar)
    BY <1>1, <1>4
  <2>3. ParsedTo(ParseStep(Parsed[j - 1], j), j, ar)
    BY <2>1, <2>2, StepParsed
  <2> QED BY <1>2, <2>3
<1>5. t \in T
  <2> HIDE DEF T
  <2> QED BY <1>3, <1>4, Upto
<1> QED BY <1>1, <1>5

\* Keys of one length lie as far apart as they are long.
LEMMA Evenly ==
  ASSUME NEW t \in Nat, NEW ar, IsTable(ar, t), NEW l \in Nat,
         \A k \in 0 .. t - 1 : plan.lens[k * Fanout] = l
  PROVE  \A k \in 0 .. t : ar[k] = k * l
<1> DEFINE T == {k \in 0 .. t : ar[k] = k * l}
<1>1. 0 \in T
  BY DEF IsTable
<1>2. ASSUME NEW k \in 1 .. t, k - 1 \in T PROVE k \in T
  <2>1. PICK m \in 0 .. t - 1 : m = k - 1 /\ k = m + 1
    OBVIOUS
  <2>2. ar[m + 1] = ar[m] + l
    BY <2>1 DEF IsTable
  <2>3. PICK x \in Nat : x = m * l
    BY <2>1
  <2>4. (m + 1) * l = x + l
    BY <2>1, <2>3
  <2>5. ar[m] = x
    BY <1>2, <2>1, <2>3
  <2> QED BY <2>1, <2>2, <2>4, <2>5
<1>3. \A k \in 0 .. t : k \in T
  <2> HIDE DEF T
  <2> QED BY <1>1, <1>2, Upto
<1> QED BY <1>3

LEMMA KeyRead ==
  ASSUME NEW t \in Nat, NEW ar, IsTable(ar, t), NEW s, ParsedTo(s, t, ar),
         NEW j \in 0 .. t - 1, NEW o, o = j * Fanout
  PROVE  NodeKey(s, j) = KeyCells(o)
<1>1. PICK a \in Nat, e \in Nat, l \in Nat :
        a = ar[j] /\ e = ar[j + 1] /\ l = plan.lens[o] /\ e = a + l
  <2>1. j \in 0 .. t /\ j + 1 \in 0 .. t
    OBVIOUS
  <2>2. ar[j] \in Nat /\ ar[j + 1] \in Nat
    BY <2>1 DEF IsTable
  <2>3. plan.lens[o] \in Nat /\ ar[j + 1] = ar[j] + plan.lens[o]
    BY DEF IsTable
  <2> QED BY <2>2, <2>3
<1>2. PICK arena, ends : arena = s.arena /\ ends = s.ends
  OBVIOUS
<1>3. arena \in Seq(FileCell) /\ Len(arena) = ar[t] /\ e <= ar[t]
  BY <1>1, <1>2 DEF ParsedTo
<1>4. \A q \in 1 .. l : arena[a + q] = KeyCells(o)[q]
  <2>1. \A q \in 1 .. plan.lens[j * Fanout] :
          s.arena[ar[j] + q] = KeyCells(j * Fanout)[q]
    BY DEF ParsedTo
  <2> QED BY <1>1, <1>2, <2>1
<1>5. a + l <= Len(arena)
  BY <1>1, <1>3
<1>6. PICK cut : cut = SubSeq(arena, a + 1, a + l)
  OBVIOUS
<1>7. cut \in Seq(FileCell) /\ Len(cut) = l /\ \A q \in 1 .. l : cut[q] = arena[a + q]
  <2>1. PICK S : S = FileCell
    OBVIOUS
  <2>2. arena \in Seq(S)
    BY <1>3, <2>1
  <2>3. /\ SubSeq(arena, a + 1, a + l) \in Seq(S) /\ Len(SubSeq(arena, a + 1, a + l)) = l
        /\ \A q \in 1 .. l : SubSeq(arena, a + 1, a + l)[q] = arena[a + q]
    BY <1>5, <2>2, CutIs
  <2> QED BY <1>6, <2>1, <2>3
<1>8. cut = KeyCells(o)
  <2>1. KeyCells(o) = [q \in 1 .. l |-> KeyCells(o)[q]]
    BY <1>1 DEF KeyCells
  <2>2. cut = [q \in 1 .. l |-> cut[q]]
    BY <1>7
  <2>3. \A q \in 1 .. l : cut[q] = KeyCells(o)[q]
    BY <1>4, <1>7
  <2> HIDE DEF KeyCells
  <2> QED BY <2>1, <2>2, <2>3
<1>9. CASE s.uniform
  <2>1. l = plan.lens[0] /\ s.fixedLen = l /\ \A k \in 0 .. t - 1 : plan.lens[k * Fanout] = l
    <3>1. t > 0
      OBVIOUS
    <3>2. s.fixedLen = plan.lens[0]
      BY <3>1 DEF ParsedTo
    <3>3. \A k \in 0 .. t - 1 : plan.lens[k * Fanout] = plan.lens[0]
      BY <1>9 DEF ParsedTo
    <3>4. plan.lens[j * Fanout] = plan.lens[0]
      BY <3>3
    <3> QED BY <1>1, <3>2, <3>3, <3>4
  <2>2. \A k \in 0 .. t : ar[k] = k * l
    BY <2>1, Evenly
  <2>3. j \in 0 .. t
    OBVIOUS
  <2>4. a = j * l
    BY <1>1, <2>2, <2>3
  <2>5. (j + 1) * l = a + l
    BY <2>4
  <2>6. NodeKey(s, j) = SubSeq(arena, j * l + 1, (j + 1) * l)
    BY <1>2, <1>9, <2>1 DEF NodeKey
  <2> QED BY <1>6, <1>8, <2>4, <2>5, <2>6
<1>10. CASE ~ s.uniform
  <2>1. ends[j + 1] = e
    <3>1. j + 1 \in 1 .. t
      OBVIOUS
    <3> QED BY <1>1, <1>2, <3>1 DEF ParsedTo
  <2>2. (IF j = 0 THEN 1 ELSE ends[j] + 1) = a + 1
    <3>1. CASE j = 0
      BY <1>1, <3>1 DEF IsTable
    <3>2. CASE j # 0
      <4>1. j \in 1 .. t
        BY <3>2
      <4>2. ends[j] = a
        BY <1>1, <1>2, <4>1 DEF ParsedTo
      <4> QED BY <3>2, <4>2
    <3> QED BY <3>1, <3>2
  <2>3. NodeKey(s, j) = SubSeq(arena, IF j = 0 THEN 1 ELSE ends[j] + 1, ends[j + 1])
    BY <1>2, <1>10 DEF NodeKey
  <2>4. NodeKey(s, j) = SubSeq(arena, a + 1, a + l)
    BY <1>1, <2>1, <2>2, <2>3
  <2> QED BY <1>6, <1>8, <2>4
<1> QED BY <1>9, <1>10

\* The nodes a reader narrows with are the keys they were made of, the last and shorter
\* block's too, whether all have one length or not (parse_nodes, Nodes::key).
THEOREM NodesAreKeysHolds == BtSpec => []NodesAreKeys
<1>1. BtInit => NodeInv
  <2> SUFFICES ASSUME BtInit PROVE NodeInv
    OBVIOUS
  <2>1. kind = "None"
    BY DEF BtInit
  <2>2. FooterInv
    BY <2>1 DEF FooterInv
  <2> QED BY <2>2, InitPuts, KeysInit DEF NodeInv
<1>2. BtInv /\ BtInv' /\ [BtNext]_btVars /\ NodeInv => NodeInv'
  BY NodeStep DEF NodeInv
<1>3. NodeInv => NodesAreKeys
  <2> SUFFICES ASSUME NodeInv, kind = "Footer"
               PROVE  /\ Parsed[NodeCount].ok
                      /\ \A k \in 0 .. count - 1 :
                           k % Fanout = 0 =>
                             NodeKey(Parsed[NodeCount], k \div Fanout) = KeyCells(k)
    BY DEF NodesAreKeys
  <2>1. SetUp /\ FooterIs /\ KeysInv
    BY DEF NodeInv, BtInv, MakeInv, FooterInv
  <2>2. PICK ar : FileHolds(ar, NodeCount)
    BY <2>1, FooterReads
  <2>3. PICK s : s = Parsed[NodeCount] /\ ParsedTo(s, NodeCount, ar)
    BY <2>1, <2>2, AllParsed
  <2>4. s.ok
    BY <2>3 DEF ParsedTo
  <2>5. PICK t \in Nat, n \in Nat, m \in Nat \ {0} :
          t = NodeCount /\ n = count /\ m = Fanout /\ t = DivCeil(n, m)
    BY <2>1, FooterReads, FanoutIs, PlansFit
  <2>6. ASSUME NEW k \in 0 .. count - 1, k % Fanout = 0
        PROVE  NodeKey(s, k \div Fanout) = KeyCells(k)
    <3>1. k \in Nat /\ k < n /\ k % m = 0
      BY <2>5, <2>6
    <3>2. PICK j \in Nat, r \in 0 .. m - 1 : k = m * j + r /\ j = k \div m /\ r = k % m
      BY <3>1, Euclid
    <3>3. k = m * j
      <4>1. PICK x \in Nat : x = m * j
        OBVIOUS
      <4>2. k = x + r /\ r = 0
        BY <3>1, <3>2, <4>1
      <4>3. k = x
        BY <3>1, <4>2
      <4> QED BY <4>1, <4>3
    <3>4. j < t
      <4>1. m * j < n
        BY <3>1, <3>3
      <4> QED BY <2>5, <4>1, CeilIs
    <3>5. j \in 0 .. t - 1
      BY <3>4
    <3>6. k = j * Fanout
      BY <2>5, <3>3
    <3>7. IsTable(ar, t) /\ ParsedTo(s, t, ar)
      BY <2>2, <2>3, <2>5 DEF FileHolds
    <3>8. NodeKey(s, j) = KeyCells(k)
      BY <3>5, <3>6, <3>7, KeyRead
    <3> QED BY <2>5, <3>2, <3>8
  <2> QED BY <2>3, <2>4, <2>6
<1> QED BY <1>1, <1>2, <1>3, BtInvHolds, PTL DEF BtSpec
===============================================================================
