---------------------------- MODULE KveiSearchProofs ----------------------------
(***************************************************************************)
(* Proofs about SaltSearch, Bloom and KveiSearch, which composes them: for *)
(* every size of the salt space, number of workers and list of hints; for  *)
(* any width of a word, rounds of hashing, filter sizes, numbers of keys   *)
(* and sizes of the two samples.                                           *)
(***************************************************************************)
EXTENDS KveiSearch, TLAPS

-----------------------------------------------------------------------------

(* The search for a salt. *)

(* Two members of a residue class are at least the modulus apart. *)
LEMMA ClassGap ==
  ASSUME NEW t \in Nat \ {0}, NEW a \in Nat, NEW b \in Nat, a % t = b % t, a < b
  PROVE  a + t <= b
<1>1. /\ a = t * (a \div t) + (a % t)
      /\ b = t * (b \div t) + (b % t)
      /\ a \div t \in Int /\ b \div t \in Int
  BY SMT
<1>2. \A x, y \in Int : x < y => t * x + t <= t * y
  BY SMT
<1>3. \A x, y \in Int : x <= y => t * x <= t * y
  BY SMT
<1>4. a \div t < b \div t
  BY <1>1, <1>3, SMT
<1> QED
  BY <1>1, <1>2, <1>4, SMT

(* A stride stays in the residue class. *)
LEMMA ClassStride ==
  ASSUME NEW t \in Nat \ {0}, NEW a \in Nat
  PROVE  (a + t) % t = a % t
<1> DEFINE q == (a + t) \div t
           r == (a + t) % t
           p == a \div t
<1>1. /\ a + t = t * q + r
      /\ a = t * p + (a % t)
      /\ q \in Int /\ p \in Int /\ r \in 0 .. t - 1 /\ a % t \in 0 .. t - 1
  BY SMT
<1> HIDE DEF q, r, p
<1>2. \A x, y \in Int : x < y => t * x + t <= t * y
  BY SMT
<1>3. t * (p + 1) = t * p + t
  BY <1>1, SMT
<1>4. ~(q < p + 1)
  BY <1>1, <1>2, <1>3, SMT
<1>5. ~(p + 1 < q)
  BY <1>1, <1>2, <1>3, SMT
<1>6. q = p + 1
  BY <1>1, <1>4, <1>5, SMT
<1>7. r = a % t
  BY <1>1, <1>3, <1>6, SMT
<1> QED
  BY <1>7 DEF r

LEMMA ClassRange ==
  ASSUME NEW t \in Nat \ {0}, NEW a \in Nat
  PROVE  a % t \in 0 .. t - 1 /\ (a < t => a % t = a)
  BY SMT

LEMMA ThreadsRange ==
  asked \in Nat =>
    Threads \in Nat \ {0} /\ Threads <= TopSalt + 1 /\ Workers \subseteq Salt
  BY TopSaltAssumption, MaxThreadsAssumption DEF Threads, Workers, Salt

LEMMA InitInv == Init => IInv
<1> SUFFICES ASSUME Init PROVE IInv
  OBVIOUS
<1>1. /\ asked \in Nat
      /\ Threads \in Nat \ {0}
      /\ Workers \subseteq Salt
  BY AskedAssumption, ThreadsRange DEF Init
<1>2. \A w \in Workers : w \in Nat /\ w % Threads = w
  BY <1>1, ClassRange DEF Workers
<1>3. TypeOK
  BY <1>1, HintListsAssumption DEF Init, TypeOK, Salt
<1>4. Reports = {} /\ FoundIsLeastReport
  BY DEF Init, Reports, FoundIsLeastReport
<1>5. Searched
  <2> SUFFICES ASSUME NEW w \in Workers, NEW s \in passing, s % Threads = w
               PROVE  salt[w] <= s
    BY <1>2 DEF Searched, Init
  <2>1. s \in Nat
    BY <1>3, TopSaltAssumption DEF TypeOK, Salt
  <2>2. CASE s < Threads
    <3>1. s % Threads = s
      BY <1>1, <2>1, <2>2, ClassRange
    <3>2. salt[w] = w
      BY DEF Init
    <3> QED
      BY <2>1, <3>1, <3>2
  <2>3. CASE s >= Threads
    BY <1>1, <2>1, <2>3 DEF Init, Workers
  <2> QED
    BY <1>1, <2>1, <2>2, <2>3
<1>6. CallerKnows
  BY DEF Init, CallerKnows
<1> QED
  BY <1>3, <1>4, <1>5, <1>6 DEF IInv, ActiveIsValidated, Init

(* What no step of a worker or of the caller changes. *)
LEMMA SameGiven ==
  ASSUME UNCHANGED given
  PROVE  /\ Threads' = Threads
         /\ Workers' = Workers
         /\ GoodHints' = GoodHints
         /\ \A i : FirstHint(i)' = FirstHint(i)
BY DEF given, Threads, Workers, GoodHints, FirstHint

LEMMA WorkerInv ==
  ASSUME IInv, NEW w \in Workers, Worker(w)
  PROVE  IInv'
<1>1. /\ asked \in Nat
      /\ Threads \in Nat \ {0}
      /\ Workers \subseteq Salt
      /\ Salt \subseteq Nat
  BY ThreadsRange, TopSaltAssumption DEF IInv, TypeOK, Salt
<1>2. UNCHANGED <<given, main, result, active>> /\ main = "search"
  BY DEF Worker, Load, Report, Advance, Exhaust
<1>3. /\ Threads' = Threads
      /\ Workers' = Workers
      /\ GoodHints' = GoodHints
      /\ \A i : FirstHint(i)' = FirstHint(i)
  BY <1>2, SameGiven
<1>4. /\ UNCHANGED <<usable, passing, validating, hints, asked, main, result, active>>
      /\ usable
      /\ GoodHints = {}
  BY <1>2 DEF given, IInv, CallerKnows
<1>5. CallerKnows' /\ ActiveIsValidated'
  BY <1>2, <1>3, <1>4 DEF IInv, CallerKnows, ActiveIsValidated
<1>6. CASE Load(w)
  <2>1. /\ UNCHANGED <<found, salt>>
        /\ pc[w] = "load"
        /\ \/ pc' = [pc EXCEPT ![w] = "stopped"] /\ found # NoSalt
           \/ pc' = [pc EXCEPT ![w] = "test"]
    BY <1>6, Zenon DEF Load
  <2>2. TypeOK'
    BY <1>3, <1>4, <2>1 DEF IInv, TypeOK, Salt, NoSalt
  <2>3. Reports' = Reports
    BY <1>3, <2>1 DEF Reports, IInv, TypeOK
  <2>4. FoundIsLeastReport'
    BY <2>1, <2>3 DEF IInv, FoundIsLeastReport, NoSalt
  <2>5. Searched'
    BY <1>3, <1>4, <2>1 DEF IInv, Searched, TypeOK, NoSalt
  <2> QED
    BY <1>5, <2>2, <2>4, <2>5 DEF IInv
<1>7. CASE Report(w)
  <2>1. /\ UNCHANGED salt
        /\ salt[w] \in passing
        /\ pc[w] = "test"
        /\ pc' = [pc EXCEPT ![w] = "reported"]
        /\ found' = FetchMin(salt[w])
        /\ salt[w] \in Salt
    BY <1>7 DEF Report, IInv, TypeOK
  <2>2. found' \in Salt /\ found' # NoSalt /\ found' <= salt[w]
    BY <1>1, <2>1, TopSaltAssumption DEF IInv, TypeOK, FetchMin, NoSalt, Salt
  <2>3. TypeOK'
    BY <1>3, <1>4, <2>1, <2>2 DEF IInv, TypeOK, Salt, NoSalt
  <2>4. Reports' = Reports \cup {salt[w]}
    BY <1>3, <2>1 DEF Reports, IInv, TypeOK
  <2>5. \A s \in Reports : s \in Nat
    BY <1>1 DEF Reports, IInv, TypeOK
  <2>6. FoundIsLeastReport'
    <3>1. found' \in Reports'
      BY <2>1, <2>2, <2>4, TopSaltAssumption
      DEF IInv, FoundIsLeastReport, FetchMin, NoSalt, Salt
    <3>2. \A s \in Reports' : found' <= s
      BY <1>1, <2>1, <2>2, <2>4, <2>5, TopSaltAssumption
      DEF IInv, FoundIsLeastReport, FetchMin, NoSalt, Salt, TypeOK
    <3> QED
      BY <2>2, <3>1, <3>2 DEF FoundIsLeastReport, NoSalt
  <2>7. Searched'
    BY <1>3, <1>4, <2>1, <2>2 DEF IInv, Searched, TypeOK, NoSalt
  <2> QED
    BY <1>5, <2>3, <2>6, <2>7 DEF IInv
<1>8. CASE Advance(w)
  <2>1. /\ UNCHANGED found
        /\ salt[w] \notin passing
        /\ pc[w] = "test"
        /\ pc' = [pc EXCEPT ![w] = "load"]
        /\ salt[w] \in Salt
        /\ salt[w] + Threads <= TopSalt
        /\ salt' = [salt EXCEPT ![w] = (salt[w] + Threads) % (TopSalt + 1)]
        /\ salt[w] \in Nat
    BY <1>1, <1>8 DEF Advance, Strides, IInv, TypeOK
  <2>2. /\ salt' = [salt EXCEPT ![w] = salt[w] + Threads]
        /\ salt[w] + Threads \in Salt
    <3>1. /\ salt[w] + Threads \in Nat /\ TopSalt + 1 \in Nat \ {0}
          /\ salt[w] + Threads < TopSalt + 1
      BY <1>1, <2>1, TopSaltAssumption
    <3>2. (salt[w] + Threads) % (TopSalt + 1) = salt[w] + Threads
      BY <3>1, ClassRange
    <3>3. salt[w] + Threads \in Salt
      BY <3>1, TopSaltAssumption DEF Salt
    <3>4. salt' = [salt EXCEPT ![w] = salt[w] + Threads]
      BY <2>1, <3>2, Zenon
    <3> QED
      BY <3>3, <3>4
  <2>3. TypeOK'
    BY <1>3, <1>4, <2>1, <2>2 DEF IInv, TypeOK, Salt, NoSalt
  <2>4. Reports' = Reports
    BY <1>3, <2>1, <2>2 DEF Reports, IInv, TypeOK
  <2>5. FoundIsLeastReport'
    BY <2>1, <2>4 DEF IInv, FoundIsLeastReport, NoSalt
  <2>6. salt[w] % Threads = w /\ (salt[w] + Threads) % Threads = w
    BY <1>1, <2>1, ClassStride DEF IInv, Searched
  <2>7. ASSUME NEW s \in passing, s % Threads = w
        PROVE  salt[w] + Threads <= s
    <3>1. s \in Nat /\ salt[w] <= s /\ s # salt[w] /\ salt[w] \in Nat
      BY <1>1, <2>1, <2>7 DEF IInv, Searched, TypeOK
    <3>2. salt[w] % Threads = s % Threads /\ salt[w] < s
      BY <2>6, <2>7, <3>1
    <3> HIDE DEF Threads
    <3> QED
      BY <1>1, <3>1, <3>2, ClassGap
  <2>8. Searched'
    BY <1>3, <1>4, <2>1, <2>2, <2>6, <2>7 DEF IInv, Searched, TypeOK, NoSalt
  <2> QED
    BY <1>5, <2>3, <2>5, <2>8 DEF IInv
<1>9. CASE Exhaust(w)
  <2>1. /\ UNCHANGED <<found, salt>>
        /\ salt[w] \notin passing
        /\ pc[w] = "test"
        /\ pc' = [pc EXCEPT ![w] = "exhausted"]
        /\ salt[w] \in Salt
        /\ salt[w] + Threads > TopSalt
    <3>1. salt[w] \in Salt /\ salt[w] \in Nat /\ ~(salt[w] + Threads <= TopSalt)
      BY <1>1, <1>9 DEF Exhaust, Strides, IInv, TypeOK
    <3> QED
      BY <1>1, <1>9, <3>1, TopSaltAssumption DEF Exhaust
  <2>2. TypeOK'
    BY <1>3, <1>4, <2>1 DEF IInv, TypeOK, Salt, NoSalt
  <2>3. Reports' = Reports
    BY <1>3, <2>1 DEF Reports, IInv, TypeOK
  <2>4. FoundIsLeastReport'
    BY <2>1, <2>3 DEF IInv, FoundIsLeastReport, NoSalt
  <2>5. Searched'
    BY <1>3, <1>4, <2>1 DEF IInv, Searched, TypeOK, NoSalt
  <2> QED
    BY <1>5, <2>2, <2>4, <2>5 DEF IInv
<1> QED
  BY <1>6, <1>7, <1>8, <1>9 DEF Worker

LEMMA CallerInv ==
  ASSUME IInv, Caller
  PROVE  IInv'
<1>1. UNCHANGED <<given, found, salt, pc>>
  BY DEF Caller, NoFilter, TakeHint, Spawn, Join, Validate
<1>2. /\ Threads' = Threads
      /\ Workers' = Workers
      /\ GoodHints' = GoodHints
      /\ \A i : FirstHint(i)' = FirstHint(i)
  BY <1>1, SameGiven
<1>3. UNCHANGED <<usable, passing, validating, hints, asked>>
  BY <1>1 DEF given
<1>4. Reports' = Reports
  BY <1>1, <1>2 DEF Reports
<1>5. FoundIsLeastReport' /\ Searched'
  BY <1>1, <1>2, <1>3, <1>4 DEF IInv, FoundIsLeastReport, Searched, NoSalt
<1>6. \A w \in Workers : Returned(w)' = Returned(w)
  BY <1>1 DEF Returned
<1>7. /\ result' \in Salt \cup {NoSalt}
      /\ active' \in Salt \cup {NoSalt}
      /\ main' \in {"hints", "search", "validate", "done"}
      /\ result' \in Salt => result' # NoSalt
      /\ ActiveIsValidated'
      /\ CallerKnows'
  <2>0. \A s \in Salt : s # NoSalt
    BY TopSaltAssumption DEF Salt, NoSalt
  <2>1. CASE NoFilter
    BY <1>1, <1>2, <1>3, <1>6, <2>0, <2>1
    DEF NoFilter, IInv, TypeOK, CallerKnows, ActiveIsValidated, NoSalt
  <2>2. CASE TakeHint
    <3>1. PICK i \in DOMAIN hints : FirstHint(i) /\ result' = hints[i]
      BY <2>2 DEF TakeHint
    <3>2. result' \in Salt
      BY <3>1 DEF IInv, TypeOK
    <3>3. /\ main = "hints" /\ main' = "validate" /\ usable
          /\ UNCHANGED active
      BY <2>2 DEF TakeHint
    <3> QED
      BY <1>1, <1>2, <1>3, <2>0, <3>1, <3>2, <3>3
      DEF IInv, TypeOK, CallerKnows, ActiveIsValidated, NoSalt
  <2>3. CASE Spawn
    BY <1>1, <1>2, <1>3, <1>6, <2>0, <2>3
    DEF Spawn, IInv, TypeOK, CallerKnows, ActiveIsValidated, NoSalt
  <2>4. CASE Join
    BY <1>1, <1>2, <1>3, <1>6, <2>0, <2>4
    DEF Join, IInv, TypeOK, CallerKnows, ActiveIsValidated, NoSalt
  <2>5. CASE Validate
    BY <1>1, <1>2, <1>3, <1>6, <2>0, <2>5
    DEF Validate, Validated, IInv, TypeOK, CallerKnows, ActiveIsValidated, NoSalt
  <2> QED
    BY <2>1, <2>2, <2>3, <2>4, <2>5 DEF Caller
<1>8. TypeOK'
  BY <1>1, <1>2, <1>3, <1>7 DEF IInv, TypeOK, Salt, NoSalt
<1> QED
  BY <1>5, <1>7, <1>8 DEF IInv

LEMMA StutterInv ==
  ASSUME IInv, UNCHANGED vars
  PROVE  IInv'
<1>1. UNCHANGED given
  BY DEF vars, given
<1>2. /\ Threads' = Threads
      /\ Workers' = Workers
      /\ GoodHints' = GoodHints
      /\ \A i : FirstHint(i)' = FirstHint(i)
  BY <1>1, SameGiven
<1>3. Reports' = Reports
  BY <1>2 DEF Reports, vars
<1> QED
  BY <1>2, <1>3
  DEF vars, IInv, TypeOK, Salt, NoSalt, FoundIsLeastReport, Searched, CallerKnows,
      Returned, ActiveIsValidated

(* Whatever the interleaving of the workers, the invariant holds. *)
THEOREM Invariance == Spec => []IInv
<1>1. Init => IInv
  BY InitInv
<1>2. IInv /\ [Next]_vars => IInv'
  BY WorkerInv, CallerInv, StutterInv DEF Next, Finished
<1> QED
  BY <1>1, <1>2, PTL DEF Spec

(* The variables of the search keep their types: candidates stay 32 bits wide. *)
THEOREM TypeCorrect == Spec => []TypeOK
<1>1. IInv => TypeOK
  BY DEF IInv
<1> QED
  BY <1>1, Invariance, PTL

(* The shared cell holds the least report. *)
THEOREM LeastReport == Spec => []FoundIsLeastReport
<1>1. IInv => FoundIsLeastReport
  BY DEF IInv
<1> QED
  BY <1>1, Invariance, PTL

(* When all workers have returned without a report, every residue class is exhausted. *)
LEMMA InvFoundIff == IInv => FoundIffOneExists
<1> SUFFICES ASSUME IInv, main \in {"validate", "done"}, usable
             PROVE  /\ result # NoSalt => result \in passing
                    /\ result = NoSalt => passing = {}
  BY DEF FoundIffOneExists
<1>0. /\ Threads \in Nat \ {0} /\ Salt \subseteq Nat
      /\ \A s \in Salt : s # NoSalt
  BY ThreadsRange, TopSaltAssumption DEF IInv, TypeOK, Salt, NoSalt
<1>1. CASE \E i \in DOMAIN hints : FirstHint(i) /\ result = hints[i]
  BY <1>0, <1>1 DEF FirstHint, GoodHints, IInv, TypeOK
<1>2. CASE result = found /\ \A w \in Workers : Returned(w)
  <2>1. CASE found # NoSalt
    BY <1>2, <2>1 DEF IInv, FoundIsLeastReport, Reports, Searched
  <2>2. CASE found = NoSalt
    <3>1. \A w \in Workers : pc[w] # "reported"
      BY <2>2 DEF IInv, FoundIsLeastReport, Reports
    <3>2. \A w \in Workers : pc[w] = "exhausted"
      BY <1>2, <2>2, <3>1 DEF IInv, Searched, Returned
    <3>3. ASSUME NEW s \in passing
          PROVE  FALSE
      <4>1. s \in Nat /\ s <= TopSalt
        BY TopSaltAssumption DEF IInv, TypeOK, Salt
      <4>2. s % Threads \in Workers
        BY <1>0, <4>1, ClassRange DEF Workers
      <4> DEFINE w == s % Threads
      <4>3. /\ salt[w] \in Nat /\ salt[w] % Threads = w /\ salt[w] <= s
            /\ salt[w] \notin passing /\ salt[w] + Threads > TopSalt
        BY <1>0, <3>2, <4>2 DEF IInv, Searched, TypeOK
      <4>4. salt[w] < s
        BY <4>1, <4>3
      <4>5. salt[w] + Threads <= s
        BY <1>0, <4>1, <4>3, <4>4, ClassGap
      <4> QED
        BY <1>0, <4>1, <4>3, <4>5, TopSaltAssumption
    <3> QED
      BY <1>2, <2>2, <3>3
  <2> QED
    BY <2>1, <2>2
<1> QED
  BY <1>1, <1>2 DEF IInv, CallerKnows

(* The search is sound and complete: it returns a passing salt iff there is one. *)
THEOREM SearchIsComplete == Spec => []FoundIffOneExists
  BY InvFoundIff, Invariance, PTL

(* The result is the first good hint, or the candidate of a worker that reported. *)
LEMMA InvHintsFirst == IInv => HintsComeFirst
<1> SUFFICES ASSUME IInv, main \in {"validate", "done"}, result # NoSalt
             PROVE  IF GoodHints # {}
                    THEN \E i \in GoodHints :
                           result = hints[i] /\ \A j \in 1 .. i - 1 : hints[j] \notin passing
                    ELSE \A s \in passing : s % Threads = result % Threads => result <= s
  BY DEF HintsComeFirst
<1>1. usable
  BY DEF IInv, CallerKnows
<1>2. CASE \E i \in DOMAIN hints : FirstHint(i) /\ result = hints[i]
  <2>1. PICK i \in DOMAIN hints : FirstHint(i) /\ result = hints[i]
    BY <1>2
  <2>2. DOMAIN hints = 1 .. Len(hints) /\ Len(hints) \in Nat
    BY DEF IInv, TypeOK
  <2>3. \A j \in 1 .. i - 1 : j \in DOMAIN hints /\ ~(i <= j)
    BY <2>1, <2>2
  <2>4. \A j \in 1 .. i - 1 : hints[j] \notin passing
    BY <2>1, <2>3 DEF FirstHint, GoodHints
  <2> QED
    BY <2>1, <2>4 DEF FirstHint
<1>3. CASE GoodHints = {} /\ result = found
  <2>1. found \in Reports
    BY <1>3 DEF IInv, FoundIsLeastReport
  <2>2. PICK w \in Workers : pc[w] = "reported" /\ found = salt[w]
    BY <2>1 DEF Reports
  <2> QED
    BY <1>3, <2>2 DEF IInv, Searched
<1> QED
  BY <1>1, <1>2, <1>3 DEF IInv, CallerKnows

(* Hints are preferred, in order; a searched salt is the least of its class. *)
THEOREM HintOrder == Spec => []HintsComeFirst
  BY InvHintsFirst, Invariance, PTL

(* Only a salt that passes the larger sample becomes the active one. *)
THEOREM OnlyValidated == Spec => []ActiveIsValidated
<1>1. IInv => ActiveIsValidated
  BY DEF IInv
<1> QED
  BY <1>1, Invariance, PTL

-----------------------------------------------------------------------------

(* The filter and its file. *)

Words == [0 .. NWords(m) - 1 -> SUBSET (0 .. WordBits - 1)]

FilterTypeOK ==
  /\ stage \in {"build", "written", "opened"}
  /\ empty \in BOOLEAN
  /\ m \in Nat /\ (~empty => m > 0)
  /\ bits \in Words
  /\ added \subseteq HashValue

\* Every hash added has its bits in the words.
Recorded ==
  ~empty => \A h \in added : \A i \in SetBy(h) : i % WordBits \in bits[i \div WordBits]

\* The file is a beginning of the filter, and a filter for the reader only if whole.
FileIsPrefix ==
  /\ file.reach = "words" =>
       /\ ~empty
       /\ file.m = m
       /\ \E n \in 0 .. NWords(m) : file.words = FirstWords(n)
  /\ kind = "Bloom" => file.reach = "words" /\ HoldsAll(file)
  /\ stage = "build" => file.reach = "nothing" /\ kind # "Bloom"
  /\ kind = "Bloom" => stage = "opened"

FilterInv == FilterTypeOK /\ Recorded /\ FileIsPrefix

-----------------------------------------------------------------------------

\* A bit below size lies in one of its words.
LEMMA BitInWords ==
  ASSUME NEW size \in Nat, NEW i \in Nat, i < size
  PROVE  /\ i \div WordBits \in 0 .. NWords(size) - 1
         /\ i % WordBits \in 0 .. WordBits - 1
         /\ (i \div WordBits) * WordBits + (i % WordBits) = i
<1>. DEFINE q == i \div WordBits
            r == i % WordBits
            n == NWords(size)
<1>1. q \in Int /\ r \in 0 .. WordBits - 1 /\ i = WordBits * q + r
  BY WordBitsAssumption, SMT
<1>2. n \in Int /\ size <= WordBits * n
  <2>1. size + WordBits - 1 \in Int
    BY WordBitsAssumption
  <2>2. \A x \in Int : x < WordBits * (x \div WordBits) + WordBits /\ x \div WordBits \in Int
    BY WordBitsAssumption, SMT
  <2>. QED
    BY <2>1, <2>2, WordBitsAssumption DEF NWords
<1>. HIDE DEF q, r, n
<1>3. WordBits \in Nat \ {0}
  BY WordBitsAssumption
<1>4. q >= 0
  <2>1. \A x \in Int : x <= -1 => WordBits * x <= -WordBits
    BY <1>3, SMT
  <2>. QED
    BY <1>1, <1>3, <2>1, SMT
<1>5. q < n
  <2>1. \A x, y \in Int : x <= y => WordBits * x <= WordBits * y
    BY <1>3, SMT
  <2>2. n <= q => WordBits * n <= WordBits * q
    BY <1>1, <1>2, <2>1
  <2>. QED
    BY <1>1, <1>2, <1>3, <2>2, SMT
<1>6. q * WordBits = WordBits * q
  BY <1>1, <1>3, SMT
<1>. QED
  BY <1>1, <1>2, <1>3, <1>4, <1>5, <1>6, SMT DEF q, r, n

\* A filter has some number of words.
LEMMA NWordsNat == ASSUME NEW size \in Nat PROVE NWords(size) \in Nat
<1>1. size + WordBits - 1 \in Nat
  BY WordBitsAssumption
<1>2. \A x \in Nat : x \div WordBits \in Nat
  BY WordBitsAssumption, SMT
<1>. QED
  BY <1>1, <1>2 DEF NWords

\* The bits of a hash are bits of the filter.
LEMMA SetByInside ==
  ASSUME NEW h \in HashValue, m \in Nat, m > 0
  PROVE  /\ SetBy(h) \subseteq 0 .. m - 1
         /\ SetBy(h) = {First(h) % m, Second(h) % m, Third(h) % m}
<1>1. \A g \in HashValue : \A r \in Round : Mix[r][g] \in HashValue
  BY MixAssumption
<1>a. First(h) \in HashValue
  BY <1>1 DEF First, Round
<1>b. Second(h) \in HashValue
  BY <1>1, <1>a DEF Second, Round
<1>c. Third(h) \in HashValue
  BY <1>1, <1>b DEF Third, Round
<1>2. First(h) \in Nat /\ Second(h) \in Nat /\ Third(h) \in Nat
  BY <1>a, <1>b, <1>c, MixAssumption
<1>3. \A n \in Nat : n % m \in 0 .. m - 1
  BY SMT
<1>. QED
  BY <1>2, <1>3 DEF SetBy

-----------------------------------------------------------------------------

LEMMA InitFilterInv ==
  ASSUME NEW n \in Nat, NewFilter(n) PROVE FilterInv
<1>1. m \in Nat /\ (~empty => m > 0) /\ empty \in BOOLEAN
  BY SizesAssumption DEF NewFilter
<1>2. bits \in Words
  BY DEF NewFilter, Words
<1>. QED
  BY <1>1, <1>2 DEF NewFilter, FilterInv, FilterTypeOK, Recorded, FileIsPrefix, NoBytes

LEMMA AddHashStep ==
  ASSUME FilterInv, NEW h \in HashValue, AddHash(h) PROVE FilterInv'
<1>1. UNCHANGED <<stage, empty, m, file, kind>> /\ stage = "build"
      /\ added' = added \cup {h}
  BY DEF AddHash
<1>2. CASE empty
  <2>1. bits' = bits
    BY <1>2 DEF AddHash
  <2>. QED
    BY <1>1, <1>2, <2>1
    DEF FilterInv, FilterTypeOK, Words, Recorded, FileIsPrefix, HoldsAll, FirstWords
<1>3. CASE ~empty
  <2>1. bits' = [w \in DOMAIN bits |->
                   bits[w] \cup {b \in 0 .. WordBits - 1 : w * WordBits + b \in SetBy(h)}]
    BY <1>3 DEF AddHash
  <2>2. DOMAIN bits = 0 .. NWords(m) - 1 /\ m \in Nat /\ m > 0
    BY <1>3 DEF FilterInv, FilterTypeOK, Words
  <2>3. bits' \in Words'
    BY <1>1, <2>1, <2>2 DEF FilterInv, FilterTypeOK, Words, NWords
  <2>4. Recorded'
    <3>. SUFFICES ASSUME NEW g \in added', NEW i \in SetBy(g)
                  PROVE  i % WordBits \in bits'[i \div WordBits]
      BY <1>1 DEF Recorded, SetBy
    <3>1. g \in HashValue
      BY <1>1 DEF FilterInv, FilterTypeOK
    <3>2. i \in 0 .. m - 1
      BY <2>2, <3>1, SetByInside
    <3>3. /\ i \div WordBits \in 0 .. NWords(m) - 1
          /\ i % WordBits \in 0 .. WordBits - 1
          /\ (i \div WordBits) * WordBits + (i % WordBits) = i
      BY <2>2, <3>2, BitInWords
    <3>4. CASE g \in added
      <4>1. i % WordBits \in bits[i \div WordBits]
        BY <1>3, <3>4 DEF FilterInv, Recorded
      <4>. QED
        BY <2>1, <2>2, <3>3, <4>1
    <3>5. CASE g = h
      BY <2>1, <2>2, <3>3, <3>5
    <3>. QED
      BY <1>1, <3>4, <3>5
  <2>. QED
    BY <1>1, <1>3, <2>3, <2>4 DEF FilterInv, FilterTypeOK, FileIsPrefix
<1>. QED
  BY <1>2, <1>3 DEF FilterInv, FilterTypeOK

LEMMA FinishStep == ASSUME FilterInv, FinishFilter PROVE FilterInv'
<1>1. UNCHANGED <<empty, m, bits, added, kind>> /\ stage' = "written" /\ stage = "build"
  BY DEF FinishFilter
<1>2. kind # "Bloom"
  BY <1>1 DEF FilterInv, FileIsPrefix
<1>3. file'.reach = "words" =>
        /\ ~empty
        /\ file'.m = m
        /\ \E n \in 0 .. NWords(m) : file'.words = FirstWords(n)
  BY DEF FinishFilter, NoBytes
<1>4. FilterTypeOK'
  BY <1>1 DEF FilterInv, FilterTypeOK, Words
<1>5. Recorded'
  BY <1>1 DEF FilterInv, Recorded, SetBy
<1>6. \A n : FirstWords(n)' = FirstWords(n)
  BY <1>1 DEF FirstWords
<1>7. FileIsPrefix'
  BY <1>1, <1>2, <1>3, <1>6 DEF FileIsPrefix, FirstWords
<1>. QED
  BY <1>4, <1>5, <1>7 DEF FilterInv

LEMMA OpenStep == ASSUME FilterInv, OpenFilter PROVE FilterInv'
<1>1. UNCHANGED <<empty, m, bits, added, file>> /\ stage' = "opened"
  BY DEF OpenFilter
<1>2. kind' = "Bloom" => file.reach = "words" /\ HoldsAll(file)
  BY DEF OpenFilter
<1>. QED
  BY <1>1, <1>2
  DEF FilterInv, FilterTypeOK, Words, Recorded, SetBy, FileIsPrefix, FirstWords, HoldsAll

\* Every step preserves the invariant.
LEMMA StepFilterInv == FilterInv /\ [FilterNext]_filterVars => FilterInv'
<1>. SUFFICES ASSUME FilterInv, [FilterNext]_filterVars PROVE FilterInv'
  OBVIOUS
<1>1. CASE FilterNext
  BY <1>1, AddHashStep, FinishStep, OpenStep DEF FilterNext
<1>2. CASE UNCHANGED filterVars
  BY <1>2
  DEF filterVars, FilterInv, FilterTypeOK, Words, Recorded, SetBy, FileIsPrefix, FirstWords,
      HoldsAll
<1>. QED
  BY <1>1, <1>2

\* What is read back: a whole filter holds the bits of every hash.
LEMMA InvNoFalseNegative == FilterInv => NoFalseNegative
<1>. SUFFICES ASSUME FilterInv, kind = "Bloom", NEW h \in added PROVE ContainsHash(h)
  BY DEF NoFalseNegative, ContainsHash
<1>1. /\ ~empty /\ m \in Nat /\ m > 0 /\ h \in HashValue
      /\ file.m = m /\ HoldsAll(file)
  BY DEF FilterInv, FilterTypeOK, FileIsPrefix
<1>2. PICK n \in 0 .. NWords(m) : file.words = FirstWords(n)
  BY DEF FilterInv, FileIsPrefix
<1>3. NWords(m) \in Nat
  BY <1>1, NWordsNat
<1>4. Len(FirstWords(n)) = n
  BY <1>2, <1>3 DEF FirstWords
<1>5. n = NWords(m)
  BY <1>1, <1>2, <1>3, <1>4 DEF HoldsAll
<1>6. file.words = [w \in 1 .. NWords(m) |-> bits[w - 1]]
  BY <1>2, <1>5 DEF FirstWords
<1>7. ASSUME NEW i \in SetBy(h) PROVE BitSet(i)
  <2>1. i \in 0 .. m - 1
    BY <1>1, SetByInside
  <2>2. i \div WordBits \in 0 .. NWords(m) - 1
    BY <1>1, <2>1, BitInWords
  <2>3. i % WordBits \in bits[i \div WordBits]
    BY <1>1 DEF FilterInv, Recorded
  <2>4. i \div WordBits + 1 \in 1 .. NWords(m) /\ (i \div WordBits + 1) - 1 = i \div WordBits
    BY <1>3, <2>2
  <2>5. file.words[i \div WordBits + 1] = bits[i \div WordBits]
    BY <1>6, <2>4
  <2>. QED
    BY <1>6, <2>3, <2>4, <2>5 DEF BitSet
<1>8. First(h) % m \in SetBy(h) /\ Second(h) % m \in SetBy(h) /\ Third(h) % m \in SetBy(h)
  BY DEF SetBy
<1>. QED
  BY <1>1, <1>7, <1>8 DEF ContainsHash

\* In every filter ever read, no hash that was added is reported absent: the claim of
\* bloom.rs:5, whatever of the file a writer left behind.
THEOREM FilterNeverLies == FilterSpec => []NoFalseNegative
<1>1. FilterInit => FilterInv
  BY InitFilterInv DEF FilterInit
<1>. QED
  BY <1>1, StepFilterInv, InvNoFalseNegative, PTL DEF FilterSpec
-----------------------------------------------------------------------------

(* A .kvei from its making to its use. *)

\* The filter's own facts: every key hashed so far is recorded, and a file is only
\* read when all keys are.
OwnKnows ==
  /\ buildSalt \in Salt \cup {NoSalt}
  /\ ~Own => stage # "build"
  /\ Own => \A k \in 0 .. hashed - 1 : hash[<<k, buildSalt>>] \in added
  /\ Own /\ stage # "build" => hashed = keyCount

\* What the call knows: nothing has been found before it, and the salt of the builder
\* is one it would accept.
CallKnows ==
  /\ ~called => ~usable /\ found = NoSalt /\ result = NoSalt /\ active = NoSalt
  /\ called => stage = "opened"
  /\ called /\ Own /\ usable /\ Sample(ValidateCap) \subseteq 0 .. keyCount - 1 =>
       buildSalt \in validating

KveiTypeOK ==
  /\ keyCount \in 0 .. MaxKeys
  /\ odd \in BOOLEAN /\ (odd => keyCount < MaxKeys)
  /\ indexed \in BOOLEAN
  /\ hash \in HashTables
  /\ hashed \in 0 .. keyCount
  /\ called \in BOOLEAN

KveiInv == IInv /\ FilterInv /\ KveiTypeOK /\ OwnKnows /\ CallKnows

\* The quotient is what Euclid says it is.
LEMMA DivUnique ==
  ASSUME NEW a \in Nat, NEW n \in Nat \ {0}, NEW q \in Nat, NEW r \in Nat,
         a = n * q + r, r < n
  PROVE  a \div n = q
<1>. DEFINE p == a \div n
            s == a % n
<1>1. a = n * p + s /\ p \in Int /\ s \in 0 .. n - 1
  BY SMT
<1>. HIDE DEF p, s
<1>2. \A x, y \in Int : x < y => n * x + n <= n * y
  BY SMT
<1>3. ~(p < q) /\ ~(q < p)
  BY <1>1, <1>2, SMT
<1>. QED
  BY <1>1, <1>3 DEF p

\* A sample is keys that sample_keys comes to.
LEMMA SampleKeys ==
  ASSUME Reach \in Nat, NEW n \in Nat
  PROVE  Sample(n) \subseteq 0 .. Reach - 1
<1>. DEFINE taken == IF n < Reach THEN n ELSE Reach
<1>1. taken \in Nat /\ taken <= Reach
  OBVIOUS
<1>2. ASSUME NEW s \in 0 .. taken - 1
      PROVE  (s * Reach) \div taken \in 0 .. Reach - 1
  <2>. DEFINE q == (s * Reach) \div taken
              r == (s * Reach) % taken
  <2>. HIDE DEF taken
  <2>1. s * Reach \in Nat /\ s * Reach < taken * Reach /\ taken > 0 /\ Reach > 0
    BY <1>1, SMT
  <2>2. s * Reach = taken * q + r /\ q \in Int /\ r \in 0 .. taken - 1
    BY <1>1, <2>1, SMT
  <2>. HIDE DEF q, r
  <2>3. \A x, y \in Int : x < y => taken * x + taken <= taken * y
    BY <1>1, <2>1, SMT
  <2>4. taken * 0 = 0
    BY <1>1, SMT
  <2>5. ~(q < 0) /\ ~(Reach <= q)
    <3>1. q < 0 => taken * q + taken <= 0
      BY <2>2, <2>3, <2>4
    <3>2. Reach <= q => taken * Reach <= taken * q
      BY <1>1, <2>2, <2>3, <2>1
    <3>3. taken * q \in Int /\ taken * Reach \in Int
      BY <1>1, <2>2
    <3>. QED
      BY <1>1, <2>1, <2>2, <3>1, <3>2, <3>3
  <2>. QED
    BY <2>2, <2>5 DEF q
<1>3. \A s \in 0 .. taken - 1 : s \in 0 .. Reach - 1
  BY <1>1
<1>. QED
  BY <1>2, <1>3 DEF Sample

\* The samples are the file's alone.
LEMMA SameSample ==
  ASSUME UNCHANGED <<keyCount, odd, indexed>>
  PROVE  Sample(ValidateCap)' = Sample(ValidateCap)
<1>1. Reach' = Reach
  BY DEF Reach
<1>. QED
  BY <1>1 DEF Sample

\* The 16 keys of the search are among the 64 of the validation, whether they are
\* spread over the file or the first ones, whatever number of keys there is.
LEMMA SampleOfSample ==
  ASSUME Reach \in Nat
  PROVE  Sample(SearchCap) \subseteq Sample(ValidateCap)
<1>. DEFINE a == IF SearchCap < Reach THEN SearchCap ELSE Reach
            b == IF ValidateCap < Reach THEN ValidateCap ELSE Reach
<1>1. PICK n \in 1 .. ValidateCap : ValidateCap = n * SearchCap
  BY CapAssumption
<1>2. SearchCap \in Nat \ {0} /\ ValidateCap \in Nat /\ n \in Nat \ {0}
  BY CapAssumption
<1>3. SearchCap <= ValidateCap
  BY <1>1, <1>2, SMT
<1>4. a \in Nat /\ b \in Nat /\ a <= b /\ b <= Reach
  BY <1>2, <1>3
<1>5. CASE ~indexed
  <2>1. Sample(SearchCap) = {s : s \in 0 .. a - 1}
    BY <1>5 DEF Sample
  <2>2. Sample(ValidateCap) = {s : s \in 0 .. b - 1}
    BY <1>5 DEF Sample
  <2>. QED
    BY <1>4, <2>1, <2>2
<1>6. CASE indexed
  <2>1. Sample(SearchCap) = {(s * Reach) \div a : s \in 0 .. a - 1}
    BY <1>6 DEF Sample
  <2>2. Sample(ValidateCap) = {(s * Reach) \div b : s \in 0 .. b - 1}
    BY <1>6 DEF Sample
  <2>3. CASE ValidateCap < Reach
    <3>1. a = SearchCap /\ b = ValidateCap
      BY <1>2, <1>3, <2>3
    <3>2. ASSUME NEW s \in 0 .. SearchCap - 1
          PROVE  /\ n * s \in 0 .. ValidateCap - 1
                 /\ (s * Reach) \div SearchCap = ((n * s) * Reach) \div ValidateCap
      <4>. DEFINE x == s * Reach
                  q == x \div SearchCap
                  r == x % SearchCap
      <4>1. x \in Nat
        BY <1>2, SMT
      <4>2. x = SearchCap * q + r /\ q \in Int /\ r \in 0 .. SearchCap - 1
        BY <1>2, <4>1, SMT
      <4>3. q \in Nat
        BY <1>2, <4>1, SMT
      <4>4. n * s \in Nat /\ n * s < n * SearchCap
        BY <1>2, SMT
      <4>5. n * r \in Nat /\ n * r < n * SearchCap
        BY <1>2, <4>2, SMT
      <4>6. (n * s) * Reach = n * x
        BY <1>2, SMT
      <4>. HIDE DEF x, q, r
      <4>7. n * x = (n * SearchCap) * q + n * r
        BY <1>2, <4>1, <4>2, <4>3, SMT
      <4>8. (n * x) \div ValidateCap = q
        <5>1. n * x \in Nat
          BY <1>2, <4>1, SMT
        <5>2. n * x = ValidateCap * q + n * r
          BY <1>1, <4>7
        <5>3. n * r < ValidateCap /\ ValidateCap \in Nat \ {0}
          BY <1>1, <1>2, <1>3, <4>5
        <5>. QED
          BY <4>3, <4>5, <5>1, <5>2, <5>3, DivUnique
      <4>9. n * s \in 0 .. ValidateCap - 1
        BY <1>1, <1>2, <4>4
      <4>. QED
        BY <4>6, <4>8, <4>9 DEF q, x
    <3>. QED
      BY <2>1, <2>2, <3>1, <3>2
  <2>4. CASE ~(ValidateCap < Reach)
    <3>1. b = Reach
      BY <2>4
    <3>2. \A s \in 0 .. Reach - 1 : (s * Reach) \div Reach = s
      <4>. SUFFICES ASSUME NEW s \in 0 .. Reach - 1
                    PROVE  (s * Reach) \div Reach = s
        OBVIOUS
      <4>1. s * Reach \in Nat /\ s * Reach = Reach * s + 0
        BY SMT
      <4>. QED
        BY <4>1, DivUnique
    <3>3. Sample(SearchCap) \subseteq 0 .. Reach - 1
      BY <1>2, SampleKeys
    <3>. QED
      BY <2>2, <3>1, <3>2, <3>3
  <2>. QED
    BY <2>3, <2>4
<1>. QED
  BY <1>5, <1>6

-----------------------------------------------------------------------------

LEMMA KveiInitInv == KveiInit => KveiInv
<1>. SUFFICES ASSUME KveiInit PROVE KveiInv
  OBVIOUS
<1>1. keyCount \in 0 .. MaxKeys /\ keyCount \in Nat
  BY HashAssumption DEF KveiInit
<1>2. IInv
  <2>1. asked = 0 /\ asked \in Nat
    BY DEF KveiInit, NoCall
  <2>2. Threads \in Nat \ {0} /\ Workers \subseteq Salt
    BY <2>1, ThreadsRange
  <2>3. \A w \in Workers : w \in Nat /\ w % Threads = w
    BY <2>2, ClassRange DEF Workers
  <2>4. TypeOK
    <3>1. hints \in Seq(Salt)
      BY DEF KveiInit, NoCall
    <3>. QED
      BY <2>1, <2>2, <3>1 DEF KveiInit, NoCall, TypeOK
  <2>5. Reports = {} /\ FoundIsLeastReport
    BY DEF KveiInit, NoCall, Reports, FoundIsLeastReport
  <2>6. Searched
    BY <2>3 DEF KveiInit, NoCall, Searched
  <2>7. CallerKnows /\ ActiveIsValidated
    BY DEF KveiInit, NoCall, CallerKnows, ActiveIsValidated
  <2>. QED
    BY <2>4, <2>5, <2>6, <2>7 DEF IInv
<1>a. KveiTypeOK /\ CallKnows
  <2>1. hashed = 0 /\ called = FALSE /\ hash \in HashTables
    BY DEF KveiInit
  <2>2. hashed \in 0 .. keyCount
    BY <1>1, <2>1
  <2>3. usable = FALSE /\ found = NoSalt /\ result = NoSalt /\ active = NoSalt
    BY DEF KveiInit, NoCall
  <2>6. odd \in BOOLEAN /\ (odd => keyCount < MaxKeys) /\ indexed \in BOOLEAN
    BY DEF KveiInit
  <2>4. KveiTypeOK
    BY <1>1, <2>1, <2>2, <2>6, Zenon DEF KveiTypeOK
  <2>5. CallKnows
    BY <2>1, <2>3, Zenon DEF CallKnows
  <2>. QED
    BY <2>4, <2>5
<1>3. CASE buildSalt \in Salt /\ NewFilter(keyCount)
  <2>1. FilterInv
    BY <1>1, <1>3, InitFilterInv
  <2>2. OwnKnows
    BY <1>3, TopSaltAssumption DEF OwnKnows, Own, KveiInit, NewFilter, Salt, NoSalt
  <2>. QED
    BY <1>2, <1>a, <2>1, <2>2 DEF KveiInv
<1>4. CASE buildSalt = NoSalt /\ ForeignFilter
  <2>1. FilterInv
    <3>1. m \in Nat /\ m > 0 /\ empty = FALSE /\ stage = "written" /\ added = {}
      BY <1>4, SizesAssumption DEF ForeignFilter
    <3>2. bits \in Words
      BY <1>4 DEF ForeignFilter, Words
    <3>3. NWords(m) \in 0 .. NWords(m)
      BY <3>1, NWordsNat
    <3>4. /\ file.reach = "words" /\ file.m = m /\ file.words = FirstWords(NWords(m))
          /\ kind = "Unsupported"
      BY <1>4 DEF ForeignFilter
    <3>. QED
      BY <3>1, <3>2, <3>3, <3>4 DEF FilterInv, FilterTypeOK, Recorded, FileIsPrefix
  <2>2. OwnKnows
    BY <1>4 DEF OwnKnows, Own, ForeignFilter
  <2>. QED
    BY <1>2, <1>a, <2>1, <2>2 DEF KveiInv
<1>. QED
  BY <1>3, <1>4 DEF KveiInit

\* Building the filter: the next key's hash is added to those before it.
LEMMA AddNextKeyInv == ASSUME KveiInv, AddNextKey PROVE KveiInv'
<1>1. /\ hashed < keyCount /\ AddHash(hash[<<hashed, buildSalt>>]) /\ hashed' = hashed + 1
      /\ UNCHANGED <<vars, data, called>> /\ stage = "build" /\ UNCHANGED stage
  BY DEF AddNextKey, AddHash
<1>2. UNCHANGED <<keyCount, odd, indexed, hash, buildSalt, called>> /\ (Own)' = Own
  BY <1>1 DEF data, Own
<1>3. keyCount \in 0 .. MaxKeys /\ hashed \in Nat /\ Own /\ buildSalt \in Salt
  BY <1>1 DEF KveiInv, KveiTypeOK, OwnKnows, Own
<1>4. hash[<<hashed, buildSalt>>] \in HashValue
  <2>1. <<hashed, buildSalt>> \in (0 .. MaxKeys - 1) \X Salt
    BY <1>1, <1>3, HashAssumption
  <2>2. hash \in [(0 .. MaxKeys - 1) \X Salt -> HashValue]
    BY HashAssumption DEF KveiInv, KveiTypeOK
  <2>. QED
    BY <2>1, <2>2
<1>5. FilterInv'
  BY <1>1, <1>4, AddHashStep DEF KveiInv
<1>6. IInv'
  BY <1>1, StutterInv DEF KveiInv
<1>7. KveiTypeOK'
  BY <1>1, <1>2, <1>3 DEF KveiInv, KveiTypeOK
<1>8. OwnKnows'
  <2>1. \A k \in 0 .. hashed' - 1 : hash[<<k, buildSalt>>] \in added'
    <3>. SUFFICES ASSUME NEW k \in 0 .. hashed' - 1
                  PROVE  hash[<<k, buildSalt>>] \in added'
      OBVIOUS
    <3>1. added' = added \cup {hash[<<hashed, buildSalt>>]}
      BY <1>1 DEF AddHash
    <3>2. CASE k \in 0 .. hashed - 1
      BY <1>3, <3>1, <3>2 DEF KveiInv, OwnKnows
    <3>3. CASE k = hashed
      BY <3>1, <3>3
    <3>. QED
      BY <1>1, <1>3, <3>2, <3>3
  <2>. QED
    BY <1>1, <1>2, <1>3, <2>1 DEF OwnKnows, Salt, NoSalt
<1>9. CallKnows'
  <2>1. ~called
    BY <1>1 DEF KveiInv, CallKnows
  <2>. QED
    BY <1>1, <1>2, <2>1 DEF KveiInv, CallKnows, vars, NoSalt
<1>. QED
  BY <1>5, <1>6, <1>7, <1>8, <1>9 DEF KveiInv

\* Writing and opening the file: of an own filter only with all its keys.
LEMMA FileStepInv == ASSUME KveiInv, WriteFilter \/ ReadFilter PROVE KveiInv'
<1>1. /\ UNCHANGED <<vars, data, hashed, called>> /\ UNCHANGED added
      /\ stage' # "build"
      /\ stage = "build" => hashed = keyCount
      /\ stage \in {"build", "written"}
  BY DEF WriteFilter, ReadFilter, FinishFilter, OpenFilter
<1>2. UNCHANGED <<keyCount, odd, indexed, hash, buildSalt>> /\ (Own)' = Own
  BY <1>1 DEF data, Own
<1>3. FilterInv'
  BY FinishStep, OpenStep DEF KveiInv, WriteFilter, ReadFilter
<1>4. IInv'
  BY <1>1, StutterInv DEF KveiInv
<1>5. KveiTypeOK'
  BY <1>1, <1>2 DEF KveiInv, KveiTypeOK
<1>6. OwnKnows'
  BY <1>1, <1>2 DEF KveiInv, OwnKnows, Salt, NoSalt
<1>7. CallKnows'
  <2>1. ~called
    BY <1>1 DEF KveiInv, CallKnows
  <2>. QED
    BY <1>1, <1>2, <2>1 DEF KveiInv, CallKnows, vars, NoSalt
<1>. QED
  BY <1>3, <1>4, <1>5, <1>6, <1>7 DEF KveiInv

\* The call: the samples are keys that were added, so the filter holds them under the
\* builder's salt.
LEMMA CallInv == ASSUME KveiInv, Call PROVE KveiInv'
<1>1. /\ stage = "opened" /\ ~called /\ called' = TRUE
      /\ main' = "hints" /\ hints' \in HintLists /\ asked' \in Asked
      /\ UNCHANGED <<found, result, active>>
      /\ UNCHANGED <<filterVars, data, hashed>>
      /\ salt' = [w \in Workers' |-> w]
      /\ pc' = [w \in Workers' |-> "load"]
  BY DEF Call
<1>2. usable' = (kind = "Bloom" /\ Reach > 0)
  BY Zenon DEF Call
<1>3. /\ passing' = PassingFor(Sample(SearchCap))
      /\ validating' = PassingFor(Sample(ValidateCap))
  BY DEF Call
<1>4. UNCHANGED <<keyCount, odd, indexed, hash, buildSalt>> /\ (Own)' = Own
  BY <1>1 DEF data, Own
<1>5. Reach \in Nat
  <2>1. keyCount \in Nat /\ keyCount + 1 \in Nat
    BY HashAssumption DEF KveiInv, KveiTypeOK
  <2>. QED
    BY <2>1 DEF Reach
<1>6. passing' \subseteq Salt /\ validating' \subseteq passing'
  BY <1>3, <1>5, SampleOfSample DEF PassingFor
<1>7. found = NoSalt /\ result = NoSalt /\ active = NoSalt
  BY <1>1 DEF KveiInv, CallKnows
<1>8. IInv'
  <2>1. TypeOK' /\ asked' \in Nat /\ Threads' \in Nat \ {0}
    <3>1. asked' \in Nat
      BY <1>1, AskedAssumption
    <3>2. Threads' \in Nat \ {0} /\ Workers' \subseteq Salt
      <4>1. PICK t : t = Threads'
        OBVIOUS
      <4>2. t \in Nat \ {0} /\ t <= TopSalt + 1
        BY <3>1, <4>1, TopSaltAssumption, MaxThreadsAssumption DEF Threads
      <4>3. Workers' = 0 .. t - 1
        BY <4>1 DEF Workers
      <4>4. Workers' \subseteq Salt
        BY <4>2, <4>3, TopSaltAssumption DEF Salt
      <4>. QED
        BY <4>1, <4>2, <4>4
    <3>3. hints' \in Seq(Salt)
      BY <1>1, HintListsAssumption DEF Salt
    <3>4. usable' \in BOOLEAN
      BY <1>2, Zenon
    <3>5. salt' \in [Workers' -> Salt] /\ pc' \in [Workers' -> {"load"}]
      BY <1>1, <3>2
    <3>. QED
      BY <1>1, <1>6, <1>7, <3>1, <3>2, <3>3, <3>4, <3>5 DEF TypeOK, Salt, NoSalt
  <2>2. (Reports = {})' /\ FoundIsLeastReport'
    BY <1>1, <1>7 DEF Reports, FoundIsLeastReport, NoSalt
  <2>3. Searched'
    <3>1. PICK t : t = Threads'
      OBVIOUS
    <3>2. Workers' = 0 .. t - 1 /\ t \in Nat \ {0}
      BY <2>1, <3>1 DEF Workers
    <3>3. passing' \subseteq Nat
      BY <1>6, TopSaltAssumption DEF Salt
    <3>4. ASSUME NEW w \in 0 .. t - 1
          PROVE  w % t = w /\ \A s \in passing' : s % t = w => w <= s
      <4>0. w \in Nat /\ w < t
        BY <3>2
      <4>1. w % t = w
        BY <3>2, <4>0, ClassRange
      <4>2. ASSUME NEW s \in passing', s % t = w PROVE w <= s
        <5>1. s < t => s % t = s
          BY <3>2, <3>3, ClassRange
        <5>. QED
          BY <3>2, <3>3, <4>2, <5>1
      <4>. QED
        BY <4>1, <4>2
    <3>. QED
      BY <1>1, <3>1, <3>2, <3>4 DEF Searched
  <2>4. CallerKnows' /\ ActiveIsValidated'
    BY <1>1, <1>7 DEF CallerKnows, ActiveIsValidated, NoSalt
  <2>. QED
    BY <2>1, <2>2, <2>3, <2>4 DEF IInv
<1>9. ASSUME Own, Sample(ValidateCap) \subseteq 0 .. keyCount - 1
      PROVE  buildSalt \in validating'
  <2>1. /\ hashed = keyCount /\ buildSalt \in Salt
        /\ \A k \in 0 .. keyCount - 1 : hash[<<k, buildSalt>>] \in added
    BY <1>1, <1>9 DEF KveiInv, OwnKnows, Own
  <2>2. \A h \in added : ContainsHash(h)
    BY <1>1, InvNoFalseNegative DEF KveiInv, NoFalseNegative
  <2>5. \A k \in Sample(ValidateCap) : ContainsHash(hash[<<k, buildSalt>>])
    BY <1>9, <2>1, <2>2
  <2>. QED
    BY <1>3, <2>1, <2>5 DEF PassingFor
<1>10. FilterInv'
  <2>1. UNCHANGED filterVars
    BY <1>1
  <2>. QED
    BY <2>1, StepFilterInv DEF KveiInv
<1>11. UNCHANGED <<stage, added, hashed>>
  BY <1>1 DEF filterVars
<1>12. KveiTypeOK'
  BY <1>1, <1>4, <1>11 DEF KveiInv, KveiTypeOK
<1>13. OwnKnows'
  BY <1>4, <1>11 DEF KveiInv, OwnKnows, Salt, NoSalt
<1>14. CallKnows'
  <2>1. Sample(ValidateCap)' = Sample(ValidateCap)
    BY <1>4, SameSample
  <2>. QED
    BY <1>1, <1>4, <1>9, <1>11, <2>1 DEF CallKnows
<1>. QED
  BY <1>8, <1>10, <1>12, <1>13, <1>14 DEF KveiInv

\* The search changes nothing of what the call took from the filter.
LEMMA SearchInv == ASSUME KveiInv, Search PROVE KveiInv'
<1>1. called /\ UNCHANGED <<filterVars, data, hashed, called>>
  BY DEF Search
<1>2. UNCHANGED <<keyCount, odd, indexed, hash, buildSalt, stage, added>> /\ (Own)' = Own
  BY <1>1 DEF data, Own, filterVars
<1>3. UNCHANGED <<usable, validating>>
  BY DEF Search, Caller, NoFilter, TakeHint, Spawn, Join, Validate, Worker, Load, Report,
         Advance, Exhaust, given
<1>4. IInv'
  BY WorkerInv, CallerInv DEF KveiInv, Search
<1>5. FilterInv'
  BY <1>1, StepFilterInv DEF KveiInv
<1>6. KveiTypeOK' /\ OwnKnows'
  BY <1>1, <1>2 DEF KveiInv, KveiTypeOK, OwnKnows, Salt, NoSalt
<1>7. CallKnows'
  BY <1>1, <1>2, <1>3, SameSample DEF KveiInv, CallKnows
<1>. QED
  BY <1>4, <1>5, <1>6, <1>7 DEF KveiInv

LEMMA KveiStutterInv == ASSUME KveiInv, UNCHANGED kveiVars PROVE KveiInv'
<1>1. /\ UNCHANGED <<vars, filterVars, data, hashed, called>>
      /\ UNCHANGED <<keyCount, odd, indexed, hash, buildSalt, stage, added>> /\ (Own)' = Own
      /\ UNCHANGED <<usable, validating, found, result, active>>
  BY DEF kveiVars, data, Own, filterVars, vars
<1>2. IInv'
  BY <1>1, StutterInv DEF KveiInv
<1>3. FilterInv'
  BY <1>1, StepFilterInv DEF KveiInv
<1>. QED
  BY <1>1, <1>2, <1>3, SameSample DEF KveiInv, KveiTypeOK, OwnKnows, CallKnows, Salt, NoSalt

\* The invariant of the composed specification: whatever is built, however much of it
\* is written, and however the workers interleave.
THEOREM KveiInvariance == KveiSpec => []KveiInv
<1>1. KveiInit => KveiInv
  BY KveiInitInv
<1>2. KveiInv /\ [KveiNext]_kveiVars => KveiInv'
  BY AddNextKeyInv, FileStepInv, CallInv, SearchInv, KveiStutterInv DEF KveiNext, Rest
<1>. QED
  BY <1>1, <1>2, PTL DEF KveiSpec

\* What is proved of the search for any two sets of salts holds for the sets a real
\* filter makes: the least report wins, a salt is found iff one passes, hints first,
\* and lookups only use a validated salt.
THEOREM KveiSearchCorrect ==
  KveiSpec => [](TypeOK /\ FoundIsLeastReport /\ FoundIffOneExists /\ HintsComeFirst
                   /\ ActiveIsValidated)
<1>1. KveiInv => TypeOK /\ FoundIsLeastReport /\ FoundIffOneExists /\ HintsComeFirst
                   /\ ActiveIsValidated
  BY InvFoundIff, InvHintsFirst DEF KveiInv, IInv
<1>. QED
  BY <1>1, KveiInvariance, PTL

\* No filter, also none of another program, denies a hash that was added to it.
THEOREM KveiFilterNeverLies == KveiSpec => []NoFalseNegative
<1>1. KveiInv => NoFalseNegative
  BY InvNoFalseNegative DEF KveiInv
<1>. QED
  BY <1>1, KveiInvariance, PTL

\* A filter of this crate holds its samples under its builder's salt, for any keys and
\* any hash function, and only a salt that passed the search's sample by chance leaves
\* it unused.
THEOREM OwnFilterIsAccepted == KveiSpec => []OwnFilterAccepted
<1>1. KveiInv => OwnFilterAccepted
  <2>. SUFFICES ASSUME KveiInv, called, Own, usable,
                       Sample(ValidateCap) \subseteq 0 .. keyCount - 1
                PROVE  /\ buildSalt \in validating
                       /\ main = "done" =>
                            result # NoSalt /\ (active = NoSalt => result \in passing \ validating)
    BY DEF OwnFilterAccepted
  <2>1. buildSalt \in validating /\ validating \subseteq passing
    BY DEF KveiInv, CallKnows, IInv, TypeOK
  <2>2. main = "done" => result # NoSalt /\ result \in passing
    BY <2>1, InvFoundIff DEF KveiInv, FoundIffOneExists
  <2>3. main = "done" /\ result \in validating => active # NoSalt
    BY <2>2 DEF KveiInv, IInv, CallerKnows
  <2>. QED
    BY <2>1, <2>2, <2>3
<1>. QED
  BY <1>1, KveiInvariance, PTL
=============================================================================
