------------------------------ MODULE SaltSearch ------------------------------
(***************************************************************************)
(* Enabling a .kvei filter with Salt::Find (reader.rs,                     *)
(* enable_bloom_with_hints and find_salt_with_hints): the hints are tried  *)
(* in order, then worker threads share out all 32-bit salts by residue and *)
(* race to report one that the sampled keys pass; the salt found is        *)
(* validated once more, against more samples, before lookups use it.       *)
(*                                                                         *)
(* What hashing and the filter do with a salt is the choice of the two     *)
(* sets passing and validating.  The search samples 16 keys and the        *)
(* validation 64 of the same file; the smaller sample is always part of    *)
(* the larger, so validating is a subset of passing.                       *)
(***************************************************************************)
EXTENDS Integers, Sequences

CONSTANTS
  TopSalt,     \* u32::MAX
  MaxThreads,  \* the upper end of the clamp, 256
  Asked,       \* thread counts a caller asks for
  HintLists    \* sequences of salts a caller hints at

ASSUME TopSaltAssumption == TopSalt \in Nat
ASSUME MaxThreadsAssumption == MaxThreads \in 1 .. TopSalt + 1
ASSUME AskedAssumption == Asked \subseteq Nat
ASSUME HintListsAssumption == HintLists \subseteq Seq(0 .. TopSalt)

VARIABLES
  usable,      \* there is an accelerating filter and at least one key to sample
  passing,     \* the salts under which the filter holds all keys of the search's sample
  validating,  \* ... of the validation's sample
  hints,       \* the hints, in the order they are tried
  asked,       \* the thread count asked for
  main,        \* the caller: "hints", "search", "validate" or "done"
  found,       \* the shared AtomicU64
  salt,        \* salt[w]: the candidate of worker w
  pc,          \* pc[w]: "load", "test", or why worker w returned
  result,      \* what find_salt_with_hints returned
  active       \* the salt lookups use from now on

vars == <<usable, passing, validating, hints, asked, main, found, salt, pc, result, active>>

given == <<usable, passing, validating, hints, asked>>

Salt == 0 .. TopSalt

\* Mutant: the sentinel is the largest salt.
SentinelU32 == TopSalt

\* u64::MAX, of which only matters that it is greater than every salt.
NoSalt == TopSalt + 1

\* The number of workers: the count asked for, clamped to 1 .. MaxThreads.
Threads ==
  IF asked < 1 THEN 1 ELSE IF asked > MaxThreads THEN MaxThreads ELSE asked

Workers == 0 .. Threads - 1

Init ==
  /\ usable \in BOOLEAN
  /\ passing \in SUBSET Salt
  /\ validating \in SUBSET passing
  /\ hints \in HintLists
  /\ asked \in Asked
  /\ main = "hints"
  /\ found = NoSalt
  /\ salt = [w \in Workers |-> w]
  /\ pc = [w \in Workers |-> "load"]
  /\ result = NoSalt
  /\ active = NoSalt

NoFilter ==
  /\ main = "hints"
  /\ ~usable
  /\ main' = "done"
  /\ UNCHANGED <<given, found, salt, pc, result, active>>

GoodHints == {i \in DOMAIN hints : hints[i] \in passing}

\* Mutant: any hint that passes will do.
AnyHint(i) == i \in GoodHints

\* iter().find: the earliest of the hints that pass.
FirstHint(i) == i \in GoodHints /\ \A j \in GoodHints : i <= j

TakeHint ==
  /\ main = "hints"
  /\ usable
  /\ \E i \in DOMAIN hints : FirstHint(i) /\ result' = hints[i]
  /\ main' = "validate"
  /\ UNCHANGED <<given, found, salt, pc, active>>

\* No hint passes: the workers start, worker t at salt t.
Spawn ==
  /\ main = "hints"
  /\ usable
  /\ GoodHints = {}
  /\ main' = "search"
  /\ UNCHANGED <<given, found, salt, pc, result, active>>

\* The load at the head of a worker's loop.  It is Relaxed: it may miss a
\* report another worker has made already.
Load(w) ==
  /\ main = "search"
  /\ pc[w] = "load"
  /\ \E seen \in {found, NoSalt} :
       pc' = [pc EXCEPT ![w] = IF seen # NoSalt THEN "stopped" ELSE "test"]
  /\ UNCHANGED <<given, main, found, salt, result, active>>

\* Mutant: the wrong read-modify-write.
FetchAdd(s) == found + s

\* Mutant: a plain store, which forgets an earlier report.
StoreLast(s) == s

\* fetch_min
FetchMin(s) == IF s < found THEN s ELSE found

Report(w) ==
  /\ main = "search"
  /\ pc[w] = "test"
  /\ salt[w] \in passing
  /\ found' = FetchMin(salt[w])
  /\ pc' = [pc EXCEPT ![w] = "reported"]
  /\ UNCHANGED <<given, main, salt, result, active>>

\* Mutant: the last stride is not taken.
StrideShort(s) == s + Threads < TopSalt

\* checked_add: the next candidate of the same worker is a u32.
Strides(s) == s + Threads <= TopSalt

\* Mutant: saturating_add, which never runs out.
AdvanceSaturating(w) ==
  /\ main = "search"
  /\ pc[w] = "test"
  /\ salt[w] \notin passing
  /\ salt' = [salt EXCEPT ![w] = IF Strides(@) THEN @ + Threads ELSE TopSalt]
  /\ pc' = [pc EXCEPT ![w] = "load"]
  /\ UNCHANGED <<given, main, found, result, active>>

\* The candidate fails: on to the next one, while it is a u32.
Advance(w) ==
  /\ main = "search"
  /\ pc[w] = "test"
  /\ salt[w] \notin passing
  /\ Strides(salt[w])
  /\ salt' = [salt EXCEPT ![w] = (@ + Threads) % (TopSalt + 1)]
  /\ pc' = [pc EXCEPT ![w] = "load"]
  /\ UNCHANGED <<given, main, found, result, active>>

Exhaust(w) ==
  /\ main = "search"
  /\ pc[w] = "test"
  /\ salt[w] \notin passing
  /\ ~Strides(salt[w])
  /\ pc' = [pc EXCEPT ![w] = "exhausted"]
  /\ UNCHANGED <<given, main, found, salt, result, active>>

Returned(w) == pc[w] \in {"stopped", "reported", "exhausted"}

\* The scope ends when every worker has returned; then found is read.
Join ==
  /\ main = "search"
  /\ \A w \in Workers : Returned(w)
  /\ result' = found
  /\ main' = IF found # NoSalt THEN "validate" ELSE "done"
  /\ UNCHANGED <<given, found, salt, pc, active>>

\* Mutant: what the search found is not validated again.
ValidatedOnSearch == passing

\* The salts enable_bloom_with_hints accepts.
Validated == validating

Validate ==
  /\ main = "validate"
  /\ active' = IF result \in Validated THEN result ELSE active
  /\ main' = "done"
  /\ UNCHANGED <<given, found, salt, pc, result>>

\* Both calls have returned.
Finished == main = "done" /\ UNCHANGED vars

Worker(w) == Load(w) \/ Report(w) \/ Advance(w) \/ Exhaust(w)

Caller == NoFilter \/ TakeHint \/ Spawn \/ Join \/ Validate

Next == Caller \/ (\E w \in Workers : Worker(w)) \/ Finished

Spec == Init /\ [][Next]_vars

-----------------------------------------------------------------------------

TypeOK ==
  /\ usable \in BOOLEAN
  /\ passing \subseteq Salt
  /\ validating \subseteq passing
  /\ hints \in Seq(Salt)
  /\ asked \in Nat
  /\ main \in {"hints", "search", "validate", "done"}
  /\ found \in Salt \cup {NoSalt}
  /\ salt \in [Workers -> Salt]
  /\ pc \in [Workers -> {"load", "test", "stopped", "reported", "exhausted"}]
  /\ result \in Salt \cup {NoSalt}
  /\ active \in Salt \cup {NoSalt}

Reports == {salt[w] : w \in {v \in Workers : pc[v] = "reported"}}

\* The shared cell is the smallest of all reports made so far, in whatever order
\* the workers made them.
FoundIsLeastReport ==
  /\ found = NoSalt <=> Reports = {}
  /\ found # NoSalt => found \in Reports /\ \A s \in Reports : found <= s

\* The search returns a salt exactly when some salt passes the sample, however
\* the workers interleave, whatever their number, at both ends of the 32 bits
\* (find_salt: "Returns None if ... no salt validates").
FoundIffOneExists ==
  main \in {"validate", "done"} /\ usable =>
    /\ result # NoSalt => result \in passing
    /\ result = NoSalt => passing = {}

\* A passing hint is preferred to the search, an earlier one to a later one; a
\* salt the search returns is the smallest passing one of its residue class.
HintsComeFirst ==
  main \in {"validate", "done"} /\ result # NoSalt =>
    IF GoodHints # {}
    THEN \E i \in GoodHints :
           result = hints[i] /\ \A j \in 1 .. i - 1 : hints[j] \notin passing
    ELSE \A s \in passing : s % Threads = result % Threads => result <= s

\* Lookups never use a salt that fails the larger sample, although the search
\* accepts salts on the smaller one.
ActiveIsValidated == active # NoSalt => active \in validating

-----------------------------------------------------------------------------

(* The inductive invariant. *)

\* A worker stays in its residue class, and the class holds no passing salt below
\* its candidate; what it returned for is so.
Searched ==
  \A w \in Workers :
    /\ salt[w] % Threads = w
    /\ \A s \in passing : s % Threads = w => salt[w] <= s
    /\ pc[w] = "stopped" => found # NoSalt
    /\ pc[w] = "reported" => salt[w] \in passing
    /\ pc[w] = "exhausted" => salt[w] \notin passing /\ salt[w] + Threads > TopSalt

\* What the caller knows at each point.
CallerKnows ==
  /\ main = "hints" => found = NoSalt /\ result = NoSalt /\ \A w \in Workers : pc[w] = "load"
  /\ main = "search" => usable /\ GoodHints = {}
  /\ main \in {"validate", "done"} /\ usable =>
       \/ \E i \in DOMAIN hints : FirstHint(i) /\ result = hints[i]
       \/ /\ GoodHints = {}
          /\ result = found
          /\ \A w \in Workers : Returned(w)
  /\ main = "validate" => usable /\ result # NoSalt
  /\ main \in {"hints", "search", "validate"} => active = NoSalt
  /\ main = "done" /\ result \in validating => active = result
  /\ ~usable => result = NoSalt

IInv == TypeOK /\ FoundIsLeastReport /\ Searched /\ CallerKnows /\ ActiveIsValidated
=============================================================================
