------------------------------- MODULE Memlock -------------------------------
(***************************************************************************)
(* Pinning the files of a stack in RAM (lock_index, lock_all and their     *)
(* opposites in reader.rs and stack.rs) under the process-wide limit       *)
(* RLIMIT_MEMLOCK (util.rs), which the first lock raises once and          *)
(* raise_memlock_limit raises on request, both by reading it and then      *)
(* setting it.  Threads share the stack.                                   *)
(*                                                                         *)
(* What a call preloads and advises is left out: the kernel may evict a    *)
(* preloaded page at any time, so nothing later depends on it.  getrlimit  *)
(* does not fail.  A reader on its own is a stack of one.                  *)
(***************************************************************************)
EXTENDS Integers, FiniteSets, FiniteSetsExt

CONSTANTS
  Thread,
  Readers,     \* the number of readers of the stack
  Size,        \* Size[k]: the bytes of a file of kind k
  Limits,      \* the values the limit may start with
  Wants,       \* arguments of raise_memlock_limit
  MaxCalls     \* calls made altogether: bounds the behaviours, not in the code

Reader == 1 .. Readers

\* The three files of a reader, numbered in the order in which they are locked.
Bt == 1
Kvei == 2
Kv == 3
Mapping == Reader \X {Bt, Kvei, Kv}

ASSUME ReadersAssumption == Readers \in Nat \ {0}
ASSUME SizeAssumption == Size \in [{Bt, Kvei, Kv} -> Nat]
ASSUME LimitsAssumption == Limits \subseteq Nat /\ Wants \subseteq Nat /\ MaxCalls \in Nat

VARIABLES
  present,     \* the mappings there are; a .kv always is
  active,      \* the readers whose filter has been enabled
  privileged,  \* the process may raise its hard limit
  soft, hard,  \* RLIMIT_MEMLOCK
  once,        \* the OnceLock of raise_memlock_soft_once: "new", "running", "done"
  pinned,      \* the mappings pinned by mlock
  doing,       \* doing[t]: where thread t is in its call
  call,        \* call[t]: the kind of call it makes, or made last
  todo,        \* todo[t]: the mappings the call has still to handle
  want,        \* want[t]: the argument of raise_memlock_limit
  seen,        \* seen[t]: the soft and hard limit it has read
  answer,       \* answer[t]: what its last call returned
  calls,       \* the calls that may still be made
  promised     \* promised[t]: for the properties, see Lock and Unlock below

lockVars == <<present, active, privileged, soft, hard, once, pinned, doing, call, todo,
              want, seen, answer, calls, promised>>

process == <<present, active, privileged>>

LockInit ==
  /\ \E ks \in SUBSET {Bt, Kvei} : present = Reader \X (ks \cup {Kv})
  /\ active \in SUBSET {r \in Reader : <<r, Kvei>> \in present}
  /\ privileged \in BOOLEAN
  /\ soft \in Limits
  /\ hard \in {h \in Limits : soft <= h}
  /\ once = "new"
  /\ pinned = {}
  /\ doing = [t \in Thread |-> "idle"]
  /\ call = [t \in Thread |-> "none"]
  /\ todo = [t \in Thread |-> {}]
  /\ want = [t \in Thread |-> 0]
  /\ seen = [t \in Thread |-> <<0, 0>>]
  /\ answer = [t \in Thread |-> "none"]
  /\ calls = MaxCalls
  /\ promised = [t \in Thread |-> {}]

\* What lock_index pins: the .bt, and the .kvei if its filter is active.
IndexToLock == {m \in present : m[2] = Bt \/ (m[2] = Kvei /\ m[1] \in active)}

\* What unlock_index releases: the .kvei whether or not its filter is active.
IndexToUnlock == {m \in present : m[2] # Kv}

\* Mutant: lock_all forgets the data file.
AllButData == IndexToLock

AllToLock == IndexToLock \cup {m \in present : m[2] = Kv}

\* Mutant: unlock_all releases what lock_index pins.
AllToUnlockIndex == IndexToUnlock

AllToUnlock == present

Locks(kind) == CASE kind = "lock_index" -> IndexToLock
                 [] kind = "lock_all" -> AllToLock

Unlocks(kind) == CASE kind = "unlock_index" -> IndexToUnlock
                   [] kind = "unlock_all" -> AllToUnlock

\* What the caller of each of them relies on: "pin all of it in RAM", except that a
\* filter that is not in use is never read.
Promise(kind) ==
  CASE kind = "lock_index" -> {m \in present : m[2] # Kv /\ (m[2] = Kvei => m[1] \in active)}
    [] kind = "lock_all" -> {m \in present : m[2] = Kvei => m[1] \in active}
    [] kind = "unlock_index" -> {m \in present : m[2] # Kv}
    [] kind = "unlock_all" -> present

\* The order in which a call goes through the files: reader by reader, and in
\* each reader the .bt, the .kvei, the .kv.
Earliest(m, ms) ==
  m \in ms /\ \A n \in ms : m[1] < n[1] \/ (m[1] = n[1] /\ m[2] <= n[2])

\* Another thread is in a call of one of these kinds.
Others(t, kinds) == \E u \in Thread \ {t} : doing[u] # "idle" /\ call[u] \in kinds

LockCalls == {"lock_index", "lock_all"}
UnlockCalls == {"unlock_index", "unlock_all"}

\* A call starts.  promised[t] is the set of mappings thread t may rely on once
\* its call returns Ok: pinned after a lock, released after an unlock, as long as
\* no call of the opposite kind runs at the same time or starts later.
Lock(t, kind) ==
  /\ doing[t] = "idle" /\ calls > 0
  /\ kind \in LockCalls
  /\ calls' = calls - 1
  /\ call' = [call EXCEPT ![t] = kind]
  /\ todo' = [todo EXCEPT ![t] = Locks(kind)]
  /\ doing' = [doing EXCEPT ![t] = "next"]
  /\ answer' = [answer EXCEPT ![t] = "none"]
  /\ promised' = [u \in Thread |->
       IF u = t THEN IF Others(t, UnlockCalls) THEN {} ELSE Promise(kind)
       ELSE IF call[u] \in UnlockCalls THEN promised[u] \ Promise(kind) ELSE promised[u]]
  /\ UNCHANGED <<process, soft, hard, once, pinned, seen, want>>

Unlock(t, kind) ==
  /\ doing[t] = "idle" /\ calls > 0
  /\ kind \in UnlockCalls
  /\ calls' = calls - 1
  /\ call' = [call EXCEPT ![t] = kind]
  /\ todo' = [todo EXCEPT ![t] = Unlocks(kind)]
  /\ doing' = [doing EXCEPT ![t] = "next"]
  /\ answer' = [answer EXCEPT ![t] = "none"]
  /\ promised' = [u \in Thread |->
       IF u = t THEN IF Others(t, LockCalls) THEN {} ELSE Promise(kind)
       ELSE IF call[u] \in LockCalls THEN promised[u] \ Promise(kind) ELSE promised[u]]
  /\ UNCHANGED <<process, soft, hard, once, pinned, seen, want>>

\* lock_mmap of the next file: the first caller in the process raises the soft
\* limit, one that comes while it does so waits.
EnterOnce(t) ==
  /\ doing[t] = "next" /\ call[t] \in LockCalls /\ todo[t] # {}
  /\ \/ /\ once = "new"
        /\ once' = "running"
        /\ doing' = [doing EXCEPT ![t] = "once_read"]
     \/ /\ once = "done"
        /\ doing' = [doing EXCEPT ![t] = "mlock"]
        /\ UNCHANGED once
  /\ UNCHANGED <<process, soft, hard, pinned, call, todo, seen, answer, calls, promised, want>>

\* Mutant: the OnceLock is set before the limit is.
OnceReadEarly(t) ==
  /\ doing[t] = "once_read"
  /\ seen' = [seen EXCEPT ![t] = <<soft, hard>>]
  /\ once' = "done"
  /\ doing' = [doing EXCEPT ![t] = IF soft < hard THEN "once_set" ELSE "mlock"]
  /\ UNCHANGED <<process, soft, hard, pinned, call, todo, answer, calls, promised, want>>

\* raise_memlock_soft_once reads the limit; it only sets it if soft < hard.
OnceRead(t) ==
  /\ doing[t] = "once_read"
  /\ seen' = [seen EXCEPT ![t] = <<soft, hard>>]
  /\ once' = IF soft < hard THEN once ELSE "done"
  /\ doing' = [doing EXCEPT ![t] = IF soft < hard THEN "once_set" ELSE "mlock"]
  /\ UNCHANGED <<process, soft, hard, pinned, call, todo, answer, calls, promised, want>>

\* setrlimit to (h, h): raising the hard limit needs the privilege.
SetLimit(h) ==
  IF h <= hard \/ privileged THEN soft' = h /\ hard' = h ELSE UNCHANGED <<soft, hard>>

\* Mutant: the closure never ends.
OnceSetHangs(t) ==
  /\ doing[t] = "once_set"
  /\ SetLimit(seen[t][2])
  /\ doing' = [doing EXCEPT ![t] = "mlock"]
  /\ UNCHANGED <<process, once, pinned, call, todo, seen, answer, calls, promised, want>>

OnceSet(t) ==
  /\ doing[t] = "once_set"
  /\ SetLimit(seen[t][2])
  /\ once' = "done"
  /\ doing' = [doing EXCEPT ![t] = "mlock"]
  /\ UNCHANGED <<process, pinned, call, todo, seen, answer, calls, promised, want>>

Bytes(ms) == MapThenSumSet(LAMBDA m : Size[m[2]], ms)

\* mlock: the kernel refuses what would exceed the soft limit, whole.
Fits(m) == Bytes(pinned \cup {m}) <= soft

\* One file is pinned, or the call returns the error: what it has pinned before
\* stays pinned.
Mlock(t) ==
  /\ doing[t] = "mlock"
  /\ \E m \in todo[t] :
       /\ Earliest(m, todo[t])
       /\ IF Fits(m)
          THEN /\ pinned' = pinned \cup {m}
               /\ todo' = [todo EXCEPT ![t] = @ \ {m}]
               /\ doing' = [doing EXCEPT ![t] = "next"]
               /\ UNCHANGED answer
          ELSE /\ answer' = [answer EXCEPT ![t] = "enomem"]
               /\ doing' = [doing EXCEPT ![t] = "idle"]
               /\ UNCHANGED <<pinned, todo>>
  /\ UNCHANGED <<process, soft, hard, once, call, seen, calls, promised, want>>

Munlock(t) ==
  /\ doing[t] = "next" /\ call[t] \in UnlockCalls
  /\ \E m \in todo[t] :
       /\ Earliest(m, todo[t])
       /\ pinned' = pinned \ {m}
       /\ todo' = [todo EXCEPT ![t] = @ \ {m}]
  /\ UNCHANGED <<process, soft, hard, once, doing, call, seen, answer, calls, promised, want>>

ReturnOk(t) ==
  /\ doing[t] = "next" /\ todo[t] = {}
  /\ answer' = [answer EXCEPT ![t] = "ok"]
  /\ doing' = [doing EXCEPT ![t] = "idle"]
  /\ UNCHANGED <<process, soft, hard, once, pinned, call, todo, seen, calls, promised, want>>

\* raise_memlock_limit(w) reads the limit,
RaiseRead(t, w) ==
  /\ doing[t] = "idle" /\ calls > 0
  /\ calls' = calls - 1
  /\ call' = [call EXCEPT ![t] = "raise"]
  /\ want' = [want EXCEPT ![t] = w]
  /\ seen' = [seen EXCEPT ![t] = <<soft, hard>>]
  /\ doing' = [doing EXCEPT ![t] = "raise_soft"]
  /\ answer' = [answer EXCEPT ![t] = "none"]
  /\ promised' = [promised EXCEPT ![t] = {}]
  /\ UNCHANGED <<process, soft, hard, once, pinned, todo>>

\* Mutant: the limit asked for is set at once, a lower one too.
RaiseToWant(t) ==
  /\ doing[t] = "raise_soft"
  /\ SetLimit(want[t])
  /\ doing' = [doing EXCEPT ![t] = "raise_reread"]
  /\ UNCHANGED <<process, once, pinned, call, todo, seen, answer, calls, promised, want>>

\* sets the soft limit to the hard limit it has read,
RaiseSoft(t) ==
  /\ doing[t] = "raise_soft"
  /\ SetLimit(seen[t][2])
  /\ doing' = [doing EXCEPT ![t] =
       IF want[t] > seen[t][2] THEN "raise_hard" ELSE "raise_reread"]
  /\ UNCHANGED <<process, once, pinned, call, todo, seen, answer, calls, promised, want>>

\* tries to lift both if more is wanted,
RaiseHard(t) ==
  /\ doing[t] = "raise_hard"
  /\ SetLimit(want[t])
  /\ doing' = [doing EXCEPT ![t] = "raise_reread"]
  /\ UNCHANGED <<process, once, pinned, call, todo, seen, answer, calls, promised, want>>

\* and returns what it reads then.
RaiseReread(t) ==
  /\ doing[t] = "raise_reread"
  /\ seen' = [seen EXCEPT ![t] = <<soft, hard>>]
  /\ answer' = [answer EXCEPT ![t] = "raised"]
  /\ doing' = [doing EXCEPT ![t] = "idle"]
  /\ UNCHANGED <<process, soft, hard, once, pinned, call, todo, calls, promised, want>>

\* enable_bloom needs the reader exclusively: no call of another thread is under way.
Enable(r) ==
  /\ \A t \in Thread : doing[t] = "idle"
  /\ <<r, Kvei>> \in present
  /\ active' = active \cup {r}
  /\ UNCHANGED <<want, present, privileged, soft, hard, once, pinned, doing, call, todo, seen,
                 answer, calls, promised>>

Step(t) ==
  \/ EnterOnce(t) \/ OnceRead(t) \/ OnceSet(t) \/ Mlock(t) \/ Munlock(t) \/ ReturnOk(t)
  \/ RaiseSoft(t) \/ RaiseHard(t) \/ RaiseReread(t)

LockNext ==
  \/ \E t \in Thread :
       \/ \E kind \in LockCalls : Lock(t, kind)
       \/ \E kind \in UnlockCalls : Unlock(t, kind)
       \/ \E w \in Wants : RaiseRead(t, w)
       \/ Step(t)
  \/ \E r \in Reader : Enable(r)

LockSpec == LockInit /\ [][LockNext]_lockVars

\* A thread goes on with a call it has begun; a new call need never come.
LockFairSpec == LockSpec /\ \A t \in Thread : WF_lockVars(Step(t))

-----------------------------------------------------------------------------

ProcessTypes ==
  /\ present \subseteq Mapping /\ active \subseteq Reader
  /\ soft \in Nat /\ hard \in Nat /\ soft <= hard
  /\ once \in {"new", "running", "done"}
  /\ pinned \subseteq present
  /\ calls \in 0 .. MaxCalls

ThreadTypes ==
  /\ doing \in [Thread -> {"idle", "next", "once_read", "once_set", "mlock",
                        "raise_soft", "raise_hard", "raise_reread"}]
  /\ call \in [Thread -> {"none", "raise"} \cup LockCalls \cup UnlockCalls]
  /\ todo \in [Thread -> SUBSET present]
  /\ want \in [Thread -> Wants \cup {0}]
  /\ seen \in [Thread -> Nat \X Nat]
  /\ answer \in [Thread -> {"none", "ok", "enomem", "raised"}]
  /\ promised \in [Thread -> SUBSET present]

TypeOK == privileged \in BOOLEAN /\ ProcessTypes /\ ThreadTypes

\* "mlock is the only guarantee" (advise_will_need): after a lock call has
\* returned Ok, and while nobody unlocks, all its files are pinned; a file that
\* lock_all pinned stays pinned when others lock, fail to lock or raise limits.
OkMeansPinned ==
  \A t \in Thread : call[t] \in LockCalls /\ answer[t] = "ok" => promised[t] \subseteq pinned

\* After unlock_all has returned, and while nobody locks, no file is pinned,
\* in particular none that a lock call pinned before it failed, and no filter
\* that was enabled in between.
UnlockedMeansFree ==
  \A t \in Thread :
    call[t] \in UnlockCalls /\ answer[t] = "ok" => promised[t] \cap pinned = {}

\* mlock is only ever tried when the soft limit is as high as the hard one: no
\* thread overtakes the one that raises it ("without it, locking fails for a
\* reason the administrator never intended").
LockedAtTheLimit == \A t \in Thread : doing[t] = "mlock" => soft = hard

\* Neither limit ever goes down ("must never lower anything").
NeverLowered == [][soft <= soft' /\ hard <= hard']_lockVars

\* Without the privilege it does not, however threads interleave.
UnprivilegedNeverLowered == [][~privileged => soft <= soft' /\ hard <= hard']_lockVars

\* Every call returns: no thread waits for ever for the OnceLock.
CallsReturn == \A t \in Thread : doing[t] # "idle" ~> doing[t] = "idle"
=============================================================================
