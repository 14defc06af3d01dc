------------------------------ MODULE KveiSearch ------------------------------
(***************************************************************************)
(* A .kvei from its making to its use: build_kvei_from_seg hashes every    *)
(* key of the .kv under a salt and writes the filter (Bloom), a reader     *)
(* opens what there is of the file, and enable_bloom with Salt::Find looks *)
(* for a salt under which the filter holds the sampled keys (SaltSearch).  *)
(* The filter may also be another program's, with any bits.                *)
(*                                                                         *)
(* A .kv with an odd number of words ends in one more key, which has no    *)
(* value: the builder leaves it out, and sample_keys takes it when there   *)
(* is no .bt.                                                              *)
(*                                                                         *)
(* Keys are numbered.  What a key hashes to under a salt is any of a few   *)
(* tables (hash.rs).                                                       *)
(***************************************************************************)
EXTENDS SaltSearch, Bloom

CONSTANTS
  MaxKeys,     \* bounds the number of keys, not in the code
  HashTables,  \* functions from the numbers of keys and salts to HashValue
  SearchCap,   \* how many keys the search samples, 16
  ValidateCap  \* how many the validation samples, 64

ASSUME HashAssumption ==
  MaxKeys \in Nat /\ HashTables \subseteq [(0 .. MaxKeys - 1) \X Salt -> HashValue]

\* 64 is a multiple of 16.
ASSUME CapAssumption ==
  /\ SearchCap \in Nat \ {0} /\ ValidateCap \in Nat
  /\ \E n \in 1 .. ValidateCap : ValidateCap = n * SearchCap

VARIABLES
  keyCount,    \* key_count: the pairs in the .kv
  odd,         \* the .kv ends in one more key, without a value word
  indexed,     \* there is a .bt, of the pairs
  hash,        \* hash[<<k, s>>]
  buildSalt,   \* the salt of the builder; NoSalt if the filter is not this crate's
  hashed,      \* how many keys build_kvei_from_seg has added
  called       \* enable_bloom has been called

data == <<keyCount, odd, indexed, hash, buildSalt>>
kveiVars == <<vars, filterVars, data, hashed, called>>

Own == buildSalt # NoSalt

\* Nothing has been looked for: as after a call without a filter.
NoCall ==
  /\ usable = FALSE
  /\ passing = {} /\ validating = {}
  /\ hints = <<>> /\ asked = 0
  /\ main = "done"
  /\ found = NoSalt /\ result = NoSalt /\ active = NoSalt
  /\ salt = [w \in Workers |-> w]
  /\ pc = [w \in Workers |-> "load"]

\* Another program's filter, complete, with any bits below m.
ForeignFilter ==
  /\ stage = "written"
  /\ empty = FALSE
  /\ m \in Sizes
  /\ \E b \in SUBSET (0 .. m - 1) :
       bits = [w \in 0 .. NWords(m) - 1 |->
                 {i \in 0 .. WordBits - 1 : w * WordBits + i \in b}]
  /\ added = {}
  /\ file = [reach |-> "words", m |-> m, words |-> FirstWords(NWords(m))]
  /\ kind = "Unsupported"

KveiInit ==
  /\ keyCount \in 0 .. MaxKeys
  /\ odd \in BOOLEAN /\ (odd => keyCount < MaxKeys)
  /\ indexed \in BOOLEAN
  /\ hash \in HashTables
  /\ hashed = 0
  /\ called = FALSE
  /\ NoCall
  /\ \/ buildSalt \in Salt /\ NewFilter(keyCount)
     \/ buildSalt = NoSalt /\ ForeignFilter

\* One round of build_kvei_from_seg's loop: the next key, its value skipped.
AddNextKey ==
  /\ hashed < keyCount
  /\ AddHash(hash[<<hashed, buildSalt>>])
  /\ hashed' = hashed + 1
  /\ UNCHANGED <<vars, data, called>>

\* Mutant: the filter is written before the last key is added.
WriteEarly ==
  /\ hashed >= keyCount - 1
  /\ FinishFilter
  /\ UNCHANGED <<vars, data, hashed, called>>

WriteFilter ==
  /\ hashed = keyCount
  /\ FinishFilter
  /\ UNCHANGED <<vars, data, hashed, called>>

ReadFilter ==
  /\ OpenFilter
  /\ UNCHANGED <<vars, data, hashed, called>>

\* The keys sample_keys comes to.
Reach == IF odd /\ ~indexed THEN keyCount + 1 ELSE keyCount

\* sample_keys: up to n keys, spread over the file by its .bt, or else the first n.
Sample(n) ==
  LET taken == IF n < Reach THEN n ELSE Reach
  IN  {IF indexed THEN (s * Reach) \div taken ELSE s : s \in 0 .. taken - 1}

\* The salts under which the filter holds a sample.
PassingFor(sample) == {s \in Salt : \A k \in sample : ContainsHash(hash[<<k, s>>])}

\* enable_bloom_with_hints(Salt::Find(n), ..): a filter that excludes nothing, or a
\* file without keys, is not searched.
Call ==
  /\ stage = "opened" /\ ~called
  /\ called' = TRUE
  /\ usable' = (kind = "Bloom" /\ Reach > 0)
  /\ passing' = PassingFor(Sample(SearchCap))
  /\ validating' = PassingFor(Sample(ValidateCap))
  /\ hints' \in HintLists /\ asked' \in Asked
  /\ main' = "hints"
  /\ salt' = [w \in Workers' |-> w]
  /\ pc' = [w \in Workers' |-> "load"]
  /\ UNCHANGED <<found, result, active>>
  /\ UNCHANGED <<filterVars, data, hashed>>

Search ==
  /\ called
  /\ Caller \/ \E w \in Workers : Worker(w)
  /\ UNCHANGED <<filterVars, data, hashed, called>>

Rest == called /\ Finished /\ UNCHANGED kveiVars

KveiNext == AddNextKey \/ WriteFilter \/ ReadFilter \/ Call \/ Search \/ Rest

\* Every worker is a thread of its own, which the operating system schedules; the
\* caller waits for nothing but the workers.
KveiSpec ==
  /\ KveiInit
  /\ [][KveiNext]_kveiVars
  /\ WF_kveiVars(called /\ Caller /\ UNCHANGED <<filterVars, data, hashed, called>>)
  /\ \A v \in 0 .. MaxThreads - 1 :
       WF_kveiVars(called /\ v \in Workers /\ Worker(v)
                     /\ UNCHANGED <<filterVars, data, hashed, called>>)

-----------------------------------------------------------------------------

\* A filter of this crate, whatever of its file was written, holds the samples under
\* its builder's salt, so that enable_bloom accepts that salt, unless a key without a
\* value is among the samples.  Salt::Find then returns some salt, and the filter is
\* left unused by one cause only: the salt returned, a hint or a smaller one, passes
\* the search's 16 samples by chance and not the 64.  (The builder's salt is then not
\* tried any more.)
OwnFilterAccepted ==
  called /\ Own /\ usable /\ Sample(ValidateCap) \subseteq 0 .. keyCount - 1 =>
    /\ buildSalt \in validating
    /\ main = "done" =>
         result # NoSalt /\ (active = NoSalt => result \in passing \ validating)

\* The call comes back: every worker runs out of candidates or sees a report.
CallReturns == called ~> main = "done"
=============================================================================
