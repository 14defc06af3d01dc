------------------------------- MODULE KvStack -------------------------------
(***************************************************************************)
(* The newest-wins stack of domain files (stack.rs), while the files it is *)
(* made of are replaced by their merge (writer/merge.rs) and the stack is  *)
(* opened again.  A stack is immutable once open: a lookup finishes on the *)
(* stack it began on.  A reader is consulted in one step, as KvReader      *)
(* shows it may be; what one merge writes is what Merge shows it writes.   *)
(*                                                                         *)
(* The caller that compacts is not part of the crate.  It merges files     *)
(* that follow one another in the stack, lists them in whatever order,     *)
(* names the output after the steps they span, and takes the inputs away   *)
(* when the output is complete.                                            *)
(***************************************************************************)
EXTENDS Integers, Sequences, FiniteSets, FiniteSetsExt

CONSTANTS
  Client,       \* the threads that look up keys
  Key, Value,
  Empty,        \* the empty value, a deletion in a merge from step 0
  NotFound,     \* the answer None
  NoRange,      \* a file name without a <from>-<to> part
  RangeLists,   \* sequences of the ranges in the names of the files opened first
  MaxSamples,   \* the number of keys a salt is validated against, 64
  MaxCompactions \* bounds the behaviours, not in the code

ASSUME ValueAssumption == Empty \in Value /\ NotFound \notin Value
ASSUME MaxSamplesAssumption == MaxSamples \in Nat \ {0}
ASSUME RangeAssumption ==
  /\ NoRange \notin Nat \X Nat
  /\ RangeLists \subseteq Seq({NoRange} \cup (Nat \X Nat)) \ {<<>>}

VARIABLES
  resolved,     \* a salt was given or found
  readers,      \* the open stack, oldest to newest
  compactions,  \* compactions still allowed
  pc,           \* pc[c]: "idle", "scan" or "answered"
  key,          \* key[c]: the key client c looks up
  mine,         \* mine[c]: the stack it looks in
  at,           \* at[c]: the reader it consults next, counted from the oldest
  reply         \* reply[c]: its answer

vars == <<resolved, readers, compactions, pc, key, mine, at, reply>>

Pairs == UNION {[ks -> Value] : ks \in SUBSET Key}

(***************************************************************************)
(* Opening a stack.                                                        *)
(***************************************************************************)

\* The key files are sorted by; a name without a range counts as 0-0.
StepKey(range) == IF range = NoRange THEN <<0, 0>> ELSE range

\* sort_by_key is stable: files with equal keys keep the order they came in.
\* files is a sequence of records with a field range.
SortsBefore(files, i, j) ==
  LET a == StepKey(files[i].range)
      b == StepKey(files[j].range)
  IN  \/ a[1] < b[1]
      \/ a[1] = b[1] /\ a[2] < b[2]
      \/ a = b /\ i < j

Sorted(files) ==
  [p \in DOMAIN files |->
     files[CHOOSE i \in DOMAIN files :
             Cardinality({j \in DOMAIN files : SortsBefore(files, j, i)}) = p - 1]]

\* The key sets a file's salt may be validated against.
Samples(pairs) ==
  LET keys == DOMAIN pairs
  IN  kSubset(IF Cardinality(keys) < MaxSamples THEN Cardinality(keys) ELSE MaxSamples, keys)

\* enable_bloom(Salt::Known): every sampled key is in the filter, and there is one.
Passes(pairs, lost) ==
  \E sample \in Samples(pairs) : sample # {} /\ sample \cap lost = {}

\* A file: the range in its name, its pairs, whether it has a usable filter, the
\* keys the filter says are absent under the stack's salt, and whether the filter
\* came to be used.
IsFile(f) ==
  /\ ~f.filter => f.lost = {} /\ ~f.active
  /\ f.active => resolved /\ Passes(f.pairs, f.lost)
  /\ f.filter /\ ~f.active /\ resolved =>
       \E s \in Samples(f.pairs) : s = {} \/ s \cap f.lost # {}

File(range, pairs) ==
  {f \in [range : {range}, pairs : pairs, filter : BOOLEAN, lost : SUBSET Key,
           active : BOOLEAN] : IsFile(f)}

Init ==
  /\ resolved \in BOOLEAN
  /\ \E ranges \in RangeLists :
       \E files \in [DOMAIN ranges -> UNION {File(ranges[i], Pairs) : i \in DOMAIN ranges}] :
         /\ \A i \in DOMAIN ranges : files[i].range = ranges[i]
         /\ readers = Sorted(files)
  /\ compactions = MaxCompactions
  /\ pc = [c \in Client |-> "idle"]
  /\ key \in [Client -> Key]
  /\ mine = [c \in Client |-> <<>>]
  /\ at = [c \in Client |-> 0]
  /\ reply = [c \in Client |-> NotFound]

(***************************************************************************)
(* A lookup.                                                               *)
(***************************************************************************)
Get(c, k) ==
  /\ pc[c] = "idle"
  /\ pc' = [pc EXCEPT ![c] = "scan"]
  /\ key' = [key EXCEPT ![c] = k]
  /\ mine' = [mine EXCEPT ![c] = readers]
  /\ at' = [at EXCEPT ![c] = Len(readers)]
  /\ UNCHANGED <<resolved, readers, compactions, reply>>

\* The filter of reader f, in use, says that k is absent.
Excludes(f, k) == f.active /\ k \in f.lost

Hit(f, k) == ~Excludes(f, k) /\ k \in DOMAIN f.pairs

\* The newest reader not consulted yet answers, or the next older one is asked.
Consult(c) ==
  /\ pc[c] = "scan" /\ at[c] > 0
  /\ LET f == mine[c][at[c]]
     IN  IF Hit(f, key[c])
         THEN /\ reply' = [reply EXCEPT ![c] = f.pairs[key[c]]]
              /\ pc' = [pc EXCEPT ![c] = "answered"]
              /\ UNCHANGED at
         ELSE /\ at' = [at EXCEPT ![c] = @ - 1]
              /\ UNCHANGED <<reply, pc>>
  /\ UNCHANGED <<resolved, readers, compactions, key, mine>>

NoneHasIt(c) ==
  /\ pc[c] = "scan" /\ at[c] = 0
  /\ reply' = [reply EXCEPT ![c] = NotFound]
  /\ pc' = [pc EXCEPT ![c] = "answered"]
  /\ UNCHANGED <<resolved, readers, compactions, key, mine, at>>

Return(c) ==
  /\ pc[c] = "answered"
  /\ pc' = [pc EXCEPT ![c] = "idle"]
  /\ mine' = [mine EXCEPT ![c] = <<>>]
  /\ at' = [at EXCEPT ![c] = 0]
  /\ UNCHANGED <<resolved, readers, compactions, key, reply>>

(***************************************************************************)
(* A compaction.                                                           *)
(***************************************************************************)
MergeFrom(range) == IF range = NoRange THEN 0 ELSE range[1]

\* Mutant: the inputs are taken in the order they are listed in.
OlderAsListed(inputs, i, j) == i < j

\* The order merge puts its inputs in: by the start of the range, then as listed.
Older(inputs, i, j) ==
  LET a == MergeFrom(inputs[i].range)
      b == MergeFrom(inputs[j].range)
  IN  a < b \/ (a = b /\ i < j)

Winner(inputs, k) ==
  CHOOSE i \in DOMAIN inputs :
    /\ k \in DOMAIN inputs[i].pairs
    /\ \A j \in DOMAIN inputs : k \in DOMAIN inputs[j].pairs => j = i \/ Older(inputs, j, i)

\* Mutant: deletions are dropped wherever the merge starts.
DropsAnywhere(range) == TRUE

\* drop_deleted as MergeOptions::default has it, range_from from the output's name.
Drops(range) == range # NoRange /\ range[1] = 0

\* What merge writes: see MergeCorrect in Merge.
MergedPairs(inputs, range) ==
  LET keys == UNION {DOMAIN inputs[i].pairs : i \in DOMAIN inputs}
      value(k) == inputs[Winner(inputs, k)].pairs[k]
  IN  [k \in {l \in keys : ~(Drops(range) /\ value(l) = Empty)} |-> value(k)]

\* The steps a block of files spans.
Span(block) ==
  <<Min({block[i].range[1] : i \in DOMAIN block}),
    Max({block[i].range[2] : i \in DOMAIN block})>>

\* The block of readers lo .. hi is merged, listed in the order that listing
\* gives, and the stack is opened over the result and the other files.
Compact(lo, hi) ==
  /\ compactions > 0
  /\ LET block == SubSeq(readers, lo, hi)
         others == SubSeq(readers, 1, lo - 1) \o SubSeq(readers, hi + 1, Len(readers))
     IN  /\ \A i \in DOMAIN block : block[i].range # NoRange
         /\ \E listing \in {l \in [DOMAIN block -> DOMAIN block] :
                              \A i, j \in DOMAIN block : l[i] = l[j] => i = j} :
              LET inputs == [i \in DOMAIN block |-> block[listing[i]]]
                  merged == MergedPairs(inputs, Span(block))
              IN  \E f \in File(Span(block), {merged}) : readers' = Sorted(<<f>> \o others)
  /\ compactions' = compactions - 1
  /\ UNCHANGED <<resolved, pc, key, mine, at, reply>>

Next ==
  \/ \E c \in Client : (\E k \in Key : Get(c, k)) \/ Consult(c) \/ NoneHasIt(c) \/ Return(c)
  \/ \E lo, hi \in DOMAIN readers : lo < hi /\ Compact(lo, hi)

Spec == Init /\ [][Next]_vars

\* get is one call that waits for nobody; nobody has to compact.
FairSpec ==
  Spec /\ \A c \in Client : WF_vars(Consult(c) \/ NoneHasIt(c)) /\ WF_vars(Return(c))

-----------------------------------------------------------------------------

\* The newest value a stack holds for a key.
Holders(stack, k) == {i \in DOMAIN stack : k \in DOMAIN stack[i].pairs}
Newest(stack, k) ==
  IF Holders(stack, k) = {} THEN NotFound ELSE stack[Max(Holders(stack, k))].pairs[k]

\* A deletion counts as absent: a merge from step 0 may drop it.
Visible(v) == IF v = Empty THEN NotFound ELSE v

Contents ==
  [k \in {l \in Key : Visible(Newest(readers, l)) # NotFound} |-> Newest(readers, k)]

PL == INSTANCE PointLookup WITH
        contents <- Contents,
        phase <- [c \in Client |-> IF pc[c] = "scan" THEN "asked" ELSE pc[c]],
        reply <- [c \in Client |-> Visible(reply[c])]

\* The stack is one point lookup over contents that no compaction changes, also
\* for the lookups that are under way in the old stack: merge and stack agree on
\* which file is newest ("matching ... this crate's query-time newest-wins"), and
\* a dropped deletion uncovers nothing.
ImplementsPointLookup == PL!Spec

\* The same of one compaction: no key's newest value changes, deletions and
\* absence taken as one.
CompactionKeepsAnswers ==
  [][\A k \in Key : Visible(Newest(readers', k)) = Visible(Newest(readers, k))]_vars

\* A deletion is only ever dropped by a merge from step 0 that covers it; others
\* keep it, so that it goes on hiding what older files hold (merge.rs:8-12).
DeletionsKept ==
  [][\A k \in Key : Newest(readers, k) = Empty =>
       \/ Newest(readers', k) = Empty
       \/ /\ Newest(readers', k) = NotFound
          /\ \E i \in DOMAIN readers' :
               /\ readers'[i].range[1] = 0
               /\ readers'[i].range[2] >= readers[Max(Holders(readers, k))].range[2]]_vars
=============================================================================
