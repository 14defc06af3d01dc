-------------------------------- MODULE Merge --------------------------------
(***************************************************************************)
(* The k-way merge of domain files (writer/merge.rs): every input has at   *)
(* most one pair in hand, a heap orders the inputs by the key in hand, and *)
(* each round takes all pairs of the smallest key, lets the newest input   *)
(* win, reads on in the inputs that were taken from, and writes the winner *)
(* out unless it is a deletion in a merge that starts at step 0.           *)
(*                                                                         *)
(* The inputs are numbered oldest to newest, as merge orders them.  A file *)
(* is a function from its keys to its values; a cursor is the set of keys  *)
(* it has not read, which it reads in ascending order.                     *)
(***************************************************************************)
EXTENDS Integers

CONSTANTS
  Input,      \* the numbers of the inputs, oldest first
  Key,        \* keys, of which only the order matters
  Value,      \* values
  Empty,      \* the empty value, a deletion in a merge from step 0
  NoKey,      \* no pair in hand, nothing written yet
  NoStep      \* the merged range's start is not known

ASSUME InputAssumption == Input \subseteq Nat /\ Input # {}
ASSUME KeyAssumption == Key \subseteq Int /\ NoKey \notin Int
ASSUME ValueAssumption == Empty \in Value

VARIABLES
  file,       \* file[i]: the pairs of input i
  dropDeleted, \* the option drop_deleted
  rangeFrom,  \* range_from, given or parsed from the output's name, or NoStep
  rest,       \* rest[i]: the keys input i's cursor has not read
  head,       \* head[i]: the key input i has in hand, or NoKey
  heap,       \* the pairs <<key, input>> in the heap
  pc,         \* "load", "pick", "gather", "refill", "done" or "rejected"
  cur,        \* min_key: the key of the round
  best,       \* best_idx: the newest input seen with that key
  advance,    \* the inputs to read on in
  last,       \* the key the writer got last
  out         \* the pairs written

vars == <<file, dropDeleted, rangeFrom, rest, head, heap, pc, cur, best, advance, last, out>>

Files == UNION {[ks -> Value] : ks \in SUBSET Key}

\* Mutant: deletions are dropped wherever the range starts.
DropAnywhere == dropDeleted

\* Without a known range start nothing is ever dropped.
DropAtZero == dropDeleted /\ rangeFrom = 0

Init ==
  /\ file \in [Input -> Files]
  /\ dropDeleted \in BOOLEAN
  /\ rangeFrom \in {0, 1, NoStep}
  /\ rest = [i \in Input |-> DOMAIN file[i]]
  /\ head = [i \in Input |-> NoKey]
  /\ heap = {}
  /\ pc = "load"
  /\ cur = NoKey
  /\ best = CHOOSE i \in Input : TRUE
  /\ advance = Input
  /\ last = NoKey
  /\ out = [k \in {} |-> Empty]

Least(k, ks) == k \in ks /\ \A l \in ks : k <= l

\* The heap's order: by key, then by input.
First(e) ==
  /\ e \in heap
  /\ \A f \in heap : e[1] < f[1] \/ (e[1] = f[1] /\ e[2] <= f[2])

\* Read the next pair of one of the inputs that were taken from, if there is one:
\* the loop that fills the heap and the one that refills it.
ReadPair(i) ==
  /\ pc \in {"load", "refill"}
  /\ i \in advance
  /\ \E k \in rest[i] :
       /\ Least(k, rest[i])
       /\ rest' = [rest EXCEPT ![i] = @ \ {k}]
       /\ head' = [head EXCEPT ![i] = k]
       /\ heap' = heap \cup {<<k, i>>}
  /\ advance' = advance \ {i}
  /\ UNCHANGED <<file, dropDeleted, rangeFrom, pc, cur, best, last, out>>

\* Mutant: an exhausted input is looked at again and again.
ExhaustedAgain(i) ==
  /\ pc \in {"load", "refill"}
  /\ i \in advance
  /\ rest[i] = {}
  /\ UNCHANGED vars

Exhausted(i) ==
  /\ pc \in {"load", "refill"}
  /\ i \in advance
  /\ rest[i] = {}
  /\ advance' = advance \ {i}
  /\ UNCHANGED <<file, dropDeleted, rangeFrom, rest, head, heap, pc, cur, best, last, out>>

Loaded ==
  /\ pc = "load"
  /\ advance = {}
  /\ pc' = "pick"
  /\ UNCHANGED <<file, dropDeleted, rangeFrom, rest, head, heap, cur, best, advance, last,
                 out>>

\* Mutant: the pair stays in its head.
PopHeapOnly(e) ==
  /\ heap' = heap \ {e}
  /\ UNCHANGED <<file, dropDeleted, rangeFrom, rest, head, last, out>>

\* Take entry e off the heap and the pair it stands for out of its head.
Pop(e) ==
  /\ heap' = heap \ {e}
  /\ head' = [head EXCEPT ![e[2]] = NoKey]
  /\ UNCHANGED <<file, dropDeleted, rangeFrom, rest, last, out>>

Pick(e) ==
  /\ pc = "pick"
  /\ First(e)
  /\ Pop(e)
  /\ cur' = e[1]
  /\ best' = e[2]
  /\ advance' = {e[2]}
  /\ pc' = "gather"

\* Mutant: the oldest input wins.
GatherOldest(e) ==
  /\ pc = "gather"
  /\ First(e)
  /\ e[1] = cur
  /\ Pop(e)
  /\ best' = IF e[2] < best THEN e[2] ELSE best
  /\ advance' = advance \cup {e[2]}
  /\ UNCHANGED <<pc, cur>>

GatherSame(e) ==
  /\ pc = "gather"
  /\ First(e)
  /\ e[1] = cur
  /\ Pop(e)
  /\ best' = IF e[2] > best THEN e[2] ELSE best
  /\ advance' = advance \cup {e[2]}
  /\ UNCHANGED <<pc, cur>>

\* Mutant: the round ends with equal keys still in the heap.
GatheredEarly ==
  /\ pc = "gather"
  /\ pc' = "refill"
  /\ UNCHANGED <<file, dropDeleted, rangeFrom, rest, head, heap, cur, best, advance, last,
                 out>>

Gathered ==
  /\ pc = "gather"
  /\ \A e \in heap : First(e) => e[1] # cur
  /\ pc' = "refill"
  /\ UNCHANGED <<file, dropDeleted, rangeFrom, rest, head, heap, cur, best, advance, last,
                 out>>

Deleted == DropAtZero /\ file[best][cur] = Empty

Drop ==
  /\ pc = "refill"
  /\ advance = {}
  /\ Deleted
  /\ pc' = "pick"
  /\ UNCHANGED <<file, dropDeleted, rangeFrom, rest, head, heap, cur, best, advance, last,
                 out>>

\* DomainWriter::add refuses a key that is not above the one before, and its error
\* ends the merge.
Emit ==
  /\ pc = "refill"
  /\ advance = {}
  /\ ~Deleted
  /\ IF last # NoKey => last < cur
       THEN /\ out' = [k \in DOMAIN out \cup {cur} |->
                         IF k = cur THEN file[best][cur] ELSE out[k]]
            /\ last' = cur
            /\ pc' = "pick"
       ELSE /\ pc' = "rejected"
            /\ UNCHANGED <<last, out>>
  /\ UNCHANGED <<file, dropDeleted, rangeFrom, rest, head, heap, cur, best, advance>>

Finish ==
  /\ pc = "pick"
  /\ heap = {}
  /\ pc' = "done"
  /\ UNCHANGED <<file, dropDeleted, rangeFrom, rest, head, heap, cur, best, advance, last,
                 out>>

Next ==
  \/ \E i \in Input : ReadPair(i) \/ Exhausted(i)
  \/ Loaded
  \/ \E e \in heap : Pick(e) \/ GatherSame(e)
  \/ Gathered
  \/ Drop \/ Emit
  \/ Finish

Spec == Init /\ [][Next]_vars

\* merge is one function call: it runs on.
FairSpec == Spec /\ WF_vars(Next)

(***************************************************************************)
(* What a merge is for.                                                    *)
(***************************************************************************)
Keys == UNION {DOMAIN file[i] : i \in Input}
Holder(k) == {i \in Input : k \in DOMAIN file[i]}
Newest(k, i) == i \in Holder(k) /\ \A j \in Holder(k) : j <= i
NewestValue(k) == file[CHOOSE i \in Input : Newest(k, i)][k]
Kept(k) == ~ (dropDeleted /\ rangeFrom = 0 /\ NewestValue(k) = Empty)
Merged == [k \in {l \in Keys : Kept(l)} |-> NewestValue(k)]

\* Every variable has the values the code can give it.
TypeOK ==
  /\ file \in [Input -> Files]
  /\ dropDeleted \in BOOLEAN
  /\ rangeFrom \in {0, 1, NoStep}
  /\ rest \in [Input -> SUBSET Key]
  /\ head \in [Input -> Key \cup {NoKey}]
  /\ heap \subseteq Key \X Input
  /\ pc \in {"load", "pick", "gather", "refill", "done", "rejected"}
  /\ cur \in Key \cup {NoKey}
  /\ best \in Input
  /\ advance \subseteq Input
  /\ last \in Key \cup {NoKey}
  /\ out \in Files

\* A heap entry has its pair in hand, and a pair in hand its heap entry: neither
\* expect("head present for heap entry") of merge.rs:92,99 can fail, and no pair
\* is left behind when the heap runs empty.
HeadsMatchHeap ==
  \A i \in Input, k \in Key : <<k, i>> \in heap <=> head[i] = k

\* The merge of sorted inputs comes out sorted: the writer never refuses a key
\* (merge.rs:124, domain.rs:65-79).
NeverRejected == pc # "rejected"

\* Between rounds, the output is the newest-wins merge of everything up to the key
\* of the last round, deletions dropped exactly when the range starts at step 0,
\* and nothing beyond it (merge.rs:88-125).
PrefixMerged ==
  pc = "pick" =>
    /\ \A k \in DOMAIN out : k \in DOMAIN Merged /\ out[k] = Merged[k]
    /\ \A k \in DOMAIN Merged : k \in DOMAIN out \/ cur = NoKey \/ k > cur

\* A finished merge holds every distinct key once with the value of the newest
\* input that has it, less the deletions of a merge from step 0.
MergeCorrect == pc = "done" => out = Merged

\* The merge ends.
Terminates == <>(pc = "done")
=============================================================================
