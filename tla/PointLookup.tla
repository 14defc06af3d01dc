----------------------------- MODULE PointLookup -----------------------------
(***************************************************************************)
(* What a point lookup promises, whatever structure answers it: a client   *)
(* asks for a key, and the one answer it gets is the value the contents    *)
(* hold for that key, or NotFound when they hold none.                     *)
(***************************************************************************)
CONSTANTS
  Client,      \* the threads that call get
  NotFound     \* the answer for a key the contents do not hold

VARIABLES
  contents,    \* the mapping that is looked up: a function from keys to values
  phase,       \* phase[c]: "idle", "asked" or "answered"
  key,         \* key[c]: the key client c asked for
  reply        \* reply[c]: the answer, meaningful in phase "answered"

vars == <<contents, phase, key, reply>>

Lookup(k) == IF k \in DOMAIN contents THEN contents[k] ELSE NotFound

Init == phase = [c \in Client |-> "idle"]

Ask(c) ==
  /\ phase[c] = "idle"
  /\ phase' = [phase EXCEPT ![c] = "asked"]
  /\ \A d \in Client \ {c} : key'[d] = key[d] /\ reply'[d] = reply[d]
  /\ UNCHANGED contents

Answer(c) ==
  /\ phase[c] = "asked"
  /\ phase' = [phase EXCEPT ![c] = "answered"]
  /\ reply' = [reply EXCEPT ![c] = Lookup(key[c])]
  /\ UNCHANGED <<contents, key>>

Return(c) ==
  /\ phase[c] = "answered"
  /\ phase' = [phase EXCEPT ![c] = "idle"]
  /\ UNCHANGED <<contents, key, reply>>

Next == \E c \in Client : Ask(c) \/ Answer(c) \/ Return(c)

Fairness == \A c \in Client : WF_vars(Answer(c)) /\ WF_vars(Return(c))

Spec == Init /\ [][Next]_vars /\ Fairness
=============================================================================
