-------------------------------- MODULE Varint --------------------------------
(***************************************************************************)
(* The variable-length integers of a .kv's dictionaries and of the spooled *)
(* words (varint.rs): the low GroupBits bits first, in every byte but the  *)
(* last a flag above them.  The width of a value is that of MaxBytes       *)
(* groups less what the last byte must not hold.                           *)
(***************************************************************************)
EXTENDS Integers, FiniteSetsExt, SequencesExt

CONSTANTS
  GroupBits,   \* 7
  MaxBytes,    \* 10
  ValueBits    \* 64

\* 2 ^ n
Pow2[n \in Nat] == IF n = 0 THEN 1 ELSE 2 * Pow2[n - 1]

ASSUME VarintAssumption ==
  /\ GroupBits \in Nat \ {0} /\ MaxBytes \in Nat \ {0}
  /\ ValueBits \in GroupBits * (MaxBytes - 1) + 1 .. GroupBits * MaxBytes

Flag == Pow2[GroupBits]

OneGroup(v) == v < Flag

Values == 0 .. Pow2[ValueBits] - 1

\* put_uvarint
PutUvarint[v \in Values] ==
  IF OneGroup(v) THEN <<v>> ELSE <<Flag + (v % Flag)>> \o PutUvarint[v \div Flag]

\* Mutant: the last byte may hold nothing.
LastByteZero(c) == c = 0

\* c > 1 is an overflow.
LastByteFits(c) == c < Pow2[ValueBits - GroupBits * (MaxBytes - 1)]

\* What the first bytes of b, up to the last one, say: the low bits come first.
Value(b, last) ==
  LET from[k \in 1 .. last] ==
        (b[k] % Flag) + IF k = last THEN 0 ELSE Flag * from[k + 1]
  IN  from[1]

Failed == [ok |-> FALSE, value |-> 0, used |-> 0]

\* What the first bytes of b say, the last of them being looked at in round
\* interrupts + used of the loop, which makes MaxBytes rounds.
Decode(b, interrupts) ==
  LET ends == {k \in DOMAIN b : b[k] < Flag}
      last == Min(ends)
  IN  IF \/ ends = {}
         \/ interrupts + last > MaxBytes
         \/ interrupts + last = MaxBytes /\ ~LastByteFits(b[last])
      THEN Failed
      ELSE [ok |-> TRUE,
            value |-> Value(b, last),
            used |-> last]

\* uvarint: bytes in memory.
Uvarint(b) == Decode(b, 0)
=============================================================================
