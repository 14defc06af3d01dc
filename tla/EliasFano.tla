------------------------------ MODULE EliasFano ------------------------------
(***************************************************************************)
(* The Elias-Fano coding of the offsets in a .bt: the builder              *)
(* (writer/ef_builder.rs) and the reader (eliasfano.rs).  Of each offset   *)
(* the low l bits are kept one after the other; the rest is a one in a bit *)
(* string, the i-th offset's at (offset >> l) + i.  A table of jumps holds *)
(* where every Q-th one is: a word for every SuperQ-th, and, relative to   *)
(* that, half a word for every Q-th.                                       *)
(*                                                                         *)
(* Words, Q and SuperQ are small here and have the proportions they have   *)
(* in the code.  The reader derives l and the sizes of the regions from    *)
(* the header, with the builder's formulas.  BtFile puts the array into a  *)
(* file and back.                                                          *)
(***************************************************************************)
EXTENDS Integers, FiniteSets, Sequences

CONSTANTS
  WordBits,    \* 64
  Q,           \* 256
  SuperQ       \* 16384

ASSUME WordAssumption == WordBits \in Nat \ {0} /\ WordBits % 2 = 0
ASSUME QAssumption == Q \in Nat \ {0} /\ SuperQ \in Nat \ {0} /\ SuperQ % (2 * Q) = 0

VARIABLES
  count,       \* the number of offsets there will be
  maxOffset,   \* a bound of them
  data,        \* the words, numbered from 0: the builder's, then those of an open file
  phase,       \* what runs or has run: "add", "build", "built", ... "open", "scan", "done"
  offsets,     \* the offsets added
  at,          \* build: the bit of the upper region it looks at
  c,           \* build: the ones it has seen
  lastSuperQ,  \* build: where the last SuperQ-th one was
  i,           \* get: its argument
  lower,       \* get: the low bits
  currWord, window, d, \* get: the word of the upper region, its ones, and how many to pass
  result       \* get: what it returned

builder == <<count, maxOffset, offsets>>
building == <<at, c, lastSuperQ>>
getting == <<i, lower, currWord, window, d>>
vars == <<builder, data, phase, building, getting, result>>

DivCeil(a, b) == (a + b - 1) \div b

\* 2 ^ n
Pow2[n \in 0 .. WordBits] == IF n = 0 THEN 1 ELSE 2 * Pow2[n - 1]

Word == 0 .. Pow2[WordBits] - 1
Half == Pow2[WordBits \div 2]

BitsOf(w) == {b \in 0 .. WordBits - 1 : (w \div Pow2[b]) % 2 = 1}

\* v | w
Or(v, w) == LET bits == BitsOf(v) \cup BitsOf(w) IN CHOOSE x \in Word : BitsOf(x) = bits

U == maxOffset + 1

\* The bits kept low: floor(log2(u / count)), or none.
L == IF U \div count = 0 THEN 0
     ELSE CHOOSE l \in 0 .. WordBits - 1 :
            Pow2[l] <= U \div count /\ U \div count < Pow2[l + 1]

WordsLower == DivCeil(count * L, WordBits) + 1
WordsUpper == DivCeil(count + U \div Pow2[L], WordBits)

SuperQSize == 1 + (SuperQ \div Q) \div 2

\* Mutant: no table for the ones after the last full block.
JumpSizeFloor == (count \div SuperQ) * SuperQSize

JumpSize ==
  (count \div SuperQ) * SuperQSize
    + IF count % SuperQ = 0 THEN 0 ELSE 1 + (DivCeil(count % SuperQ, Q) + 3) \div 2

JumpBase == WordsLower + WordsUpper
Size == JumpBase + JumpSize

\* EfBuilder::new, with nothing read yet.
NewBuilder(n, bound) ==
  /\ count = n /\ maxOffset = bound
  /\ data = IF n = 0 THEN <<>> ELSE [w \in 0 .. Size - 1 |-> 0]
  /\ phase = "add"
  /\ offsets = <<>>
  /\ at = 0 /\ c = 0 /\ lastSuperQ = 0
  /\ i = 0 /\ lower = 0 /\ currWord = 0 /\ window = {} /\ d = 0
  /\ result = 0

(***************************************************************************)
(* The builder.                                                            *)
(***************************************************************************)
\* Mutant: what does not fit in the word is not taken to the next one.
SpillLost(words, start, value) ==
  LET w == start \div WordBits
      shift == start % WordBits
  IN  [words EXCEPT ![w] = Or(@, (value * Pow2[shift]) % Pow2[WordBits])]

\* set_lower_bits: the value may straddle two words.
SetLowerBits(words, start, value) ==
  LET w == start \div WordBits
      shift == start % WordBits
      first == [words EXCEPT ![w] = Or(@, (value * Pow2[shift]) % Pow2[WordBits])]
  IN  IF shift = 0 THEN first
      ELSE [first EXCEPT ![w + 1] = Or(@, value \div Pow2[WordBits - shift])]

AddOffset(offset) ==
  /\ phase = "add" /\ Len(offsets) < count
  /\ LET n == Len(offsets)
         low == IF L = 0 THEN data ELSE SetLowerBits(data, n * L, offset % Pow2[L])
         pos == offset \div Pow2[L] + n
         w == WordsLower + pos \div WordBits
     IN  data' = [low EXCEPT ![w] = Or(@, Pow2[pos % WordBits])]
  /\ offsets' = Append(offsets, offset)
  /\ UNCHANGED <<count, maxOffset, phase, building, getting, result>>

StartBuild ==
  /\ phase = "add" /\ count > 0 /\ Len(offsets) = count
  /\ phase' = "build"
  /\ UNCHANGED <<builder, data, building, getting, result>>

\* The word of the jump table for the ones of block n, a SuperQ-th part of all.
SuperEntry(n) == JumpBase + (n \div SuperQ) * SuperQSize

\* Mutant: the halves are not told apart.
ShiftAlways(n) == 1

\* Where the half word for the n-th one is, as a factor, and in which word.
Shift(n) == IF ((n % SuperQ) \div Q) % 2 = 0 THEN 1 ELSE Half
HalfEntry(n) == SuperEntry(n) + 1 + ((n % SuperQ) \div Q) \div 2

\* value in place of one half of a word.
PutHalf(w, shift, value) == w - ((w \div shift) % Half) * shift + value * shift

\* One bit of the upper region; the table changes at every Q-th one.
BuildStep ==
  /\ phase = "build" /\ at < WordsUpper * WordBits
  /\ at' = at + 1
  /\ IF at % WordBits \notin BitsOf(data[WordsLower + at \div WordBits])
     THEN UNCHANGED <<phase, data, c, lastSuperQ>>
     ELSE /\ c' = c + 1
          /\ lastSuperQ' = IF c % SuperQ = 0 THEN at ELSE lastSuperQ
          /\ IF c % Q # 0 THEN UNCHANGED <<phase, data>>
             ELSE IF HalfEntry(c) \notin DOMAIN data \/ at - lastSuperQ' >= Half
             THEN phase' = "panic" /\ UNCHANGED data
             ELSE /\ LET super == IF c % SuperQ # 0 THEN data
                                  ELSE [data EXCEPT ![SuperEntry(c)] = at]
                     IN  data' = [super EXCEPT ![HalfEntry(c)] =
                                    PutHalf(@, Shift(c), at - lastSuperQ')]
                  /\ UNCHANGED phase
  /\ UNCHANGED <<builder, getting, result>>

Built ==
  /\ phase = "build" /\ at = WordsUpper * WordBits
  /\ phase' = "built"
  /\ UNCHANGED <<builder, data, building, getting, result>>

(***************************************************************************)
(* The reader.                                                             *)
(***************************************************************************)
\* The bits from bit n * l on; of a full word only the l lowest are used.
LowerBits(n) ==
  LET w == (n * L) \div WordBits
      shift == (n * L) % WordBits
      high == IF shift = 0 THEN 0
              ELSE (data[w + 1] * Pow2[WordBits - shift]) % Pow2[WordBits]
  IN  IF L = 0 THEN 0 ELSE Or(data[w] \div Pow2[shift], high)

\* Where the one is that the search for the n-th one starts at.
Jump(n) == data[SuperEntry(n)] + ((data[HalfEntry(n)] \div Shift(n)) % Half)

\* The ones of the jump's word from the jump on.
Mask(jump) == {b \in BitsOf(data[WordsLower + jump \div WordBits]) : b >= jump % WordBits}

\* The words of the table are read from the file, which open only knows to hold the
\* regions before it.
Get(n) ==
  /\ phase \in {"open", "done"}
  /\ i' = n
  /\ IF {SuperEntry(n), HalfEntry(n)} \subseteq DOMAIN data
     THEN /\ lower' = LowerBits(n)
          /\ currWord' = Jump(n) \div WordBits
          /\ window' = Mask(Jump(n))
          /\ d' = n % Q
          /\ phase' = "scan"
     ELSE phase' = "panic" /\ UNCHANGED <<lower, currWord, window, d>>
  /\ UNCHANGED <<builder, data, building, result>>

\* Mutant: the ones passed still count.
Uncounted == d

Counted == d - Cardinality(window)

\* The one looked for is in a later word.
NextWord ==
  /\ phase = "scan" /\ Cardinality(window) <= d
  /\ IF WordsLower + currWord + 1 \in DOMAIN data
     THEN /\ currWord' = currWord + 1
          /\ window' = BitsOf(data[WordsLower + currWord + 1])
          /\ d' = Counted
          /\ UNCHANGED phase
     ELSE phase' = "panic" /\ UNCHANGED <<currWord, window, d>>
  /\ UNCHANGED <<builder, data, building, i, lower, result>>

\* select64
Select(ones, n) == CHOOSE b \in ones : Cardinality({o \in ones : o < b}) = n

Found ==
  /\ phase = "scan" /\ Cardinality(window) > d
  /\ result' = ((currWord * WordBits + Select(window, d) - i) * Pow2[L]) + (lower % Pow2[L])
  /\ phase' = "done"
  /\ UNCHANGED <<builder, data, building, getting>>

Last == IF offsets = <<>> THEN 0 ELSE offsets[Len(offsets)]

-----------------------------------------------------------------------------

\* get(i) is the i-th offset added, whichever of the offsets are equal, whatever
\* words their low bits straddle and however far max_offset overestimates them.
GetIsOffset == phase = "done" => result = offsets[i + 1]

\* A search ends.
GetReturns == phase = "scan" ~> phase = "done"
=============================================================================
