-------------------------------- MODULE Bloom ---------------------------------
(***************************************************************************)
(* A .kvei existence filter: how it is built and written                   *)
(* (writer/kvei_writer.rs) and what its reader makes of the file           *)
(* (bloom.rs), which may be only the beginning of what was to be written.  *)
(*                                                                         *)
(* A hash goes through three rounds, each of which rotates it and takes    *)
(* the exclusive or with a key of the filter; what comes out of a round,   *)
(* modulo m, is the number of a bit.  Only that the writer and the reader  *)
(* do the same in a round matters here: a round is any function.  A word   *)
(* is the set of the bits set in it.                                       *)
(***************************************************************************)
EXTENDS Integers, Sequences

CONSTANTS
  WordBits,    \* 64
  HashValue,   \* the 64-bit values
  Mix,         \* Mix[r][h]: what round r makes of h
  Sizes        \* what optimal_m makes of the numbers of keys

Round == 1 .. 3

ASSUME WordBitsAssumption == WordBits \in Nat \ {0}
ASSUME MixAssumption ==
  HashValue \subseteq Nat /\ Mix \in [Round -> [HashValue -> HashValue]]
ASSUME SizesAssumption == Sizes \subseteq Nat \ {0, 1}

VARIABLES
  stage,       \* "build", "written" or "opened"
  empty,       \* KveiBuilder.empty
  m,           \* the number of bits
  bits,        \* bits[w]: word w
  added,       \* the hashes added
  file,        \* the file: how far it goes, its m and its words
  kind         \* what the reader takes it for: "Empty", "Bloom", "Unsupported"

filterVars == <<stage, empty, m, bits, added, file, kind>>

\* The words m bits need.
NWords(size) == (size + WordBits - 1) \div WordBits

\* No file, or an empty one; "header" is one that ends before the words.
NoBytes == [reach |-> "nothing", m |-> 0, words |-> <<>>]

\* KveiBuilder::new: fewer than two keys make an empty filter.
NewFilter(n) ==
  /\ stage = "build"
  /\ added = {}
  /\ empty = (n < 2)
  /\ m \in IF empty THEN {0} ELSE Sizes
  /\ bits = [w \in 0 .. NWords(m) - 1 |-> {}]
  /\ file = NoBytes
  /\ kind = "Unsupported"

\* The three rounds.
First(h) == Mix[1][h]
Second(h) == Mix[2][First(h)]
Third(h) == Mix[3][Second(h)]

\* Mutant: the writer leaves out the last round.
SetByTwo(h) == {First(h) % m, Second(h) % m}

\* The bits add_hash sets for a hash.
SetBy(h) == {First(h) % m, Second(h) % m, Third(h) % m}

AddHash(h) ==
  /\ stage = "build"
  /\ bits' = IF empty THEN bits
             ELSE [w \in DOMAIN bits |->
                     bits[w] \cup {b \in 0 .. WordBits - 1 : w * WordBits + b \in SetBy(h)}]
  /\ added' = added \cup {h}
  /\ UNCHANGED <<stage, empty, m, file, kind>>

\* The first n words of the filter, in order.
FirstWords(n) == [i \in 1 .. n |-> bits[i - 1]]

\* finish creates the file and writes it at once, unless it is to be empty.  A write
\* that fails, or the end of the process, leaves some beginning of it.
FinishFilter ==
  /\ stage = "build"
  /\ stage' = "written"
  /\ IF empty THEN file' = NoBytes
     ELSE \/ file' = NoBytes
          \/ file' = [reach |-> "header", m |-> 0, words |-> <<>>]
          \/ \E n \in 0 .. NWords(m) :
               file' = [reach |-> "words", m |-> m, words |-> FirstWords(n)]
  /\ UNCHANGED <<empty, m, bits, added, kind>>

\* Mutant: a last word that is not full is not asked for.
HoldsFullWords(f) == Len(f.words) >= f.m \div WordBits

\* All the words the header speaks of are in the file.
HoldsAll(f) == Len(f.words) >= NWords(f.m)

\* ExistenceFilter::parse
OpenFilter ==
  /\ stage = "written"
  /\ stage' = "opened"
  /\ kind' = IF file.reach = "nothing" THEN "Empty"
             ELSE IF file.reach = "words" /\ file.m >= 2 /\ HoldsAll(file) THEN "Bloom"
             ELSE "Unsupported"
  /\ UNCHANGED <<empty, m, bits, added, file>>

\* bit_word: a word beyond the end of the file, where the reader would panic, has no bits.
BitSet(i) ==
  /\ i \div WordBits + 1 \in DOMAIN file.words
  /\ i % WordBits \in file.words[i \div WordBits + 1]

\* contains_hash
ContainsHash(h) ==
  kind = "Bloom" => /\ BitSet(First(h) % file.m)
                    /\ BitSet(Second(h) % file.m)
                    /\ BitSet(Third(h) % file.m)

FilterNext == (\E h \in HashValue : AddHash(h)) \/ FinishFilter \/ OpenFilter

FilterInit == \E n \in Nat : NewFilter(n)

FilterSpec == FilterInit /\ [][FilterNext]_filterVars

-----------------------------------------------------------------------------

\* "It never reports a real key as absent" (bloom.rs:5): every hash added is
\* contained in the filter read from the file, wherever its bits lie in the words
\* and however little of the file was written.
NoFalseNegative == stage = "opened" => \A h \in added : ContainsHash(h)
=============================================================================
