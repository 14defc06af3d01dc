------------------------------ MODULE SegWords -------------------------------
(***************************************************************************)
(* The words of a .kv file: how they are spooled to a temporary file and   *)
(* written from there, with or without patterns (add_word and finish in    *)
(* writer/seg_writer.rs, writer/compress.rs), and the cursor that reads    *)
(* them back (Getter in seg.rs), which steps over a word with next or with *)
(* skip, over two with KvIter, and is set to where a word starts by reset. *)
(*                                                                         *)
(* A signal may interrupt any read of the spool (read_uvarint).            *)
(*                                                                         *)
(* A word is a run of codes, packed into bits, and then, from the next     *)
(* whole byte on, its literals: the bytes no pattern covers.  Of a code    *)
(* only matters what it stands for and how many bits it takes: Huffman     *)
(* shows that it can be read.  Which patterns are worth having is a        *)
(* heuristic; here it is any of PatternSets.  Without compression there    *)
(* are none, and the two ways to write a file come to the same format.     *)
(***************************************************************************)
EXTENDS Varint

CONSTANTS
  Byte,
  MaxWordLen, MaxWords,  \* bound the inputs, not in the code
  MaxInterrupts,         \* bounds the environment, not in the code
  PatternSets, \* sets of non-empty words
  ByteBits,    \* 8
  CodeLengths  \* functions from positions and patterns to the bits their codes take

\* What the dictionaries hold: positions, and patterns.
Code ==
  ({"pos"} \X (0 .. MaxWordLen + 1)) \cup ({"pattern"} \X UNION PatternSets)

ASSUME PatternAssumption ==
  \A ps \in PatternSets : \A p \in ps : p \in Seq(Byte) /\ Len(p) > 0
ASSUME CodeAssumption ==
  ByteBits \in Nat \ {0} /\ CodeLengths \subseteq [Code -> Nat \ {0}]
ASSUME LengthAssumption ==
  MaxWordLen \in Nat /\ MaxWordLen < Pow2[ValueBits] /\ MaxWords \in Nat /\ MaxInterrupts \in Nat

VARIABLES
  compress,    \* the writer's option
  words,       \* the words added
  spool,       \* the bytes of the temporary file: each word's length and the word
  positions,   \* the positions counted so far: those the dictionary will have
  patterns,    \* the patterns it may cover words with
  used,        \* those it does: the patterns the dictionary will have
  length,      \* length[c]: the bits of code c
  phase,       \* "add", "sample", "count", "emit", "read", "failed" or "panic"
  spoolP,      \* how far this pass has read the spool
  interrupts,  \* how many reads of it were interrupted
  codes,       \* the codes in the file, each with the bit it starts at
  literals,    \* the literals, each with the byte it is
  size,        \* the bytes written
  starts,      \* starts[n]: the byte word n starts at
  dataP, dataBit, \* the cursor
  at,          \* the words before it
  answer       \* what the last call of the cursor was, and returned

writing == <<compress, words, spool>>
pass == <<spoolP, interrupts>>
dictionary == <<positions, patterns, used, length>>
file == <<codes, literals, size, starts>>
cursor == <<dataP, dataBit, at, answer>>
vars == <<writing, dictionary, phase, pass, file, cursor>>

Word == BoundedSeq(Byte, MaxWordLen)

Init ==
  /\ compress \in BOOLEAN
  /\ words = <<>>
  /\ spool = <<>>
  /\ positions = {}
  /\ patterns = {} /\ used = {}
  /\ length \in CodeLengths
  /\ phase = "add"
  /\ spoolP = 0 /\ interrupts = 0
  /\ codes = {} /\ literals = {} /\ size = 0 /\ starts = <<>>
  /\ dataP = 0 /\ dataBit = 0 /\ at = 0 /\ answer = [call |-> "none"]

(***************************************************************************)
(* The writer.                                                             *)
(***************************************************************************)
\* add_word counts the positions an uncompressed word takes.
AddWord(w) ==
  /\ phase = "add" /\ Len(words) < MaxWords
  /\ words' = Append(words, w)
  /\ spool' = spool \o PutUvarint[Len(w)] \o w
  /\ positions' = positions \cup {Len(w) + 1, 0}
  /\ UNCHANGED <<compress, patterns, used, length, phase, pass, file, cursor>>

\* finish; with compression the words are read for their patterns and counted again.
Finish ==
  /\ phase = "add"
  /\ phase' = IF compress THEN "sample" ELSE "emit"
  /\ UNCHANGED <<writing, dictionary, pass, file, cursor>>

\* What is left of the spool.
Left == SubSeq(spool, spoolP + 1, Len(spool))

\* Mutant: an interrupted read is an error like any other.
NextUninterrupted(interrupted) ==
  LET header == Decode(Left, interrupted)
  IN  [ok |-> interrupted = 0 /\ header.ok /\ header.used + header.value <= Len(Left),
       word |-> SubSeq(Left, header.used + 1, header.used + header.value),
       used |-> header.used + header.value]

\* One turn of for_each_word: its first word with its length, when reading the length
\* is interrupted that often.
NextInSpool(interrupted) ==
  LET header == Decode(Left, interrupted)
  IN  [ok |-> header.ok /\ header.used + header.value <= Len(Left),
       word |-> SubSeq(Left, header.used + 1, header.used + header.value),
       used |-> header.used + header.value]

Interrupted == 0 .. MaxInterrupts - interrupts

\* A clean end of file is one the first read of a length meets.
AtEnd(interrupted) == Left = <<>> /\ interrupted = 0

PassOver(interrupted) ==
  /\ spoolP' = spoolP + NextInSpool(interrupted).used
  /\ interrupts' = interrupts + interrupted

\* Any other end, and a length the rounds do not suffice for, fails finish.
ReadFails(interrupted) ==
  /\ phase \in {"sample", "count", "emit"}
  /\ ~AtEnd(interrupted) /\ ~NextInSpool(interrupted).ok
  /\ phase' = "failed"
  /\ interrupts' = interrupts + interrupted
  /\ UNCHANGED <<writing, dictionary, spoolP, file, cursor>>

\* build_dictionary, which reads every word to choose the patterns.
SampleWord(interrupted) ==
  /\ phase = "sample" /\ NextInSpool(interrupted).ok
  /\ PassOver(interrupted)
  /\ UNCHANGED <<writing, dictionary, phase, file, cursor>>

SampledAll ==
  /\ phase = "sample" /\ AtEnd(0)
  /\ phase' = "count"
  /\ patterns' \in PatternSets
  /\ positions' = {}
  /\ spoolP' = 0
  /\ UNCHANGED <<writing, used, length, interrupts, file, cursor>>

\* Mutant: a pattern is taken for a match by its first byte.
MatchesFirst(w, i) == {p \in patterns : i < Len(w) /\ p[1] = w[i + 1]}

\* The patterns that match at byte i of a word.
Matches(w, i) == {p \in patterns : IsPrefix(p, SubSeq(w, i + 1, Len(w)))}

LongestMatch(matches) == CHOOSE p \in matches : \A q \in matches : Len(p) >= Len(q)

\* One round of cover: the longest pattern that matches here, or on to the next byte.
Lay(w, s) ==
  IF s.next >= Len(w) THEN s
  ELSE IF Matches(w, s.next) = {} THEN [s EXCEPT !.next = @ + 1]
  ELSE LET p == LongestMatch(Matches(w, s.next))
       IN  [next |-> s.next + Len(p),
            spans |-> Append(s.spans, [start |-> s.next, pattern |-> p])]

\* The patterns laid over a word, greedily from the left.
Cover(w) ==
  LET round[n \in 0 .. Len(w)] ==
        IF n = 0 THEN [next |-> 0, spans |-> <<>>] ELSE Lay(w, round[n - 1])
  IN  round[Len(w)].spans

\* A pattern's position is counted from where the one before it starts.
Distance(cover, k) == cover[k].start - (IF k = 1 THEN 0 ELSE cover[k - 1].start) + 1

\* Mutant: the first pass leaves out the terminator.
CountedNoEnd(w) ==
  {Len(w) + 1} \cup {Distance(Cover(w), k) : k \in DOMAIN Cover(w)}

\* The positions the first pass counts for a word, empty ones with a terminator too.
Counted(w) ==
  {Len(w) + 1, 0} \cup {Distance(Cover(w), k) : k \in DOMAIN Cover(w)}

CountWord(interrupted) ==
  /\ phase = "count"
  /\ LET next == NextInSpool(interrupted)
     IN  /\ next.ok
         /\ positions' = positions \cup Counted(next.word)
         /\ used' = used \cup {c.pattern : c \in Range(Cover(next.word))}
  /\ PassOver(interrupted)
  /\ UNCHANGED <<writing, patterns, length, phase, file, cursor>>

CountedAll ==
  /\ phase = "count" /\ AtEnd(0)
  /\ phase' = "emit"
  /\ spoolP' = 0
  /\ UNCHANGED <<writing, dictionary, interrupts, file, cursor>>

\* The codes of a word: its length, its patterns, and, unless it is empty, the
\* terminator.
CodesOf(w) ==
  LET cover == Cover(w)
  IN  IF w = <<>> THEN << <<"pos", 1>> >>
      ELSE [j \in 1 .. 2 * Len(cover) + 2 |->
              IF j = 1 THEN <<"pos", Len(w) + 1>>
              ELSE IF j = 2 * Len(cover) + 2 THEN <<"pos", 0>>
              ELSE IF j % 2 = 0 THEN <<"pos", Distance(cover, j \div 2)>>
              ELSE <<"pattern", cover[j \div 2].pattern>>]

\* A code there is: "position missing from dictionary".
Known(code) == IF code[1] = "pos" THEN code[2] \in positions ELSE code[2] \in used

\* The only pattern of a dictionary needs no bit.
Bits(code) == IF code[1] = "pattern" /\ Cardinality(used) = 1 THEN 0 ELSE length[code]

\* The first bit of each of some codes, and the bit after the last one.
FirstBits(cs) ==
  LET bit[k \in 1 .. Len(cs) + 1] == IF k = 1 THEN 0 ELSE bit[k - 1] + Bits(cs[k - 1])
  IN  bit

\* The byte the k-th pattern ends with; before the first one nothing is covered.
EndOf(spans, k) == IF k = 0 THEN 0 ELSE spans[k].start + Len(spans[k].pattern)

\* The literals of a word of length n: what is between the end of a pattern and the
\* start of the next one, and after the last.
Uncovered(spans, n) ==
  {p \in 1 .. n : \E k \in 0 .. Len(spans) :
      p > EndOf(spans, k) /\ (k < Len(spans) => p <= spans[k + 1].start)}

\* How many of them there are before byte p.
LiteralsBefore(spans, p) == Cardinality(Uncovered(spans, p - 1))

DivCeil(a, b) == (a + b - 1) \div b

EmitWord(interrupted) ==
  /\ phase = "emit" /\ NextInSpool(interrupted).ok
  /\ LET w == NextInSpool(interrupted).word
         cs == CodesOf(w)
         bit == FirstBits(cs)
         bytes == DivCeil(bit[Len(cs) + 1], ByteBits)
         lits == Uncovered(Cover(w), Len(w))
     IN  IF \E k \in DOMAIN cs : ~Known(cs[k])
         THEN phase' = "panic" /\ UNCHANGED <<pass, file>>
         ELSE /\ codes' = codes \cup
                             {<<ByteBits * size + bit[k], cs[k]>> : k \in DOMAIN cs}
              /\ literals' = literals \cup
                    {<<size + bytes + LiteralsBefore(Cover(w), p), w[p]>> : p \in lits}
              /\ starts' = Append(starts, size)
              /\ size' = size + bytes + Cardinality(lits)
              /\ PassOver(interrupted)
              /\ UNCHANGED phase
  /\ UNCHANGED <<writing, dictionary, cursor>>

\* The file is complete, and opened.
EmittedAll ==
  /\ phase = "emit" /\ AtEnd(0)
  /\ phase' = "read"
  /\ UNCHANGED <<writing, dictionary, pass, file, cursor>>

(***************************************************************************)
(* The cursor.                                                             *)
(***************************************************************************)
\* The first bit of the next whole byte.
Aligned(bit) == ByteBits * DivCeil(bit, ByteBits)

\* The code at a bit, if one starts there.
CodeAt(bit, kind) == {c[2] : c \in {d \in codes : d[1] = bit /\ d[2][1] = kind}}

\* One round of the loop over the codes: a position, and a pattern unless it is the
\* terminator.
Round(s) ==
  LET pos == CHOOSE c \in CodeAt(s.bit, "pos") : TRUE
      next == s.bit + Bits(pos)
      pattern == CHOOSE c \in CodeAt(next, "pattern") : TRUE
      start == s.start + pos[2] - 1
  IN  IF s.at # "code" THEN s
      ELSE IF CodeAt(s.bit, "pos") = {} THEN [s EXCEPT !.at = "missing"]
      ELSE IF pos[2] = 0 THEN [s EXCEPT !.at = "end", !.bit = next]
      ELSE IF CodeAt(next, "pattern") = {} THEN [s EXCEPT !.at = "missing"]
      ELSE [at |-> "code", bit |-> next + Bits(pattern), start |-> start,
            spans |-> Append(s.spans, [start |-> start, pattern |-> pattern[2]])]

\* The loop from a bit on: of a word no longer than MaxWordLen, whose patterns are not
\* empty, it takes at most one round for every byte and one for the terminator.
Spans(bit) ==
  LET round[n \in 0 .. MaxWordLen + 1] ==
        IF n = 0 THEN [at |-> "code", bit |-> bit, start |-> 0, spans |-> <<>>]
        ELSE Round(round[n - 1])
  IN  round[MaxWordLen + 1]

Literal(byte) == CHOOSE b \in Byte : <<byte, b>> \in literals

\* The pattern's byte at byte p of a word.
FromPattern(spans, p) ==
  LET k == CHOOSE j \in DOMAIN spans : p - spans[j].start \in 1 .. Len(spans[j].pattern)
  IN  spans[k].pattern[p - spans[k].start]

\* The word of length n that its spans and the literals from a byte on make up.
Assembled(spans, n, byte) ==
  [p \in 1 .. n |-> IF p \in Uncovered(spans, n)
                    THEN Literal(byte + LiteralsBefore(spans, p))
                    ELSE FromPattern(spans, p)]

\* Mutant: skip leaves the literals after the last pattern to be read as codes.
SkippedInside(spans, n) ==
  Cardinality({p \in Uncovered(spans, n) : \E k \in DOMAIN spans : p <= spans[k].start})

\* The literals skip steps over.
SkippedBytes(spans, n) == Cardinality(Uncovered(spans, n))

\* Mutant: skip returns the number of literals.
SkippedLiterals(spans, n) == Cardinality(Uncovered(spans, n))

\* What skip returns is the word's length, not what it steps over.
Skipped(spans, n) == n

Reset(n) ==
  /\ phase = "read" /\ n \in DOMAIN starts
  /\ dataP' = starts[n] /\ dataBit' = 0
  /\ at' = n - 1
  /\ answer' = [call |-> "reset"]
  /\ UNCHANGED <<writing, dictionary, phase, pass, file>>

HasNext == dataP < size

\* Position 0 is the terminator.
LengthOf(code) == code[2] - 1

\* What next and skip both read from a bit on, cleaned of the rest of a byte: the length,
\* the spans, and the byte after the codes; an empty word is its length alone.
WordAt(bitP) ==
  LET lengths == CodeAt(Aligned(bitP), "pos")
      code == CHOOSE c \in lengths : TRUE
      bit == Aligned(bitP) + Bits(code)
      walk == IF LengthOf(code) = 0 THEN [at |-> "end", bit |-> bit, spans |-> <<>>]
              ELSE Spans(bit)
  IN  IF lengths = {} THEN [at |-> "missing"]
      ELSE [at |-> walk.at, len |-> LengthOf(code), spans |-> walk.spans,
            byte |-> Aligned(walk.bit) \div ByteBits]

\* The byte after a word's literals, and the word.
After(read) == read.byte + Cardinality(Uncovered(read.spans, read.len))
WordOf(read) == Assembled(read.spans, read.len, read.byte)

Missing(read) == read.at # "end"

NextWord ==
  /\ phase = "read" /\ HasNext
  /\ LET read == WordAt(ByteBits * dataP + dataBit)
     IN  IF Missing(read) THEN phase' = "panic" /\ UNCHANGED cursor
         ELSE /\ dataP' = After(read) /\ dataBit' = 0
              /\ at' = at + 1
              /\ answer' = [call |-> "next", word |-> WordOf(read)]
              /\ UNCHANGED phase
  /\ UNCHANGED <<writing, dictionary, pass, file>>

\* KvIter::next: two words of the cursor at once, a key that no word follows having an
\* empty value.
NextPair ==
  /\ phase = "read" /\ HasNext
  /\ LET key == WordAt(ByteBits * dataP + dataBit)
         value == WordAt(ByteBits * After(key))
     IN  IF Missing(key) THEN phase' = "panic" /\ UNCHANGED cursor
         ELSE IF After(key) >= size
         THEN /\ dataP' = After(key) /\ dataBit' = 0
              /\ at' = at + 1
              /\ answer' = [call |-> "pair", first |-> at + 1,
                            key |-> WordOf(key), value |-> <<>>]
              /\ UNCHANGED phase
         ELSE IF Missing(value) THEN phase' = "panic" /\ UNCHANGED cursor
         ELSE /\ dataP' = After(value) /\ dataBit' = 0
              /\ at' = at + 2
              /\ answer' = [call |-> "pair", first |-> at + 1,
                            key |-> WordOf(key), value |-> WordOf(value)]
              /\ UNCHANGED phase
  /\ UNCHANGED <<writing, dictionary, pass, file>>

\* skip: the same walk without the bytes.
Skip ==
  /\ phase = "read" /\ HasNext
  /\ LET read == WordAt(ByteBits * dataP + dataBit)
     IN  IF Missing(read) THEN phase' = "panic" /\ UNCHANGED cursor
         ELSE /\ dataP' = read.byte + SkippedBytes(read.spans, read.len)
              /\ dataBit' = 0
              /\ at' = at + 1
              /\ answer' = [call |-> "skip", len |-> Skipped(read.spans, read.len)]
              /\ UNCHANGED phase
  /\ UNCHANGED <<writing, dictionary, pass, file>>

Next ==
  \/ \E w \in Word : AddWord(w)
  \/ Finish \/ SampledAll \/ CountedAll \/ EmittedAll
  \/ \E n \in Interrupted : ReadFails(n) \/ SampleWord(n) \/ CountWord(n) \/ EmitWord(n)
  \/ \E n \in 1 .. MaxWords : Reset(n)
  \/ NextWord \/ NextPair \/ Skip

Spec == Init /\ [][Next]_vars

-----------------------------------------------------------------------------

\* The cursor is always where a word starts, or at the end of the file when there
\* is none left, whatever calls of next, skip and reset led there: the offsets a
\* .bt is built from are the writer's, and has_next ends with the last word.
CursorOnWord ==
  phase = "read" =>
    dataBit = 0 /\ dataP = IF at = Len(words) THEN size ELSE starts[at + 1]

\* next gives back the word that was added, with whatever patterns it was covered
\* ("Correctness is guaranteed by round-trip"), skip the length of that word, and
\* KvIter the word and the one after it, as a key and its value.
ReadsBack ==
  /\ answer.call = "next" => answer.word = words[at]
  /\ answer.call = "skip" => answer.len = Len(words[at])
  /\ answer.call = "pair" =>
       /\ answer.key = words[answer.first]
       /\ answer.value = IF answer.first < Len(words) THEN words[answer.first + 1] ELSE <<>>

\* No position is missing from the dictionary when the words are emitted, and the
\* cursor finds a code wherever it reads one.
NeverPanics == phase # "panic"

\* The interruptions of the reads are enough to fail here: one at the end of the spool;
\* before a length that can be read, so many that its last byte comes after the last
\* round of read_uvarint, or in it and holds more than that round takes.
TooManyInterrupts ==
  IF Left = <<>> THEN interrupts > 0
  ELSE LET last == Decode(Left, 0).used
       IN  /\ NextInSpool(0).ok
           /\ \/ interrupts + last > MaxBytes
              \/ interrupts + last = MaxBytes /\ ~LastByteFits(Left[last])

\* Every length that add_word spools is read back by every pass, also when signals
\* interrupt the reads of it, as long as read_uvarint has rounds for them: finish fails
\* nowhere else, but at the end of the spool one interrupted read is enough.
FailsOnlyInterrupted == phase = "failed" => TooManyInterrupts
=============================================================================
