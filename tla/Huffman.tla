------------------------------- MODULE Huffman -------------------------------
(***************************************************************************)
(* The Huffman codes of a .kv file: how the writer assigns them            *)
(* (writer/huffman.rs) and packs them into bytes (writer/bitwriter.rs),    *)
(* how the reader rebuilds its nested decoding tables from the depths      *)
(* alone (build_pos_table and build_pattern_table in seg.rs), and how the  *)
(* cursor decodes with them (next_pos, next_pattern).                      *)
(*                                                                         *)
(* The dictionary is a run of varints, of bytes of their own size here.    *)
(*                                                                         *)
(* Symbols are positions or patterns.  They are numbered in the order in   *)
(* which sym_cmp sorts them: by how often they are used, then by their     *)
(* initial code, of which nothing else matters.  A code is the sequence of *)
(* its bits, the one nearest to the root first.                            *)
(***************************************************************************)
EXTENDS Varint

CONSTANTS
  BitsPerByte, \* 8
  TableBits,   \* 9: the most bits one table decodes
  MaxDepth,    \* 50: deeper dictionaries are refused
  MaxSymbols, Uses, MaxMessage  \* bound the inputs, not in the code

\* A lookup reads two bytes, of the first of them possibly only the last bit.
ASSUME BitsAssumption ==
  BitsPerByte \in Nat \ {0} /\ TableBits \in 1 .. BitsPerByte + 1 /\ MaxDepth \in Nat
ASSUME UsesAssumption == Uses \subseteq Nat \ {0}
ASSUME SymbolsAssumption ==
  MaxSymbols \in Nat /\ MaxSymbols < Pow2[ValueBits] /\ MaxMessage \in Nat

VARIABLES
  uses,        \* uses[s]: how often symbol s occurs
  nextSym,     \* i, the first symbol not in the tree yet
  heap,        \* the subtrees: their leaves, uses, and when they were made
  codeOf,      \* codeOf[s]: the bits assigned to s so far
  stage,       \* "build", "open", "tables", "encode", "read", "refused" or "panic"
  dictBytes,   \* the dictionary in the file: depths and symbols, in the order of the codes
  dict,        \* the dictionary as it is read
  tables,      \* the reader's decoding tables
  message,     \* the symbols written
  data,        \* the bytes of the file from there on
  atByte, atBit, \* data_p and data_bit, the cursor
  path,        \* the table it is in: the lookups that led there
  decoded      \* the symbols it has read

tree == <<uses, nextSym, heap, codeOf>>
built == <<dictBytes, dict, tables>>
coded == <<message, data>>
decoding == <<atByte, atBit, path, decoded>>
huffVars == <<tree, stage, built, coded, decoding>>

Symbol == DOMAIN uses

NoTables == [next |-> 1, slots |-> {}, widths |-> {}]

HuffInit ==
  /\ \E n \in 1 .. MaxSymbols :
       uses \in {u \in [1 .. n -> Uses] : \A s \in 2 .. n : u[s - 1] <= u[s]}
  /\ nextSym = 1
  /\ heap = {}
  /\ codeOf = [s \in Symbol |-> <<>>]
  /\ stage = "build"
  /\ dictBytes = <<>> /\ dict = <<>>
  /\ tables = NoTables
  /\ message = <<>> /\ data = <<>>
  /\ atByte = 0 /\ atBit = 0 /\ path = <<>> /\ decoded = <<>>

(***************************************************************************)
(* Building the tree, bottom up.                                           *)
(***************************************************************************)
Least(h) ==
  CHOOSE m \in h : \A o \in h : m.uses < o.uses \/ (m.uses = o.uses /\ m.made <= o.made)

\* Mutant: subtrees go before symbols.
TakesHeapFirst(h, i) == h # {}

\* A subtree is taken when it has less uses than the next symbol, which wins a tie.
TakesHeap(h, i) == h # {} /\ (i > Len(uses) \/ Least(h).uses < uses[i])

\* What is taken from the queues h and i, and what is left of them.
Taken(h, i) ==
  IF TakesHeap(h, i)
  THEN [leaves |-> Least(h).leaves, uses |-> Least(h).uses, heap |-> h \ {Least(h)},
        next |-> i]
  ELSE [leaves |-> {i}, uses |-> uses[i], heap |-> h, next |-> i + 1]

\* code << 1 | bit: the bits assigned before come after it.
AddBit(bit, bits) == <<bit>> \o bits

UsesOf(zero, one) == zero.uses + one.uses

\* tie: each subtree made took two roots away and added one.
Made == nextSym - 1 - Cardinality(heap)

Roots == Cardinality(heap) + Len(uses) + 1 - nextSym

Combine ==
  /\ stage = "build" /\ Roots > 1
  /\ LET zero == Taken(heap, nextSym)
         one == Taken(zero.heap, zero.next)
     IN  /\ heap' = one.heap \cup {[leaves |-> zero.leaves \cup one.leaves,
                                    uses |-> UsesOf(zero, one),
                                    made |-> Made]}
         /\ nextSym' = one.next
         /\ codeOf' = [s \in Symbol |->
              IF s \in zero.leaves THEN AddBit(0, codeOf[s])
              ELSE IF s \in one.leaves THEN AddBit(1, codeOf[s]) ELSE codeOf[s]]
  /\ UNCHANGED <<uses, stage, built, coded, decoding>>

(***************************************************************************)
(* Writing: the dictionary, in the order of the codes, and a message.      *)
(***************************************************************************)
\* The order of the reversed codes.
Before(a, b) ==
  \E i \in DOMAIN a \cap DOMAIN b : a[i] < b[i] /\ \A j \in 1 .. i - 1 : a[j] = b[j]

\* The symbols in the order of their codes.
InOrder ==
  [k \in Symbol |->
     CHOOSE s \in Symbol : Cardinality({t \in Symbol : Before(codeOf[t], codeOf[s])}) = k - 1]

\* The codes are not stored, only how long they are.  A single symbol has the
\* empty code, at depth 0.
WriteDictionary ==
  /\ stage = "build" /\ Roots <= 1
  /\ stage' = "open"
  /\ dictBytes' =
       FlattenSeq([k \in Symbol |->
         LET s == InOrder[k] IN PutUvarint[Len(codeOf[s])] \o PutUvarint[s]])
  /\ UNCHANGED <<tree, dict, tables, coded, decoding>>

\* The message's bits, low bit of each byte first, zeros at the end.
BitsOf(symbols) == FlattenSeq([i \in DOMAIN symbols |-> codeOf[symbols[i]]])

\* The sum of a sequence of numbers.
Total(f) ==
  LET to[k \in 0 .. Len(f)] == IF k = 0 THEN 0 ELSE to[k - 1] + f[k]
  IN  to[Len(f)]

\* The number that bits say, the lowest one first.
Number(bits) == Total([k \in DOMAIN bits |-> bits[k] * Pow2[k - 1]])

BytesFor(n) == (n + BitsPerByte - 1) \div BitsPerByte

Packed(bits) ==
  [i \in 1 .. BytesFor(Len(bits)) |->
     Number(SubSeq(bits, BitsPerByte * (i - 1) + 1, Min({BitsPerByte * i, Len(bits)})))]

\* What comes next is a literal, the next word, or the end of the file.
Encode ==
  /\ stage = "encode"
  /\ message' \in UNION {[1 .. n -> Symbol] : n \in 1 .. MaxMessage}
  /\ \E tail \in {<<>>} \cup {<<b>> : b \in 0 .. Pow2[BitsPerByte] - 1} :
       data' = Packed(BitsOf(message')) \o tail
  /\ stage' = "read"
  /\ UNCHANGED <<tree, built, decoding>>

(***************************************************************************)
(* The reader's tables.                                                    *)
(***************************************************************************)
\* Mutant: the last slot is left out.
StrideShort(c, bits, width) == {c + j * Pow2[bits] : j \in 0 .. Pow2[width - bits] - 2}

\* Every lookup whose low bits are the code c.
Stride(c, bits, width) == {c + j * Pow2[bits] : j \in 0 .. Pow2[width - bits] - 1}

Width(maxDepth) == IF maxDepth > TableBits THEN TableBits ELSE maxDepth

\* Where an entry goes: the node at a depth whose last bits, after those that led to
\* its table, are the code.
Place == [next : Nat, table : Seq(Nat), width : Nat, code : Nat, bits : Nat, depth : Nat]

\* The symbol of the next entry fills every slot of the node.
Leaf(at) ==
  [next |-> at.next + 1,
   slots |-> {[table |-> at.table, lookup |-> x, len |-> at.bits,
               symbol |-> dict[at.next].symbol] : x \in Stride(at.code, at.bits, at.width)},
   widths |-> {}]

\* The root of the table that a node takes which is as deep as its own table reads.
Nested(at, maxDepth) ==
  [at EXCEPT !.table = Append(@, at.code), !.width = Width(maxDepth), !.code = 0, !.bits = 0]

\* A slot of length 0 leads to it.
Link(at, maxDepth) ==
  [slots |-> {[table |-> at.table, lookup |-> at.code, len |-> 0, symbol |-> 0]},
   widths |-> {<<Append(at.table, at.code), Width(maxDepth)>>}]

Child(at, bit, k) ==
  [at EXCEPT !.next = k, !.code = bit * Pow2[at.bits] + @, !.bits = @ + 1, !.depth = @ + 1]

\* The entries from at.next on, as far as they are below the node: the slots they fill,
\* the tables they need and the entry that comes after them.
Fill[maxDepth \in 0 .. MaxDepth] ==
  [at \in Place |->
     LET here == at.bits < TableBits
         top == IF here THEN at ELSE Nested(at, maxDepth)
         link == IF here THEN [slots |-> {}, widths |-> {}] ELSE Link(at, maxDepth)
         zero == Fill[maxDepth - 1][Child(top, 0, at.next)]
         one == Fill[maxDepth - 1][Child(top, 1, zero.next)]
     IN  IF at.next > Len(dict) THEN [next |-> at.next, slots |-> {}, widths |-> {}]
         ELSE IF at.depth = dict[at.next].depth THEN Leaf(at)
         ELSE IF maxDepth = 0
         THEN [next |-> at.next, slots |-> link.slots, widths |-> link.widths]
         ELSE [next |-> one.next,
               slots |-> link.slots \cup zero.slots \cup one.slots,
               widths |-> link.widths \cup zero.widths \cup one.widths]]

\* The loop over the dictionary's bytes from dp on: its entries, or a refusal.
Entries ==
  LET size == Len(dictBytes)
      from[dp \in 0 .. size] ==
        IF dp = size THEN [ok |-> TRUE, entries |-> <<>>]
        ELSE LET depth == Uvarint(SubSeq(dictBytes, dp + 1, size))
                 pos == Uvarint(SubSeq(dictBytes, dp + depth.used + 1, size))
             IN  IF ~depth.ok \/ depth.value > MaxDepth \/ ~pos.ok
                 THEN [ok |-> FALSE, entries |-> <<>>]
                 ELSE LET rest == from[dp + depth.used + pos.used]
                      IN  [rest EXCEPT !.entries =
                             <<[symbol |-> pos.value, depth |-> depth.value]>> \o @]
  IN  from[0]

ReadDictionary ==
  /\ stage = "open"
  /\ LET read == Entries
     IN  IF read.ok THEN dict' = read.entries /\ stage' = "tables"
         ELSE stage' = "refused" /\ UNCHANGED dict
  /\ UNCHANGED <<tree, dictBytes, tables, coded, decoding>>

\* The tables depend on nothing but the dictionary, and are made here before there is a
\* message.
Open ==
  /\ stage = "tables"
  /\ stage' = "encode"
  /\ LET maxDepth == Max({dict[k].depth : k \in DOMAIN dict})
         width == Width(maxDepth)
         root == [next |-> 1, table |-> <<>>, width |-> width, code |-> 0, bits |-> 0,
                  depth |-> 0]
     IN  tables' = [Fill[maxDepth][root] EXCEPT !.widths = @ \cup {<< <<>>, width>>}]
  /\ UNCHANGED <<tree, dictBytes, dict, coded, decoding>>

(***************************************************************************)
(* Decoding.                                                               *)
(***************************************************************************)
\* Mutant: the second byte is left out where a lookup just reaches it.
SecondByteLate(width) == BitsPerByte - atBit + 1 < width /\ atByte + 1 < Len(data)

SecondByte(width) == BitsPerByte - atBit < width /\ atByte + 1 < Len(data)

\* The next width bits of the file, as far as there are any.
Lookup(width) ==
  LET second == IF SecondByte(width) THEN data[atByte + 2] * Pow2[BitsPerByte - atBit] ELSE 0
  IN  (data[atByte + 1] \div Pow2[atBit] + second) % Pow2[width]

Advance(bits) ==
  /\ atByte' = atByte + (atBit + bits) \div BitsPerByte
  /\ atBit' = (atBit + bits) % BitsPerByte

\* Mutant: an inner table is entered after as many bits as its parent reads.
InnerBitsShort == TableBits - 1

InnerBits == TableBits

\* One turn of the loop.  A root table of width 0 holds the one symbol there is.
Step ==
  /\ stage = "read" /\ Len(decoded) < Len(message)
  /\ LET width == CHOOSE w \in 0 .. TableBits : <<path, w>> \in tables.widths
         slots == {t \in tables.slots : t.table = path /\ t.lookup = Lookup(width)}
     IN  IF width = 0
         THEN /\ decoded' = Append(decoded, dict[1].symbol)
              /\ UNCHANGED <<stage, atByte, atBit, path>>
         ELSE IF atByte >= Len(data) \/ slots = {}
         THEN stage' = "panic" /\ UNCHANGED decoding
         ELSE \E t \in slots :
                /\ IF t.len = 0
                   THEN /\ path' = Append(path, t.lookup)
                        /\ Advance(InnerBits)
                        /\ UNCHANGED decoded
                   ELSE /\ path' = <<>>
                        /\ Advance(t.len)
                        /\ decoded' = Append(decoded, t.symbol)
                /\ UNCHANGED stage
  /\ UNCHANGED <<tree, built, coded>>

HuffNext == Combine \/ WriteDictionary \/ ReadDictionary \/ Open \/ Encode \/ Step

HuffSpec == HuffInit /\ [][HuffNext]_huffVars

\* Decoding is a loop of one call; that a file is opened at all is nobody's promise.
HuffFairSpec == HuffSpec /\ WF_huffVars(Step)

-----------------------------------------------------------------------------

Cost(depths) == Total([s \in Symbol |-> uses[s] * depths[s]])

Kraft(depths) ==
  Total([s \in Symbol |-> Pow2[MaxSymbols - depths[s]]]) <= Pow2[MaxSymbols]

\* The lengths that do not grow from a symbol to the next, more often used one.
Lengths[n \in 0 .. MaxSymbols] ==
  IF n = 0 THEN {<<>>}
  ELSE UNION {{Append(e, x) : x \in 0 .. IF n = 1 THEN MaxSymbols ELSE e[n - 1]} :
                e \in Lengths[n - 1]}

\* No other assignment of code lengths that can be decoded makes a shorter file.
\* The more often a symbol is used, the shorter its code may be taken to be.
OptimalCode ==
  stage = "encode" =>
    LET depths == [s \in Symbol |-> Len(codeOf[s])]
    IN  Kraft(depths) /\ \A d \in Lengths[Len(uses)] : Kraft(d) => Cost(depths) <= Cost(d)

\* Depths alone rebuild the writer's codes: the tables take in the whole dictionary
\* and have exactly one slot for every lookup, whatever junk follows a code.
TablesComplete ==
  stage = "encode" =>
    /\ tables.next = Len(dict) + 1
    /\ \A w \in tables.widths : w[2] > 0 =>
         \A x \in 0 .. Pow2[w[2]] - 1 :
           Cardinality({t \in tables.slots : t.table = w[1] /\ t.lookup = x}) = 1

\* What is decoded is what was encoded, to the bit, wherever in a byte it starts
\* and whatever follows it ("the exact inverse of the reader's Getter bit reads"):
\* no lookup fails, and none reads past the end of the file.
ReadsWhatWasWritten ==
  /\ stage # "panic"
  /\ IsPrefix(decoded, message)
  /\ path = <<>> => BitsPerByte * atByte + atBit = Len(BitsOf(decoded))

\* The fewest uses there are of symbols in a tree of a depth: but for the first of
\* them Fibonacci numbers with one more in every sum, as a subtree waits behind every
\* symbol and every older subtree used no more often.
FewestUses[depth \in 0 .. MaxDepth + 1] ==
  IF depth < 3 THEN depth + 1
  ELSE FewestUses[depth - 1] + FewestUses[depth - 2] + IF depth = 3 THEN 0 ELSE 1

\* The reader refuses a dictionary of the writer only when it is too deep, and that
\* deep it only gets when there are as many words as no file has: 65 thousand million
\* for MaxDepth 50.
RefusedOnlyWhenHuge ==
  stage = "refused" => Total(uses) >= FewestUses[MaxDepth + 1]

\* Every message there is a reader of is decoded to its end.
Decodes == stage = "read" ~> (stage = "read" /\ decoded = message)
=============================================================================
