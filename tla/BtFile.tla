-------------------------------- MODULE BtFile --------------------------------
(***************************************************************************)
(* A .bt from its making to its use: build_bt_from_seg writes the          *)
(* Elias-Fano array of the keys' offsets and, in the footer layout, every  *)
(* M-th key before it (writer/bt_writer.rs); the file may be only the      *)
(* beginning of what was to be written; a reader recognises the layout,    *)
(* checks it, parses the keys and gets offsets (btree.rs, eliasfano.rs).   *)
(*                                                                         *)
(* A cell of a file is what is written at once: a number, a word of the    *)
(* array, a byte of a key.  A cell says which of these it is, so a magic   *)
(* is never met by chance.  The array starts at a multiple of eight bytes  *)
(* and so does what follows it: the padding before the footer is empty.    *)
(***************************************************************************)
EXTENDS EliasFano

CONSTANTS
  Plans,       \* what is built: count, bound, layout, m, lens and torn
  EfAlign,     \* the array's alignment in cells, 4096 bytes
  MaxKeyLen    \* u16::MAX

ASSUME PlansAssumption ==
  \A p \in Plans :
    /\ p.count \in Nat /\ p.m \in Nat
    /\ p.bound \in Nat /\ p.bound + 1 < Pow2[WordBits]
    /\ p.layout \in {"Legacy", "Footer"} /\ p.torn \in BOOLEAN
    /\ p.lens \in [0 .. p.count - 1 -> Nat]
ASSUME EfAlignAssumption == EfAlign \in Nat /\ EfAlign > 1

VARIABLES
  plan,        \* what is built; torn: the writing may stop anywhere
  nodes,       \* build: the cells before the array
  file,        \* the file's cells
  kind         \* what the reader takes it for: "None" before, "Empty", "Legacy", "Footer"

btVars == <<vars, plan, nodes, file, kind>>

Num(n) == <<"num", n>>
Mark == <<"mark", 1>>
Magic == <<"magic", 0>>
Pad == <<"pad", 0>>

\* The bytes of key k.
KeyCells(k) == [p \in 1 .. plan.lens[k] |-> <<"byte", k * 10 + p>>]

Fanout == IF plan.m = 0 THEN 1 ELSE plan.m

BtInit ==
  /\ plan \in Plans
  /\ NewBuilder(plan.count, plan.bound)
  /\ nodes = IF plan.layout = "Footer" THEN <<Mark>> ELSE <<>>
  /\ file = <<>>
  /\ kind = "None"

\* Mutant: the last key of a block is taken.
TakesLastKey(di) == plan.layout = "Footer" /\ (di + 1) % Fanout = 0

\* Key di is written to the nodes.
TakesKey(di) == plan.layout = "Footer" /\ di % Fanout = 0

\* One round of the loop.
AddKey(offset) ==
  LET di == Len(offsets)
  IN  /\ AddOffset(offset)
      /\ TakesKey(di) => plan.lens[di] <= MaxKeyLen
      /\ nodes' = IF TakesKey(di) THEN nodes \o <<Num(plan.lens[di])>> \o KeyCells(di)
                  ELSE nodes
      /\ UNCHANGED <<plan, file, kind>>

\* The key's length is no u16: no file is made.
KeyTooLong ==
  /\ phase = "add" /\ Len(offsets) < count
  /\ TakesKey(Len(offsets)) /\ plan.lens[Len(offsets)] > MaxKeyLen
  /\ phase' = "failed"
  /\ UNCHANGED <<builder, data, building, getting, result, plan, nodes, file, kind>>

Build == (StartBuild \/ BuildStep \/ Built) /\ UNCHANGED <<plan, nodes, file, kind>>

\* pad_to
Padded(cells) == cells \o [p \in 1 .. (EfAlign - (Len(cells) % EfAlign)) % EfAlign |-> Pad]

\* write_to
EfCells == <<Num(count - 1), Num(U)>> \o [w \in 1 .. Size |-> Num(data[w - 1])]

WholeFile ==
  IF count = 0 THEN <<>>
  ELSE IF plan.layout = "Legacy" THEN EfCells
  ELSE LET body == Padded(nodes)
       IN  body \o EfCells \o <<Num(count), Num(Fanout), Num(Len(body)), Num(3), Magic>>

\* write_all, or for an empty domain just File::create.
WriteBt ==
  /\ phase = "built" \/ (phase = "add" /\ count = 0)
  /\ phase' = "written"
  /\ \E n \in IF plan.torn THEN 0 .. Len(WholeFile) ELSE {Len(WholeFile)} :
       file' = SubSeq(WholeFile, 1, n)
  /\ UNCHANGED <<builder, data, building, getting, result, plan, nodes, kind>>

(***************************************************************************)
(* The reader.                                                             *)
(***************************************************************************)
\* Where the array of a footer file starts, and what else the footer says.
Payload == Len(file) - 5
FooterKeys == file[Payload + 1][2]
FooterM == file[Payload + 2][2]
EfOffset == file[Payload + 3][2]
FooterLen == file[Len(file) - 1][2]

HasMagic == Len(file) >= 2 /\ file[Len(file)] = Magic

\* Mutant: only the header is checked.
HeaderFits(base) == base + 2 <= Len(file)

\* EliasFano::open: the header and the two regions of bits are in the file.
ArrayFits(base) == base + 2 <= Len(file) /\ base + 2 + WordsLower + WordsUpper <= Len(file)

\* The words after the header.
WordsFrom(base) == [w \in 0 .. Len(file) - base - 3 |-> file[base + 3 + w][2]]

\* BtreeIndex::open
OpenBt ==
  /\ phase = "written"
  /\ \/ /\ file = <<>>
        /\ kind' = "Empty" /\ data' = <<>> /\ phase' = "open"
     \/ /\ HasMagic
        /\ IF /\ FooterLen >= 3 /\ FooterLen + 2 <= Len(file)
              /\ EfOffset < Payload
              /\ ArrayFits(EfOffset)
              /\ file[EfOffset + 1][2] + 1 = FooterKeys
           THEN kind' = "Footer" /\ data' = WordsFrom(EfOffset) /\ phase' = "open"
           ELSE phase' = "refused" /\ UNCHANGED <<data, kind>>
     \/ /\ file # <<>> /\ ~HasMagic
        /\ IF file[1] # Mark /\ ArrayFits(0)
           THEN kind' = "Legacy" /\ data' = WordsFrom(0) /\ phase' = "open"
           ELSE phase' = "refused" /\ UNCHANGED <<data, kind>>
  /\ UNCHANGED <<builder, building, getting, result, plan, nodes, file>>

\* BtreeIndex::key_count
KeyCount == IF kind = "Empty" THEN 0 ELSE count

\* BtreeIndex::key_offset
KeyOffset(n) == Get(n) /\ UNCHANGED <<plan, nodes, file, kind>>

Search == (NextWord \/ Found) /\ UNCHANGED <<plan, nodes, file, kind>>

\* Mutant: the lengths are taken for equal.
AlwaysUniform(klen, fixedLen) == TRUE

SameLength(klen, fixedLen) == klen = fixedLen

NodeCount == DivCeil(FooterKeys, FooterM)

\* parse_nodes up to entry j: where it stands, the keys' bytes in one arena, where each
\* key ends, and whether all are as long as the first.
Parsed[j \in 0 .. NodeCount] ==
  IF j = 0
  THEN [p |-> 1, arena |-> <<>>, ends |-> <<>>, fixedLen |-> 0, uniform |-> TRUE, ok |-> TRUE]
  ELSE LET s == Parsed[j - 1]
           klen == file[s.p + 1][2]
           arena == s.arena \o SubSeq(file, s.p + 2, s.p + 1 + klen)
       IN  IF ~s.ok \/ s.p + 1 + klen > EfOffset THEN [s EXCEPT !.ok = FALSE]
           ELSE [p |-> s.p + 1 + klen,
                 arena |-> arena,
                 ends |-> Append(s.ends, Len(arena)),
                 fixedLen |-> IF j = 1 THEN klen ELSE s.fixedLen,
                 uniform |-> s.uniform /\ (j = 1 \/ SameLength(klen, s.fixedLen)),
                 ok |-> TRUE]

\* Nodes::key
NodeKey(parsed, j) ==
  IF parsed.uniform
  THEN SubSeq(parsed.arena, j * parsed.fixedLen + 1, (j + 1) * parsed.fixedLen)
  ELSE SubSeq(parsed.arena, IF j = 0 THEN 1 ELSE parsed.ends[j] + 1, parsed.ends[j + 1])

BtNext ==
  \/ \E offset \in Last .. maxOffset : AddKey(offset)
  \/ KeyTooLong \/ Build \/ WriteBt \/ OpenBt
  \/ \E n \in 0 .. KeyCount - 1 : KeyOffset(n)
  \/ Search

\* build and get are loops of one call each.
BtSpec ==
  /\ BtInit
  /\ [][BtNext]_btVars
  /\ WF_btVars(Build) /\ WF_btVars(Search)

-----------------------------------------------------------------------------

\* A file that opens, and is not of zero length, is all of what was to be written, but
\* for a legacy file, of which the end of the table of jumps may be missing
\* (btree.rs:39: the magic proves that "the file isn't truncated"; legacy has none).
OpenedIsWhole ==
  phase \in {"open", "scan", "done"} /\ kind # "Empty" =>
    \/ Len(file) = IF kind = "Legacy" THEN 2 + Size ELSE Len(Padded(nodes)) + Size + 7
    \/ plan.layout = "Legacy" /\ kind = "Legacy" /\ Len(file) >= 2 + JumpBase

\* Nothing but a table of jumps that was cut off makes get panic: no index leaves the
\* array while the table is built, nor when a search runs on from a jump, and no jump is
\* too long for half a word.
OnlyCutJumpsPanic == phase = "panic" => kind = "Legacy" /\ Len(file) < 2 + Size

\* The keys the reader narrows with are those at every M-th position, also the last and
\* shorter block's, whether all keys have one length or not.
NodesAreKeys ==
  phase = "open" /\ kind = "Footer" =>
    /\ Parsed[NodeCount].ok
    /\ \A k \in 0 .. count - 1 :
         k % Fanout = 0 => NodeKey(Parsed[NodeCount], k \div Fanout) = KeyCells(k)
=============================================================================
