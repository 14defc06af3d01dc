----------------------------- MODULE MCSegWords ------------------------------
(***************************************************************************)
(* Small instances of SegWords: words over two bytes, patterns that are    *)
(* prefixes of one another, that repeat and that overlap, code lengths     *)
(* that end inside and at the end of a byte, and a single pattern, whose   *)
(* code takes no bit.  Lengths are spooled in groups of two bits, of which *)
(* a third may hold one bit only.                                          *)
(***************************************************************************)
EXTENDS SegWords

CONSTANTS x, y

MCPatternSets ==
  {{<<x, y>>}, {<<x>>, <<x, y>>}, {<<y, x>>, <<x, x>>}, {<<x, y, x>>, <<x, y>>, <<y>>}}

MCCodeLengths ==
  {[c \in Code |-> IF c[1] = "pos" THEN 1 + ((c[2] + n) % 3) ELSE n + Len(c[2])] :
     n \in 0 .. 1}
=============================================================================
