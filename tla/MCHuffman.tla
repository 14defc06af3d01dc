------------------------------ MODULE MCHuffman ------------------------------
(***************************************************************************)
(* Small instances of Huffman: bytes of two bits, tables of three, uses    *)
(* that grow as fast as it takes to make a tree of six symbols too deep;   *)
(* varints of two groups of two bits, the last of which may hold one bit   *)
(* only, for symbols and depths on both sides of one group.                *)
(***************************************************************************)
EXTENDS Huffman

MCUses == {1, 3, 4, 7}
=============================================================================
