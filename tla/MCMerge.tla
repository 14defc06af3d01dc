------------------------------- MODULE MCMerge -------------------------------
(***************************************************************************)
(* Small instances of Merge: TopKey keys, every choice of input files. *)
(***************************************************************************)
EXTENDS Merge

CONSTANTS TopKey, Inputs

MCKey == 11 .. 10 + TopKey
MCInput == 1 .. Inputs
=============================================================================
