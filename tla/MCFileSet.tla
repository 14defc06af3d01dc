------------------------------ MODULE MCFileSet ------------------------------
(***************************************************************************)
(* Small instances of FileSet.                                             *)
(***************************************************************************)
EXTENDS FileSet

CONSTANT TopKey

MCKey == 1 .. TopKey
=============================================================================
