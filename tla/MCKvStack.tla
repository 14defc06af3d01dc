------------------------------ MODULE MCKvStack ------------------------------
(***************************************************************************)
(* Small instances of KvStack: files listed newest first, files without a  *)
(* range, and files whose ranges start at the same step.                   *)
(***************************************************************************)
EXTENDS KvStack

\* Successive ranges, a range and a file without one, two such files.
MCSuccessive ==
  {<< <<2, 3>>, <<0, 1>>, <<1, 2>> >>, << <<1, 2>>, NoRange >>, <<NoRange, NoRange>>}

\* A file and the merge it went into.
MCOverlapping == {<< <<0, 1>>, <<0, 2>> >>}
=============================================================================
