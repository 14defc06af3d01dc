------------------------------ MODULE MCMemlock ------------------------------
(***************************************************************************)
(* Small instances of Memlock.  The index of a reader takes 2 units, the   *)
(* index and the data 4: limits of 2, 4 and 6 fit the index of one reader, *)
(* all of one, and that with the index of another; a stack of two takes 8. *)
(* A request of 1 is below every limit, 6 and 8 above some or all.         *)
(***************************************************************************)
EXTENDS Memlock

MCSize == [k \in {Bt, Kvei, Kv} |-> IF k = Kv THEN 2 ELSE 1]
=============================================================================
