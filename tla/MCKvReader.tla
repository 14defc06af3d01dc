----------------------------- MODULE MCKvReader -----------------------------
(***************************************************************************)
(* Small instances of KvReader.  Keys are 0 .. TopKey; a hash value is a   *)
(* key folded into few classes, differently under each salt, so that two   *)
(* keys may share a hash and a salt other than the builder's may happen    *)
(* to pass the sampled validation.                                         *)
(***************************************************************************)
EXTENDS KvReader

CONSTANT TopKey

MCKey == 0 .. TopKey
MCSalt == {1, 2}
MCHashValue == {0, 1}
MCHash ==
  [ks \in MCKey \X MCSalt |->
     IF ks[2] = 1 THEN ks[1] % 2 ELSE IF ks[1] < TopKey - 1 THEN 0 ELSE 1]
=============================================================================
