------------------------------- MODULE MCBtFile -------------------------------
(***************************************************************************)
(* Small instances of BtFile.  Of the array: counts around and at SuperQ   *)
(* without low bits, few offsets with low bits that straddle words, a      *)
(* single offset, a bound that no offset comes near to.  Of the file: no   *)
(* key at all, the M-th keys of every fanout around the count with keys of *)
(* equal and of different lengths, the empty key and a key too long, and   *)
(* files of both layouts that end anywhere.                                *)
(***************************************************************************)
EXTENDS BtFile

\* A legacy file, of which only the array matters.
Array(n, top, cut) ==
  [count |-> n, bound |-> top, layout |-> "Legacy", m |-> 0,
   lens |-> [k \in 0 .. n - 1 |-> 1], torn |-> cut]

Footer(n, top, fanout, lengths, cut) ==
  [count |-> n, bound |-> top, layout |-> "Footer", m |-> fanout,
   lens |-> lengths, torn |-> cut]

MCPlans ==
  {Array(1, 20, TRUE), Array(3, 24, FALSE), Array(4, 10, FALSE), Array(5, 5, TRUE),
   Array(8, 3, FALSE), Array(9, 5, FALSE), Array(10, 3, TRUE), Array(0, 9, FALSE),
   Footer(0, 9, 1, <<>>, FALSE)}
  \cup {Footer(3, 3, fanout, lengths, FALSE) :
          fanout \in 0 .. 4, lengths \in {f \in [0 .. 2 -> 0 .. 3] : f[1] > 0 /\ f[2] > 0}}
  \cup {Footer(2, 4, 1, [k \in 0 .. 1 |-> 2], TRUE)}
=============================================================================
