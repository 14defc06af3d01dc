---------------------------- MODULE MCKveiSearch -----------------------------
(***************************************************************************)
(* Small instances of KveiSearch: words of 4 bits and filters of 4 and 5,  *)
(* so that the last word is partly and wholly used; hashes of 4 bits,      *)
(* rotated by one and combined with a key of each round; tables under      *)
(* which keys collide within a salt or across salts; a salt space that no  *)
(* number of workers divides, thread counts below, inside and above the    *)
(* clamp.                                                                  *)
(***************************************************************************)
EXTENDS KveiSearch

MCHintLists == {<<>>, <<TopSalt, 0>>}

MCHashValue == 0 .. 15

Bit(n, i) == (n \div 2 ^ i) % 2
Xor(a, b) ==
  LET x(i) == ((Bit(a, i) + Bit(b, i)) % 2) * 2 ^ i IN x(0) + x(1) + x(2) + x(3)
RotateLeft(h) == ((2 * h) % 16) + (h \div 8)

MCMix ==
  LET key == <<6, 11, 13>>
  IN  [r \in Round |-> [h \in MCHashValue |-> Xor(RotateLeft(h), key[r])]]

MCHashTables ==
  {[ks \in (0 .. MaxKeys - 1) \X Salt |-> (7 * ks[1] + 5 * ks[2]) % 16],
   [ks \in (0 .. MaxKeys - 1) \X Salt |-> (3 * ks[1] * ks[2] + 9) % 16]}
=============================================================================
