--------------------------- MODULE MCNonceSequence ---------------------------
(***************************************************************************)
(* A counter of four bits, and every base with it.                         *)
(***************************************************************************)
EXTENDS NonceSequence

MCHeads == {0, 1}
MCPositions == 0..3
MCBitsOf == [n \in 0..15 |-> [k \in MCPositions |-> (n \div (2 ^ k)) % 2 = 1]]
=============================================================================
