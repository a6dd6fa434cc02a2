----------------------------- MODULE MCWitness ------------------------------
(* Witness and Follower for TLC: two processes on a ledger that starts with two rows from
   before the chain. *)
EXTENDS Follower, TLC

CONSTANTS p1, p2

MCProc == {p1, p2}
MCLegacy == {0, 1}
Forward == {1}

Symmetry == Permutations(MCProc)
=============================================================================
