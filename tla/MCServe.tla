------------------------------ MODULE MCServe -------------------------------
(* Serve for TLC: two sessions of one agent in one workspace. *)
EXTENDS Serve, TLC

CONSTANTS s1, s2, k1, scope

MCSession == {s1, s2}
MCKey == {k1}
MCKeyOf == [s \in MCSession |-> k1]
MCScope == {scope}

Symmetry == Permutations(MCSession)
=============================================================================
