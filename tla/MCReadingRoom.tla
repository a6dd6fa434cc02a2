--------------------------- MODULE MCReadingRoom ----------------------------
(* ReadingRoom for TLC: two sessions that claim the same agent name. *)
EXTENDS Register, TLC

CONSTANTS s1, s2, t1, agent

MCSession == {s1, s2}
MCTable == {t1}
MCAgentOf == [s \in MCSession |-> agent]

Symmetry == Permutations(MCSession)
=============================================================================
