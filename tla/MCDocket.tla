------------------------------ MODULE MCDocket ------------------------------
(* Docket and Desk for TLC: the CLI and a quarantined agent, two processes
   that judge a matter or keep the rotation matter. *)
EXTENDS Desk, TLC

CONSTANTS trusted, stranger, j1, j2

MCAgent == {trusted, stranger}
MCQuarantined == {stranger}
MCJudge == {j1, j2}

Symmetry == Permutations(MCJudge)
=============================================================================
