---------------------------- MODULE MCCollection ----------------------------
(* Collection and Catalogue for TLC: a trusted session, which is also the
   person at the terminal, and one the policy quarantines. *)
EXTENDS Catalogue, TLC

CONSTANTS trusted, stranger

MCSession == {trusted, stranger}
MCQuarantined == {stranger}
=============================================================================
