----------------------------- MODULE MCStacks ------------------------------
(* Two terminals, and a session whose agent's name has a legacy grant row of
   its own beside its actor's. *)
EXTENDS Custody, TLC

CONSTANTS h1, h2, s1, actor, claim, secret

MCHand == {h1, h2}
MCActorOf == s1 :> actor
MCClaimOf == s1 :> claim

Symmetry == Permutations(MCHand)
=============================================================================
