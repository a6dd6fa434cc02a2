----------------------------- MODULE MCBundle -------------------------------
EXTENDS Bundle, TLC

CONSTANTS a, b

MCLibrary == {a, b}

Symmetry == Permutations(MCLibrary)

(* A later state, which the empty libraries reach with two files and two
   imports more: entry 1 was revised on both sides, one library imported the
   other's version as 3, and the desk approved it beside 2. *)
Disputed(here, there) ==
  LET chain(next) == [i \in Entry |-> IF i = 1 THEN next ELSE None]
      live(S) == [i \in Entry |-> IF i \in S THEN "live" ELSE "absent"]
  IN  /\ written = 3
      /\ fact = [i \in Entry |-> IF i <= 3 THEN 1 ELSE None]
      /\ status = (here :> live(1..3)) @@ (there :> live({1, 3}))
      /\ superseded_by = (here :> chain(2)) @@ (there :> chain(3))
      /\ contradicts = (here :> {<<3, 2>>}) @@ (there :> {})
      /\ files = {} /\ imports = 0
      /\ importing = [l \in Library |-> Idle]
      /\ torn = {} /\ branched = {1}

MCInit == BundleInit \/ Disputed(a, b)

MCSpec == MCInit /\ [][BundleNext]_bundlevars
=============================================================================
