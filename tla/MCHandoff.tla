----------------------------- MODULE MCHandoff ------------------------------
(* Handoff for TLC: two namespaces, a trusted writer, a writer the policy
   quarantines, two humans dropping at once. *)
EXTENDS Handoff, TLC

CONSTANTS n1, n2, trusted, stranger, h1, h2

MCNamespace == {n1, n2}
MCAgent == {trusted, stranger}
MCQuarantined == {stranger}
MCHuman == {h1, h2}

(* Namespaces are interchangeable, and so are humans. *)
Symmetry == Permutations(MCNamespace) \cup Permutations(MCHuman)
=============================================================================
