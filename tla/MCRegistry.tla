----------------------------- MODULE MCRegistry -----------------------------
(* Registry for TLC: two actors bound by two earlier sessions, three processes
   to come, a key yet unseen; every key asks for one name. *)
EXTENDS Registry, TLC

CONSTANTS p1, p2, s1, s2, s3, k1, k2, k3, h, x

MCSession == {p1, p2, s1, s2, s3}
MCServer == {s3}
MCHuman == {s1, s2}
MCAgentKey == {k1, k2, k3}
MCHumanKey == {h}
MCBase == {x}
MCBaseOf == [k \in MCAgentKey \cup MCHumanKey |-> x]
MCKnown == <<k1, k2>>
MCPast == (p1 :> 1) @@ (p2 :> 2)
MCTyped == {<<x, 5>>}
MCPath == {Global, "work", "list"}
MCOpened == {Global, "work"}
MCReserved == {"list"}
Sym == Permutations(MCHuman)
=============================================================================
