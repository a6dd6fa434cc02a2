------------------------------ MODULE Matters -------------------------------
(***************************************************************************)
(* What the docket promises about a matter, versions and rows forgotten:   *)
(* it is filed once, waits for the desk if its filer is untrusted, is owed *)
(* until it is judged done or dropped, and never comes back after that.    *)
(***************************************************************************)
CONSTANT Matter

VARIABLE lifecycle

Lifecycle == {"unfiled", "waiting", "owed", "declined", "closed"}

Init == lifecycle = [m \in Matter |-> "unfiled"]

Becomes(m, from, to) ==
  /\ lifecycle[m] \in from
  /\ lifecycle' = [lifecycle EXCEPT ![m] = to]

File(m) == Becomes(m, {"unfiled"}, "owed") \/ Becomes(m, {"unfiled"}, "waiting")
Approve(m) == Becomes(m, {"waiting"}, "owed")
Decline(m) == Becomes(m, {"waiting"}, "declined")
Close(m) == Becomes(m, {"waiting", "owed", "declined"}, "closed")

Next == \E m \in Matter : File(m) \/ Approve(m) \/ Decline(m) \/ Close(m)

Spec == Init /\ [][Next]_lifecycle
=============================================================================
