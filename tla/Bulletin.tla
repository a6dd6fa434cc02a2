------------------------------ MODULE Bulletin ------------------------------
(***************************************************************************)
(* What the handoff shelf promises its readers, with no table in sight:    *)
(* every namespace has at most one standing note, a note goes up exactly   *)
(* once, and a note that has come down never goes up again.                *)
(***************************************************************************)

CONSTANTS
  Namespace,   \* registered namespaces
  Note,        \* every briefing anyone could ever leave
  NoNote       \* "nothing stands here", not a note

VARIABLES
  standing,    \* the note on each namespace's board, or NoNote
  posted       \* every note that has ever stood

vars == <<standing, posted>>

Init ==
  /\ standing = [ns \in Namespace |-> NoNote]
  /\ posted = {}

(* A note that never stood goes up; whatever stood there comes down. *)
Post(ns, note) ==
  /\ note \notin posted
  /\ standing' = [standing EXCEPT ![ns] = note]
  /\ posted' = posted \cup {note}

(* The board is cleared. *)
TakeDown(ns) ==
  /\ standing[ns] # NoNote
  /\ standing' = [standing EXCEPT ![ns] = NoNote]
  /\ UNCHANGED posted

Next ==
  \E ns \in Namespace :
    \/ \E note \in Note : Post(ns, note)
    \/ TakeDown(ns)

Spec == Init /\ [][Next]_vars

=============================================================================
