------------------------------- MODULE MCHome -------------------------------
(* Home for TLC: one server, a reload command and the doctor; the ladder over
   nine times. *)
EXTENDS Home

CONSTANTS s1, t1, t2

MCServer == {s1}
MCTool == {t1, t2}
MCProc == MCServer \cup MCTool
MCTimes == 1 .. 9
=============================================================================
