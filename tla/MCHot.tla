------------------------------- MODULE MCHot --------------------------------
(* Hot for TLC: requests, and answers to the idle ping. *)
EXTENDS Hot

MCKinds == {"request", "response"}
=============================================================================
