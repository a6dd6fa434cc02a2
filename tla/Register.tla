------------------------------ MODULE Register ------------------------------
(***************************************************************************)
(* The register of the reading room (`kum leases`, cli/lease.rs) beside    *)
(* the calls of ReadingRoom.  The clock is read once; the active cards and *)
(* the stale ones are two queries, with the sessions, the clock and the    *)
(* human who breaks a card between them.                                   *)
(***************************************************************************)
EXTENDS ReadingRoom

VARIABLES
  register,   \* the register as far as it is read
  unseen      \* history: cards that were open when the active ones were read,
              \*   not among them, and not written to since

regVars == <<register, unseen>>
allvars == <<vars, regVars>>

Shut == [step |-> "shut", at |-> 0, active |-> {}]

RegisterInit == Init /\ register = Shut /\ unseen = {}

(* leases_cmd: the clock. *)
OpenRegister ==
  /\ register.step = "shut"
  /\ register' = [Shut EXCEPT !.step = "clock", !.at = now]
  /\ UNCHANGED <<vars, unseen>>

(* The first query, active_in. *)
ReadActive ==
  /\ register.step = "clock"
  /\ register' = [register EXCEPT !.step = "active",
                    !.active = {i \in Rows : Active(i, register.at)}]
  /\ unseen' = {i \in Rows : ~released[i]} \ register'.active
  /\ UNCHANGED vars

(* Mutant of Stale: a card at the cutoff itself is stale as well. *)
StaleAtTheCutoff(i, at) == ~released[i] /\ renewed_at[i] <= at - TTL

(* stale_in: WHERE released_at IS NULL AND renewed_at < cutoff. *)
Stale(i, at) == ~released[i] /\ renewed_at[i] < at - TTL

StaleCards == {i \in Rows : Stale(i, register.at)}

(* The second query; the register is told. *)
ReadStale ==
  /\ register.step = "active"
  /\ register' = Shut
  /\ unseen' = {}
  /\ UNCHANGED vars

(* A step of the room itself. *)
RoomStep ==
  /\ Next
  /\ unseen' = {i \in unseen : released'[i] = released[i] /\ renewed_at'[i] = renewed_at[i]}
  /\ UNCHANGED register

RegisterNext == RoomStep \/ OpenRegister \/ ReadActive \/ ReadStale

RegisterSpec == RegisterInit /\ [][RegisterNext]_allvars

-----------------------------------------------------------------------------
(* "Active cards, then any stale ones, so the room's true state is one glance"
   (leases_cmd): though the two are read apart, whenever the second is read no
   card is told twice, and a card open since before the first is told by one of
   them unless it was written to in between. *)
RegisterTellsEachCardOnce ==
  register.step = "active" =>
    /\ register.active \cap StaleCards = {}
    /\ unseen \subseteq StaleCards
=============================================================================
