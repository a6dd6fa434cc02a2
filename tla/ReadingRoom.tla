---------------------------- MODULE ReadingRoom -----------------------------
(***************************************************************************)
(* The reading room (crates/kumbarium-leases): the table `leases`, one row *)
(* per card, and the tool calls that touch it.  A lease warns, it never    *)
(* blocks, and whether a card is active is computed from the clock at each *)
(* read.  Variables are columns; ids are taken in insertion order.         *)
(*                                                                         *)
(* A session serves one call at a time.  take and release read the room,   *)
(* then write, with no transaction around the two, and carry the clock     *)
(* they read at the start; every call that succeeds then renews the        *)
(* session's cards, again with a clock read before the UPDATE.  So a call  *)
(* is several steps, with other sessions, the clock and the human between. *)
(***************************************************************************)
EXTENDS Integers, FiniteSets

CONSTANTS
  MaxCards,   \* bound: cards ever taken
  MaxTime,    \* bound: the clock runs from 0 to MaxTime
  TTL,        \* leases.ttl_minutes
  Table,      \* <namespace, resource> pairs
  Session,    \* sessions, each with an id of its own
  AgentOf,    \* the agent name each session claims; two may claim one
  None

ASSUME BoundsAssumption == MaxCards \in Nat /\ MaxTime \in Nat /\ TTL \in Nat
ASSUME NoneAssumption ==
  /\ None \notin Int
  /\ None \notin Table \cup Session \cup {AgentOf[s] : s \in Session}

Id == 1..MaxCards
Time == 0..MaxTime

VARIABLES
  rows,         \* cards ever inserted: ids 1..rows
  table,        \* columns: namespace with resource, agent_id with session_id,
  session_id,   \*          renewed_at, and whether released_at is set
  renewed_at,
  released,
  now,          \* the wall clock
  calling,      \* what each session's call has read and not yet written
  last,         \* history: when each session last read the clock for a call
  warned,       \* history: whom each session's last take of a table named
  crossed       \* history: <<table, {s, p}>> where one read the room while
                \*          the other's call was between its read and write

vars ==
  <<rows, table, session_id, renewed_at, released, now, calling, last, warned,
    crossed>>

Rows == 1..rows

Idle == [op |-> "idle", at |-> 0, table |-> None, own |-> None, others |-> {}]

Init ==
  /\ rows = 0
  /\ table = [i \in Id |-> None]
  /\ session_id = [i \in Id |-> None]
  /\ renewed_at = [i \in Id |-> 0]
  /\ released = [i \in Id |-> FALSE]
  /\ now = 0
  /\ calling = [s \in Session |-> Idle]
  /\ last = [s \in Session |-> 0]
  /\ warned = [s \in Session |-> [t \in Table |-> {}]]
  /\ crossed = {}

-----------------------------------------------------------------------------
(* active_in: unreleased and renewed at or after the cutoff. *)
Active(i, at) == i \in Rows /\ ~released[i] /\ renewed_at[i] >= at - TTL

(* Mutant of Overlapping: the cutoff itself counts as lapsed. *)
OverlappingStrict(t, at) ==
  {i \in Rows : table[i] = t /\ ~released[i] /\ renewed_at[i] > at - TTL}

Overlapping(t, at) == {i \in Rows : Active(i, at) /\ table[i] = t}

(* Mutant of OwnIn: the holder's own card is not recognised. *)
OwnInNever(s, cards) == {}

(* "Own" is (agent, session), and a session claims one agent. *)
OwnIn(s, cards) == {i \in cards : session_id[i] = s}

FirstRow(S) == IF S = {} THEN None ELSE CHOOSE i \in S : \A j \in S : i <= j

(* A call that has read the clock, and what else it read. *)
Begin(s, call) ==
  /\ calling' = [calling EXCEPT ![s] = call]
  /\ last' = [last EXCEPT ![s] = now]

(* Another call is about to write to this table with what it read before. *)
InFlight(p, t) ==
  calling[p].op = "renew" \/ (calling[p].op = "take" /\ calling[p].table = t)

(* The lease_take tool: the clock and the room are read. *)
TakeRead(s, t) ==
  LET there == Overlapping(t, now)
      own == OwnIn(s, there)
  IN  /\ calling[s] = Idle
      /\ Begin(s, [op |-> "take", at |-> now, table |-> t,
                   own |-> FirstRow(own), others |-> there \ own])
      /\ crossed' = crossed \cup
           {<<t, {s, p}>> : p \in {q \in Session \ {s} : InFlight(q, t)}}
      /\ UNCHANGED <<rows, table, session_id, renewed_at, released, now, warned>>

Took == [Idle EXCEPT !.op = "done"]

(* The own card is renewed by its id, or a card is inserted: with the clock
   read before, and whatever became of the room since. *)
TakeWrite(s) ==
  LET c == calling[s]
      id == IF c.own = None THEN rows + 1 ELSE c.own
  IN  /\ c.op = "take"
      /\ id \in Id
      /\ rows' = IF c.own = None THEN id ELSE rows
      /\ table' = [table EXCEPT ![id] = c.table]
      /\ session_id' = [session_id EXCEPT ![id] = s]
      /\ renewed_at' = [renewed_at EXCEPT ![id] = c.at]
      /\ warned' = [warned EXCEPT ![s][c.table] = {session_id[i] : i \in c.others}]
      /\ calling' = [calling EXCEPT ![s] = Took]
      /\ UNCHANGED <<released, now, last, crossed>>

(* The lease_release tool: the caller's own active card is looked up. *)
ReleaseRead(s, t) ==
  LET own == OwnIn(s, Overlapping(t, now))
  IN  /\ calling[s] = Idle
      /\ own # {}
      /\ Begin(s, [Idle EXCEPT !.op = "release", !.at = now, !.own = FirstRow(own)])
      /\ UNCHANGED <<rows, table, session_id, renewed_at, released, now, warned,
                     crossed>>

ReleaseWrite(s) ==
  /\ calling[s].op = "release"
  /\ released' = [released EXCEPT ![calling[s].own] = TRUE]
  /\ calling' = [calling EXCEPT ![s] = Took]
  /\ UNCHANGED <<rows, table, session_id, renewed_at, now, last, warned, crossed>>

(* call, after the tool succeeded (one of the two above, or any other tool,
   which leaves the room alone): the clock is read for the renewal. *)
RenewRead(s) ==
  /\ calling[s] \in {Idle, Took}
  /\ Begin(s, [Idle EXCEPT !.op = "renew", !.at = now])
  /\ UNCHANGED <<rows, table, session_id, renewed_at, released, now, warned,
                 crossed>>

(* Mutant of Renewable: every session of the agent is renewed. *)
RenewableByAgent(s, at) ==
  {i \in Rows : Active(i, at) /\ AgentOf[session_id[i]] = AgentOf[s]}

(* renew_for_session: WHERE session_id = ? AND released_at IS NULL AND
   renewed_at >= cutoff. *)
Renewable(s, at) == {i \in Rows : Active(i, at) /\ session_id[i] = s}

RenewWrite(s) ==
  /\ calling[s].op = "renew"
  /\ renewed_at' = [i \in Id |-> IF i \in Renewable(s, calling[s].at)
                                 THEN calling[s].at ELSE renewed_at[i]]
  /\ calling' = [calling EXCEPT ![s] = Idle]
  /\ UNCHANGED <<rows, table, session_id, released, now, last, warned, crossed>>

(* The call fails, its audit append fails, or the process dies: what it wrote
   stays, nothing is renewed. *)
CallStops(s) ==
  /\ calling[s] # Idle
  /\ calling' = [calling EXCEPT ![s] = Idle]
  /\ UNCHANGED <<rows, table, session_id, renewed_at, released, now, last,
                 warned, crossed>>

(* `kum lease break`: WHERE id = ? AND released_at IS NULL. *)
BreakLease(i) ==
  /\ i \in Rows
  /\ ~released[i]
  /\ released' = [released EXCEPT ![i] = TRUE]
  /\ UNCHANGED <<rows, table, session_id, renewed_at, now, calling, last, warned,
                 crossed>>

Clock ==
  /\ now < MaxTime
  /\ now' = now + 1
  /\ UNCHANGED <<rows, table, session_id, renewed_at, released, calling, last,
                 warned, crossed>>

LeaseTake(s) == (\E t \in Table : TakeRead(s, t)) \/ TakeWrite(s)
LeaseRelease(s) == (\E t \in Table : ReleaseRead(s, t)) \/ ReleaseWrite(s)
RenewForSession(s) == RenewRead(s) \/ RenewWrite(s)

Next ==
  \/ \E s \in Session :
       LeaseTake(s) \/ LeaseRelease(s) \/ RenewForSession(s) \/ CallStops(s)
  \/ \E i \in Id : BreakLease(i)
  \/ Clock

Spec == Init /\ [][Next]_vars

-----------------------------------------------------------------------------
(* Columns hold what their declarations allow, no card was renewed later than
   the clock, and a call remembers cards of its own session. *)
TypeOK ==
  /\ rows \in 0..MaxCards
  /\ table \in [Id -> Table \cup {None}]
  /\ session_id \in [Id -> Session \cup {None}]
  /\ renewed_at \in [Id -> 0..now]
  /\ released \in [Id -> BOOLEAN]
  /\ now \in Time
  /\ last \in [Session -> Time]
  /\ warned \in [Session -> [Table -> SUBSET Session]]
  /\ crossed \subseteq Table \X SUBSET Session
  /\ \A s \in Session :
       /\ calling[s].op \in {"idle", "take", "release", "renew", "done"}
       /\ calling[s].at \in 0..now
       /\ calling[s].table \in Table \cup {None}
       /\ calling[s].own \in Rows \cup {None}
       /\ calling[s].own # None => session_id[calling[s].own] = s
       /\ calling[s].others \subseteq Rows
  /\ \A i \in Rows : table[i] \in Table /\ session_id[i] \in Session

(* "Taking a resource the same agent already actively holds renews that card
   instead of stacking a duplicate": through lapses, retakes, breaks and late
   renewals, a session never has two active cards on one table. *)
OneCardPerHolder ==
  \A i, j \in Rows :
    /\ Active(i, now) /\ Active(j, now)
    /\ table[i] = table[j] /\ session_id[i] = session_id[j]
    => i = j

(* "An abandoned session's card must go stale on schedule even while another
   session under the same name stays busy" (D-044): no card is active longer
   than the ttl past its own session's last call. *)
StaleOnSchedule ==
  \A i \in Rows : Active(i, now) => now - last[session_id[i]] <= TTL

(* "The caller can be told, loudly, whose table it is joining" (take): of two
   sessions active on one table one was told of the other, unless one read
   the room while a call of the other was between its read and its write. *)
JoinersAreWarned ==
  \A i, j \in Rows :
    LET s == session_id[i] p == session_id[j] t == table[i] IN
      /\ Active(i, now) /\ Active(j, now) /\ table[j] = t /\ s # p
      => \/ p \in warned[s][t]
         \/ s \in warned[p][t]
         \/ <<t, {s, p}>> \in crossed

(* A lapsed card is gone for good: only a call of its own session that read
   the clock while the card still counted brings it back. *)
LapsedStaysLapsed ==
  [][\A i \in Rows :
       ~Active(i, now) /\ Active(i, now)' =>
         Active(i, calling[session_id[i]].at) /\ calling[session_id[i]] # Idle]_vars
=============================================================================
