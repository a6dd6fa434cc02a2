---------------------------- MODULE HouseProofs -----------------------------
(***************************************************************************)
(* Proofs about the house: what sessions do to its reading room and        *)
(* processes to its home.                                                  *)
(*                                                                         *)
(* The reading room and the register read from it, for any number of       *)
(* sessions, tables and cards and any ttl: the type invariant, that cards  *)
(* lapse on schedule, that a session holds one card per table, that a      *)
(* lapsed card stays lapsed, and that who joins a table is told of those   *)
(* who sit there, all against calls that write with a clock they read      *)
(* before; and that the register tells each card once though its two       *)
(* queries are apart.                                                      *)
(*                                                                         *)
(* The home, for any number of servers and commands, any retention and any *)
(* deaths: that the backup ladder keeps its rungs, that no sweep takes the *)
(* record of a living process, and that a shelf that opens is current.     *)
(***************************************************************************)
EXTENDS Register, Home, Walks, FiniteSetTheorems, TLAPS

Op == {"idle", "take", "release", "renew", "done"}

Call == [op : Op, at : Time, table : Table \cup {None}, own : Id \cup {None},
         others : SUBSET Id]

CallShape == calling \in [Session -> Call]

(* The clock a call carries is its session's last: a session serves one call
   at a time. *)
CallClock ==
  \A s \in Session :
    /\ last[s] <= now
    /\ calling[s].op \in {"take", "renew"} => calling[s].at = last[s]

(* No card was renewed after its session's last call: what lets an abandoned
   card lapse. *)
RenewedByCalls == \A i \in Rows : renewed_at[i] <= last[session_id[i]]

(* The cards of s on t that were active when s last read the clock.  Others
   may have lapsed or been broken since, none can have come back. *)
Held(s, t) == {i \in Rows : Active(i, last[s]) /\ session_id[i] = s /\ table[i] = t}

(* What a take remembers of its own card still says which cards it holds. *)
TakeKnows ==
  \A s \in Session :
    calling[s].op = "take" =>
      /\ calling[s].table \in Table
      /\ calling[s].own = None => Held(s, calling[s].table) = {}
      /\ calling[s].own # None =>
           /\ calling[s].own \in Rows
           /\ session_id[calling[s].own] = s
           /\ table[calling[s].own] = calling[s].table
           /\ renewed_at[calling[s].own] >= last[s] - TTL

(* One card per holder, measured at the holder's last call rather than now:
   a renewal in flight may still extend whatever was active then. *)
OneHeld == \A s \in Session, t \in Table : \A i, j \in Held(s, t) : i = j

IInv == TypeOK /\ CallShape /\ CallClock /\ RenewedByCalls /\ TakeKnows /\ OneHeld

-----------------------------------------------------------------------------
(* The rows are ids, and NULL is not one. *)
LEMMA RowsAreIds ==
  ASSUME TypeOK
  PROVE  Rows \subseteq Id /\ None \notin Id /\ now \in Nat /\ now <= MaxTime
  BY BoundsAssumption, NoneAssumption DEF TypeOK, Rows, Id, Time

(* A session between calls is a call that holds nothing. *)
LEMMA IdleIsACall == Idle \in Call /\ Took \in Call
  BY BoundsAssumption DEF Idle, Took, Call, Op, Time

(* The empty room satisfies the inductive invariant. *)
LEMMA InitIInv == Init => IInv
  <1> SUFFICES ASSUME Init PROVE IInv
    OBVIOUS
  <1>1. Rows = {} /\ \A s \in Session : calling[s] = Idle
    BY DEF Init, Rows
  <1>2. CallShape
    BY IdleIsACall DEF Init, CallShape
  <1>3. TypeOK
    BY <1>1, BoundsAssumption DEF Init, TypeOK, Idle, Id, Time
  <1>4. CallClock /\ RenewedByCalls /\ TakeKnows /\ OneHeld
    BY <1>1 DEF Init, CallClock, RenewedByCalls, TakeKnows, OneHeld, Held, Idle
  <1>5. QED
    BY <1>2, <1>3, <1>4 DEF IInv

(* An active card at a time is active at every earlier one. *)
LEMMA ActiveEarlier ==
  ASSUME TypeOK, NEW i \in Rows, NEW b \in Int, NEW a \in Int, a <= b, Active(i, b)
  PROVE  Active(i, a)
  BY RowsAreIds, BoundsAssumption DEF TypeOK, Active, Id, Time

(* A session begins a call: it reads the clock, so fewer of its cards count
   as held, and nothing else moves. *)
LEMMA BeginIInv ==
  ASSUME IInv, NEW s \in Session, NEW c \in Call, Begin(s, c),
         UNCHANGED <<rows, table, session_id, renewed_at, released, now, warned>>,
         crossed' \subseteq Table \X SUBSET Session,
         c.at \in 0..now,
         c.op \in {"take", "renew"} => c.at = now,
         c.own # None => c.own \in Rows /\ session_id[c.own] = s,
         c.others \subseteq Rows,
         c.op = "take" =>
           /\ c.table \in Table
           /\ c.own = None =>
                \A i \in Rows : ~(Active(i, now) /\ session_id[i] = s /\ table[i] = c.table)
           /\ c.own # None => table[c.own] = c.table /\ renewed_at[c.own] >= now - TTL
  PROVE  IInv'
  <1>1. /\ calling' = [calling EXCEPT ![s] = c] /\ last' = [last EXCEPT ![s] = now]
        /\ Rows' = Rows /\ Rows \subseteq Id
        /\ now \in Nat /\ now \in Time
        /\ last \in [Session -> Time] /\ calling \in [Session -> Call]
    BY RowsAreIds, BoundsAssumption DEF Begin, IInv, CallShape, TypeOK, Rows, Time
  <1>2. /\ calling'[s] = c /\ last'[s] = now
        /\ \A p \in Session \ {s} : calling'[p] = calling[p] /\ last'[p] = last[p]
        /\ calling' \in [Session -> Call] /\ last' \in [Session -> Time]
        /\ \A p \in Session : last[p] \in Nat /\ last[p] <= now /\ last[p] <= last'[p]
    BY <1>1 DEF IInv, CallClock, Time
  <1>3. \A i \in Rows, m \in Int : Active(i, m)' <=> Active(i, m)
    BY <1>1 DEF Active
  <1>4. TypeOK'
    <2>1. \A p \in Session :
            /\ calling'[p].op \in Op
            /\ calling'[p].at \in 0..now'
            /\ calling'[p].table \in Table \cup {None}
            /\ calling'[p].own \in Rows' \cup {None}
            /\ calling'[p].own # None => session_id'[calling'[p].own] = p
            /\ calling'[p].others \subseteq Rows'
      BY <1>1, <1>2 DEF IInv, TypeOK, Call, Op
    <2>2. QED
      BY <1>1, <1>2, <2>1 DEF IInv, TypeOK, Op
  <1>5. CallShape' /\ CallClock'
    BY <1>1, <1>2 DEF IInv, CallShape, CallClock
  <1>6. RenewedByCalls'
    <2> SUFFICES ASSUME NEW i \in Rows PROVE renewed_at[i] <= last'[session_id[i]]
      BY <1>1 DEF RenewedByCalls
    <2>1. session_id[i] \in Session /\ renewed_at[i] \in Nat
      BY <1>1 DEF IInv, TypeOK
    <2>2. renewed_at[i] <= last[session_id[i]]
      BY DEF IInv, RenewedByCalls
    <2>3. last[session_id[i]] <= last'[session_id[i]]
          /\ last[session_id[i]] \in Nat /\ last'[session_id[i]] \in Nat
      BY <1>1, <1>2, <2>1 DEF Time
    <2>4. QED
      BY <2>1, <2>2, <2>3
  <1>7. \A p \in Session, t \in Table : Held(p, t)' \subseteq Held(p, t)
    <2> SUFFICES ASSUME NEW p \in Session, NEW t \in Table, NEW i \in Held(p, t)'
                 PROVE  i \in Held(p, t)
      OBVIOUS
    <2>1. i \in Rows /\ Active(i, last'[p]) /\ session_id[i] = p /\ table[i] = t
      BY <1>1, <1>2 DEF Held, Active
    <2>2. Active(i, last[p])
      BY <1>2, <2>1, ActiveEarlier DEF IInv, Time
    <2>3. QED
      BY <2>1, <2>2 DEF Held
  <1>8. OneHeld'
    BY <1>7 DEF IInv, OneHeld
  <1>9. TakeKnows'
    <2> SUFFICES ASSUME NEW p \in Session, calling'[p].op = "take"
                 PROVE  /\ calling'[p].table \in Table
                        /\ calling'[p].own = None => Held(p, calling[p].table)' = {}
                        /\ calling'[p].own # None =>
                             /\ calling'[p].own \in Rows
                             /\ session_id[calling'[p].own] = p
                             /\ table[calling'[p].own] = calling'[p].table
                             /\ renewed_at[calling'[p].own] >= last'[p] - TTL
      BY <1>1 DEF TakeKnows
    <2>1. CASE p = s
      <3>1. c.own = None => Held(s, calling[s].table)' = {}
        BY <1>1, <1>2, <1>3, <2>1 DEF Held
      <3>2. QED
        BY <3>1, <2>1, <1>2
    <2>2. CASE p # s
      <3>1. /\ calling'[p] = calling[p] /\ last'[p] = last[p] /\ calling[p].op = "take"
            /\ calling[p].table \in Table
        BY <2>2, <1>2 DEF IInv, TakeKnows
      <3>2. calling[p].own = None => Held(p, calling[p].table)' = {}
        <4>1. PICK t \in Table : t = calling[p].table
          BY <3>1
        <4>2. calling[p].own = None => Held(p, t) = {}
          BY <3>1, <4>1 DEF IInv, TakeKnows
        <4>3. Held(p, t)' \subseteq Held(p, t)
          BY <1>7
        <4>4. calling[p].own = None => Held(p, t)' = {}
          BY <4>2, <4>3
        <4>5. t = calling'[p].table
          BY <3>1, <4>1
        <4>6. Held(p, calling[p].table)' = Held(p, t)'
          BY <4>5 DEF Held
        <4>7. QED
          BY <4>4, <4>6
      <3>3. QED
        BY <3>1, <3>2 DEF IInv, TakeKnows
    <2>3. QED
      BY <2>1, <2>2
  <1>10. QED
    BY <1>4, <1>5, <1>6, <1>8, <1>9 DEF IInv

(* `find` over a session's own active cards: there is one at most, and it is
   the one found. *)
LEMMA OwnIsOne ==
  ASSUME IInv, NEW s \in Session, NEW t \in Table
  PROVE  LET own == OwnIn(s, Overlapping(t, now))
         IN  /\ own = {i \in Rows : Active(i, now) /\ session_id[i] = s /\ table[i] = t}
             /\ own = {} => FirstRow(own) = None
             /\ own # {} => FirstRow(own) \in own
  <1> DEFINE own == OwnIn(s, Overlapping(t, now))
  <1>1. own = {i \in Rows : Active(i, now) /\ session_id[i] = s /\ table[i] = t}
    BY DEF OwnIn, Overlapping
  <1>2. own \subseteq Held(s, t)
    <2>1. last[s] \in Int /\ last[s] <= now /\ now \in Int
      BY RowsAreIds DEF IInv, TypeOK, CallClock, Time
    <2>2. ASSUME NEW i \in own PROVE i \in Held(s, t)
      BY <1>1, <2>1, <2>2, ActiveEarlier DEF Held, IInv
    <2>3. QED
      BY <2>2
  <1>3. ASSUME own # {} PROVE FirstRow(own) \in own
    <2>1. PICK i \in own : \A j \in own : j = i
      BY <1>2, <1>3 DEF IInv, OneHeld
    <2>2. i <= i
      BY <1>1, <2>1, RowsAreIds DEF IInv, Id
    <2>3. \E k \in own : \A j \in own : k <= j
      BY <2>1, <2>2
    <2>4. FirstRow(own) = CHOOSE k \in own : \A j \in own : k <= j
      BY <1>3 DEF FirstRow
    <2> HIDE DEF own
    <2>5. QED
      BY <2>3, <2>4
  <1>4. own = {} => FirstRow(own) = None
    BY DEF FirstRow
  <1>5. QED
    BY <1>1, <1>3, <1>4

(* lease_take's read of the room. *)
LEMMA TakeReadIInv ==
  ASSUME IInv, NEW s \in Session, NEW t \in Table, TakeRead(s, t)
  PROVE  IInv'
  <1>1. PICK own : own = OwnIn(s, Overlapping(t, now))
    OBVIOUS
  <1>2. PICK there : there = Overlapping(t, now)
    OBVIOUS
  <1>3. PICK c : c = [op |-> "take", at |-> now, table |-> t,
                      own |-> FirstRow(own), others |-> there \ own]
    OBVIOUS
  <1>4. /\ own = {i \in Rows : Active(i, now) /\ session_id[i] = s /\ table[i] = t}
        /\ own = {} => FirstRow(own) = None
        /\ own # {} => FirstRow(own) \in own
    BY <1>1, OwnIsOne
  <1>5. there \subseteq Rows /\ Rows \subseteq Id /\ now \in Time /\ now \in 0..now /\ None \notin Id
    BY <1>2, RowsAreIds, BoundsAssumption DEF Overlapping, IInv, TypeOK, Time
  <1>6. c \in Call
    BY <1>3, <1>4, <1>5 DEF Call, Op
  <1>7. /\ Begin(s, c)
        /\ UNCHANGED <<rows, table, session_id, renewed_at, released, now, warned>>
    BY <1>1, <1>2, <1>3 DEF TakeRead
  <1>8. crossed' \subseteq Table \X SUBSET Session
    BY DEF TakeRead, IInv, TypeOK
  <1>9. /\ c.at \in 0..now /\ c.at = now /\ c.op = "take" /\ c.table = t
        /\ c.own = FirstRow(own) /\ c.others \subseteq Rows
    BY <1>3, <1>5
  <1>10. c.own # None =>
           /\ c.own \in Rows /\ session_id[c.own] = s /\ table[c.own] = t
           /\ renewed_at[c.own] >= now - TTL
    BY <1>4, <1>9 DEF Active
  <1>11. c.own = None =>
           \A i \in Rows : ~(Active(i, now) /\ session_id[i] = s /\ table[i] = t)
    BY <1>4, <1>5, <1>9
  <1>12. QED
    BY <1>6, <1>7, <1>8, <1>9, <1>10, <1>11, BeginIInv

(* lease_release's read, and the renewal's read of the clock. *)
LEMMA OtherReadIInv ==
  ASSUME IInv, NEW s \in Session,
         RenewRead(s) \/ \E t \in Table : ReleaseRead(s, t)
  PROVE  IInv'
  <1>1. Rows \subseteq Id /\ now \in Time /\ now \in 0..now /\ None \notin Id
    BY RowsAreIds, BoundsAssumption DEF IInv, TypeOK, Time
  <1>2. CASE RenewRead(s)
    <2>1. PICK c : c = [Idle EXCEPT !.op = "renew", !.at = now]
      OBVIOUS
    <2>2. /\ c \in Call /\ c.op = "renew" /\ c.at = now /\ c.own = None /\ c.others = {}
      BY <1>1, <2>1, IdleIsACall DEF Idle, Call, Op
    <2>3. /\ Begin(s, c)
          /\ UNCHANGED <<rows, table, session_id, renewed_at, released, now, warned>>
          /\ crossed' \subseteq Table \X SUBSET Session
      BY <1>2, <2>1 DEF RenewRead, IInv, TypeOK
    <2>4. QED
      BY <1>1, <2>2, <2>3, BeginIInv
  <1>3. ASSUME NEW t \in Table, ReleaseRead(s, t) PROVE IInv'
    <2>1. PICK own : own = OwnIn(s, Overlapping(t, now))
      OBVIOUS
    <2>2. FirstRow(own) \in Rows /\ session_id[FirstRow(own)] = s
      BY <1>3, <2>1, OwnIsOne DEF ReleaseRead
    <2>3. PICK c : c = [Idle EXCEPT !.op = "release", !.at = now, !.own = FirstRow(own)]
      OBVIOUS
    <2>4. /\ c \in Call /\ c.op = "release" /\ c.at = now
          /\ c.own \in Rows /\ session_id[c.own] = s /\ c.others = {}
      BY <1>1, <2>2, <2>3, IdleIsACall DEF Idle, Call, Op
    <2>5. /\ Begin(s, c)
          /\ UNCHANGED <<rows, table, session_id, renewed_at, released, now, warned>>
          /\ crossed' \subseteq Table \X SUBSET Session
      BY <1>3, <2>1, <2>3 DEF ReleaseRead, IInv, TypeOK
    <2>6. QED
      BY <1>1, <2>4, <2>5, BeginIInv
  <1>4. QED
    BY <1>2, <1>3

(* What the second half of any call, a break or the clock does: the calls of
   other sessions and all clocks a call read stay, and a card is held only if
   it was, or is the one row `new` of session `s`. *)
LEMMA WriteIInv ==
  ASSUME IInv, TypeOK', NEW s \in Session, NEW new, NEW tn,
         last' = last, now <= now', now' \in Time,
         calling' \in [Session -> Call],
         \A p \in Session \ {s} : calling'[p] = calling[p],
         calling'[s] = calling[s] \/ calling'[s].op \notin {"take", "renew"},
         Rows \subseteq Rows', Rows' \subseteq Rows \cup {new},
         \A i \in Rows : table'[i] = table[i] /\ session_id'[i] = session_id[i],
         \A i \in Rows : released[i] => released'[i],
         \A i \in Rows : \/ renewed_at'[i] = renewed_at[i]
                         \/ /\ session_id[i] = s
                            /\ renewed_at'[i] = last[s]
                            /\ renewed_at[i] >= last[s] - TTL,
         new \notin Rows /\ new \in Rows' =>
           /\ session_id'[new] = s /\ table'[new] = tn
           /\ Held(s, tn) = {}
           /\ renewed_at'[new] <= last[s]
           /\ calling'[s].op # "take"
  PROVE  IInv'
  <1>1. /\ Rows \subseteq Id /\ Rows' \subseteq Id /\ TTL \in Nat
        /\ renewed_at \in [Id -> Nat] /\ renewed_at' \in [Id -> Nat]
        /\ \A p \in Session : last[p] \in Nat /\ last[p] <= now /\ last'[p] = last[p]
        /\ now \in Nat /\ now' \in Nat
    BY RowsAreIds, BoundsAssumption DEF IInv, TypeOK, CallClock, Time, Rows, Id
  <1>2. ASSUME NEW p \in Session, NEW i \in Rows, Active(i, last[p])', session_id[i] = p
        PROVE  Active(i, last[p])
    <2>1. ~released[i] /\ renewed_at'[i] >= last[p] - TTL
      BY <1>2, <1>1 DEF Active
    <2>2. renewed_at[i] >= last[p] - TTL
      BY <1>1, <1>2, <2>1
    <2>3. QED
      BY <2>1, <2>2 DEF Active
  <1>3. ASSUME NEW p \in Session, NEW t \in Table, p # s \/ new \in Rows \/ new \notin Rows' \/ t # tn
        PROVE  Held(p, t)' \subseteq Held(p, t)
    <2> SUFFICES ASSUME NEW i \in Held(p, t)' PROVE i \in Held(p, t)
      OBVIOUS
    <2>1. i \in Rows' /\ Active(i, last[p])' /\ session_id'[i] = p /\ table'[i] = t
      BY DEF Held
    <2>2. i \in Rows
      BY <1>3, <2>1
    <2>3. QED
      BY <1>2, <2>1, <2>2 DEF Held
  <1>4. CallShape' /\ CallClock'
    BY <1>1 DEF IInv, CallShape, CallClock
  <1>5. RenewedByCalls'
    <2> SUFFICES ASSUME NEW i \in Rows' PROVE renewed_at'[i] <= last[session_id'[i]]
      BY <1>1 DEF RenewedByCalls
    <2>1. CASE i \notin Rows
      BY <2>1
    <2>2. CASE i \in Rows
      <3>1. session_id[i] \in Session /\ renewed_at[i] <= last[session_id[i]]
        BY <2>2 DEF IInv, RenewedByCalls, TypeOK
      <3>2. QED
        BY <3>1, <2>2, <1>1
    <2>3. QED
      BY <2>1, <2>2
  <1>6. OneHeld'
    <2> SUFFICES ASSUME NEW p \in Session, NEW t \in Table,
                        NEW i \in Held(p, t)', NEW j \in Held(p, t)'
                 PROVE  i = j
      BY DEF OneHeld
    <2>1. CASE p = s /\ new \notin Rows /\ new \in Rows' /\ t = tn
      <3>1. ASSUME NEW k \in Held(p, t)', k # new PROVE FALSE
        <4>1. /\ k \in Rows /\ Active(k, last[p])' /\ session_id[k] = p
              /\ table[k] = t
          BY <3>1, <1>1 DEF Held
        <4>2. k \in Held(s, tn)
          BY <4>1, <2>1, <1>2 DEF Held
        <4>3. QED
          BY <4>2, <2>1
      <3>2. QED
        BY <3>1
    <2>2. CASE ~(p = s /\ new \notin Rows /\ new \in Rows' /\ t = tn)
      <3>1. i \in Held(p, t) /\ j \in Held(p, t)
        BY <2>2, <1>3
      <3>2. QED
        BY <3>1 DEF IInv, OneHeld
    <2>3. QED
      BY <2>1, <2>2
  <1>7. TakeKnows'
    <2> SUFFICES ASSUME NEW p \in Session, calling'[p].op = "take"
                 PROVE  /\ calling'[p].table \in Table
                        /\ calling'[p].own = None => Held(p, calling[p].table)' = {}
                        /\ calling'[p].own # None =>
                             /\ calling'[p].own \in Rows'
                             /\ session_id'[calling'[p].own] = p
                             /\ table'[calling'[p].own] = calling'[p].table
                             /\ renewed_at'[calling'[p].own] >= last[p] - TTL
      BY <1>1 DEF TakeKnows
    <2>1. /\ calling'[p] = calling[p] /\ calling[p].op = "take"
          /\ p # s \/ new \in Rows \/ new \notin Rows'
      <3>1. p = s => calling'[p] = calling[p] /\ (new \in Rows \/ new \notin Rows')
        OBVIOUS
      <3>2. p # s => calling'[p] = calling[p]
        OBVIOUS
      <3>3. QED
        BY <3>1, <3>2
    <2>2. PICK t \in Table : t = calling[p].table /\ t = calling'[p].table
      BY <2>1 DEF IInv, TakeKnows
    <2>3. calling[p].own = None => Held(p, calling[p].table)' = {}
      <3>1. calling[p].own = None => Held(p, t) = {}
        BY <2>1, <2>2 DEF IInv, TakeKnows
      <3>2. Held(p, t)' \subseteq Held(p, t)
        BY <1>3, <2>1
      <3>3. calling[p].own = None => Held(p, t)' = {}
        BY <3>1, <3>2
      <3>4. Held(p, calling[p].table)' = Held(p, t)'
        BY <2>2 DEF Held
      <3>5. QED
        BY <3>3, <3>4
    <2>4. calling[p].own # None =>
            /\ calling[p].own \in Rows
            /\ session_id[calling[p].own] = p
            /\ table[calling[p].own] = calling[p].table
            /\ renewed_at[calling[p].own] >= last[p] - TTL
      BY <2>1 DEF IInv, TakeKnows
    <2>5. calling[p].own # None => renewed_at'[calling[p].own] >= last[p] - TTL
      BY <2>4, <1>1
    <2>6. QED
      BY <2>1, <2>2, <2>3, <2>4, <2>5
  <1>8. QED
    BY <1>4, <1>5, <1>6, <1>7 DEF IInv

(* lease_take's write: the own card is renewed, or a first one inserted. *)
LEMMA TakeWriteIInv ==
  ASSUME IInv, NEW s \in Session, TakeWrite(s)
  PROVE  IInv'
  <1>1. PICK c : c = calling[s]
    OBVIOUS
  <1>2. PICK id : id = IF c.own = None THEN rows + 1 ELSE c.own
    OBVIOUS
  <1>3. PICK tn : tn = c.table
    OBVIOUS
  <1>4. /\ c \in Call /\ c.op = "take" /\ tn \in Table /\ c.at = last[s]
        /\ last[s] \in Nat /\ last[s] <= now /\ c.at \in 0..now
        /\ c.own = None => Held(s, tn) = {}
        /\ c.own # None =>
             /\ c.own \in Rows /\ session_id[c.own] = s /\ table[c.own] = tn
             /\ renewed_at[c.own] >= last[s] - TTL
        /\ c.others \subseteq Rows
    <2>1. c.op = "take"
      BY <1>1 DEF TakeWrite
    <2>2. c \in Call /\ c.at \in 0..now /\ c.others \subseteq Rows /\ last[s] \in Nat
      BY <1>1 DEF IInv, CallShape, TypeOK, Time
    <2>3. last[s] <= now /\ c.at = last[s]
      BY <1>1, <2>1 DEF IInv, CallClock
    <2>4. /\ tn \in Table
          /\ c.own = None => Held(s, tn) = {}
          /\ c.own # None =>
               /\ c.own \in Rows /\ session_id[c.own] = s /\ table[c.own] = tn
               /\ renewed_at[c.own] >= last[s] - TTL
      BY <1>1, <1>3, <2>1 DEF IInv, TakeKnows
    <2>5. QED
      BY <2>1, <2>2, <2>3, <2>4
  <1>5. /\ id \in Id
        /\ rows' = IF c.own = None THEN id ELSE rows
        /\ table' = [table EXCEPT ![id] = tn]
        /\ session_id' = [session_id EXCEPT ![id] = s]
        /\ renewed_at' = [renewed_at EXCEPT ![id] = last[s]]
        /\ warned' = [warned EXCEPT ![s][tn] = {session_id[i] : i \in c.others}]
        /\ calling' = [calling EXCEPT ![s] = Took]
        /\ UNCHANGED <<released, now, last, crossed>>
    BY <1>1, <1>2, <1>3, <1>4 DEF TakeWrite
  <1>6. /\ Rows \subseteq Id /\ rows \in 0..MaxCards /\ now \in Nat /\ None \notin Id
        /\ table \in [Id -> Table \cup {None}]
        /\ session_id \in [Id -> Session \cup {None}]
        /\ renewed_at \in [Id -> 0..now]
        /\ calling \in [Session -> Call] /\ Took \in Call /\ Took.op = "done"
        /\ Took.own = None /\ Took.others = {} /\ Took.at = 0
        /\ MaxCards \in Nat
    BY RowsAreIds, IdleIsACall, BoundsAssumption
       DEF IInv, TypeOK, CallShape, Took, Idle
  <1>7. /\ Rows' = Rows \cup {id}
        /\ c.own = None => id \notin Rows
        /\ c.own # None => id \in Rows
        /\ rows' \in 0..MaxCards
    BY <1>2, <1>4, <1>5, <1>6 DEF Rows, Id
  <1>8. /\ \A p \in Session \ {s} : calling'[p] = calling[p]
        /\ calling'[s] = Took
        /\ calling' \in [Session -> Call]
    BY <1>5, <1>6
  <1>9. /\ \A i \in Rows : table'[i] = table[i] /\ session_id'[i] = session_id[i]
        /\ table'[id] = tn /\ session_id'[id] = s /\ renewed_at'[id] = last[s]
        /\ \A i \in Rows : i # id => renewed_at'[i] = renewed_at[i]
    BY <1>2, <1>4, <1>5, <1>6, <1>7
  <1>10. TypeOK'
    <2>1. /\ table' \in [Id -> Table \cup {None}]
          /\ session_id' \in [Id -> Session \cup {None}]
          /\ renewed_at' \in [Id -> 0..now']
          /\ released' \in [Id -> BOOLEAN]
          /\ now' \in Time
          /\ last' \in [Session -> Time]
          /\ crossed' \subseteq Table \X SUBSET Session
      BY <1>4, <1>5, <1>6 DEF IInv, TypeOK
    <2>2. warned' \in [Session -> [Table -> SUBSET Session]]
      <3>1. PICK W \in SUBSET Session : W = {session_id[i] : i \in c.others}
        <4>1. \A i \in c.others : session_id[i] \in Session
          BY <1>4 DEF IInv, TypeOK
        <4>2. {session_id[i] : i \in c.others} \in SUBSET Session
          BY <4>1
        <4>3. QED
          BY <4>2
      <3>2. warned' = [warned EXCEPT ![s][tn] = W]
        BY <1>5, <3>1
      <3>3. QED
        BY <3>2, <1>4 DEF IInv, TypeOK
    <2>3. \A p \in Session :
            /\ calling'[p].op \in Op
            /\ calling'[p].at \in 0..now'
            /\ calling'[p].table \in Table \cup {None}
            /\ calling'[p].own \in Rows' \cup {None}
            /\ calling'[p].own # None => session_id'[calling'[p].own] = p
            /\ calling'[p].others \subseteq Rows'
      <3> SUFFICES ASSUME NEW p \in Session
                   PROVE  /\ calling'[p].op \in Op
                          /\ calling'[p].at \in 0..now'
                          /\ calling'[p].table \in Table \cup {None}
                          /\ calling'[p].own \in Rows' \cup {None}
                          /\ calling'[p].own # None => session_id'[calling'[p].own] = p
                          /\ calling'[p].others \subseteq Rows'
        OBVIOUS
      <3>1. CASE p = s
        BY <3>1, <1>6, <1>8, <1>5 DEF Call
      <3>2. CASE p # s
        BY <3>2, <1>5, <1>7, <1>8, <1>9 DEF IInv, TypeOK, Op
      <3>3. QED
        BY <3>1, <3>2
    <2>4. \A i \in Rows' : table'[i] \in Table /\ session_id'[i] \in Session
      BY <1>4, <1>7, <1>9 DEF IInv, TypeOK
    <2>5. QED
      BY <1>7, <2>1, <2>2, <2>3, <2>4 DEF TypeOK, Op
  <1>11. \A i \in Rows : \/ renewed_at'[i] = renewed_at[i]
                         \/ /\ session_id[i] = s
                            /\ renewed_at'[i] = last[s]
                            /\ renewed_at[i] >= last[s] - TTL
    BY <1>2, <1>4, <1>7, <1>9
  <1>12. id \notin Rows /\ id \in Rows' =>
           /\ session_id'[id] = s /\ table'[id] = tn /\ Held(s, tn) = {}
           /\ renewed_at'[id] <= last[s] /\ calling'[s].op # "take"
    BY <1>2, <1>4, <1>6, <1>7, <1>8, <1>9
  <1>13. /\ last' = last /\ now <= now' /\ now' \in Time
         /\ calling'[s].op \notin {"take", "renew"}
         /\ Rows \subseteq Rows' /\ Rows' \subseteq Rows \cup {id}
         /\ \A i \in Rows : released[i] => released'[i]
    BY <1>5, <1>6, <1>7, <1>8, <1>10 DEF TypeOK
  <1>14. QED
    BY <1>8, <1>9, <1>10, <1>11, <1>12, <1>13, WriteIInv

(* The renewal after a call: the session's cards that counted as active at
   the clock read before take that clock. *)
LEMMA RenewWriteIInv ==
  ASSUME IInv, NEW s \in Session, RenewWrite(s)
  PROVE  IInv'
  <1>1. /\ calling[s].at = last[s] /\ last[s] \in Nat /\ last[s] <= now
        /\ Rows \subseteq Id /\ now \in Nat
        /\ calling \in [Session -> Call] /\ Idle \in Call /\ Idle.op = "idle"
        /\ Idle.own = None /\ Idle.others = {} /\ Idle.at = 0
        /\ renewed_at \in [Id -> 0..now] /\ Rows' = Rows
    <2>1. TypeOK /\ CallShape /\ CallClock
      BY DEF IInv
    <2>2. calling[s].op = "renew" /\ rows' = rows
      BY DEF RenewWrite
    <2>3. calling[s].at = last[s] /\ last[s] <= now
      BY <2>1, <2>2 DEF CallClock
    <2>4. Rows \subseteq Id /\ now \in Nat /\ last[s] \in Nat /\ Rows' = Rows
      BY <2>1, <2>2, RowsAreIds DEF TypeOK, Rows, Time
    <2>5. calling \in [Session -> Call] /\ renewed_at \in [Id -> 0..now]
      BY <2>1 DEF CallShape, TypeOK
    <2>6. Idle \in Call /\ Idle.op = "idle" /\ Idle.own = None /\ Idle.others = {} /\ Idle.at = 0
      BY IdleIsACall DEF Idle
    <2>7. QED
      BY <2>3, <2>4, <2>5, <2>6
  <1>2. /\ renewed_at' = [i \in Id |-> IF i \in Renewable(s, last[s])
                                      THEN last[s] ELSE renewed_at[i]]
        /\ calling' = [calling EXCEPT ![s] = Idle]
        /\ UNCHANGED <<rows, table, session_id, released, now, last, warned, crossed>>
    BY <1>1 DEF RenewWrite
  <1>3. /\ \A p \in Session \ {s} : calling'[p] = calling[p]
        /\ calling'[s] = Idle /\ calling' \in [Session -> Call]
    BY <1>1, <1>2
  <1>4. \A i \in Rows : \/ renewed_at'[i] = renewed_at[i]
                        \/ /\ session_id[i] = s
                           /\ renewed_at'[i] = last[s]
                           /\ renewed_at[i] >= last[s] - TTL
    BY <1>1, <1>2 DEF Renewable, Active
  <1>5. TypeOK'
    <2>1. renewed_at' \in [Id -> 0..now']
      BY <1>1, <1>2
    <2>2. \A p \in Session :
            /\ calling'[p].op \in Op
            /\ calling'[p].at \in 0..now'
            /\ calling'[p].table \in Table \cup {None}
            /\ calling'[p].own \in Rows' \cup {None}
            /\ calling'[p].own # None => session_id'[calling'[p].own] = p
            /\ calling'[p].others \subseteq Rows'
      BY <1>1, <1>2, <1>3 DEF IInv, TypeOK, Op, Call
    <2>3. QED
      BY <1>1, <1>2, <2>1, <2>2 DEF IInv, TypeOK, Op
  <1>6. /\ last' = last /\ now <= now' /\ now' \in Time
        /\ calling'[s].op \notin {"take", "renew"}
        /\ Rows \subseteq Rows' /\ Rows' \subseteq Rows \cup {0} /\ ~(0 \in Rows')
        /\ \A i \in Rows : table'[i] = table[i] /\ session_id'[i] = session_id[i]
        /\ \A i \in Rows : released[i] => released'[i]
    BY <1>1, <1>2, <1>3, <1>5 DEF TypeOK, Id
  <1>7. QED
    BY <1>3, <1>4, <1>5, <1>6, WriteIInv

(* A release, a break, a call that stops and the clock renew nothing and
   insert nothing. *)
LEMMA QuietIInv ==
  ASSUME IInv, NEW s \in Session,
         UNCHANGED <<rows, table, session_id, renewed_at, last, warned, crossed>>,
         now' \in Time, now <= now',
         calling' = calling \/ calling' = [calling EXCEPT ![s] = Took]
                            \/ calling' = [calling EXCEPT ![s] = Idle],
         released' \in [Id -> BOOLEAN],
         \A i \in Rows : released[i] => released'[i]
  PROVE  IInv'
  <1>1. /\ Rows \subseteq Id /\ now \in Nat /\ now' \in Nat /\ Rows' = Rows
        /\ calling \in [Session -> Call]
        /\ Idle \in Call /\ Idle.op = "idle" /\ Idle.own = None
        /\ Idle.others = {} /\ Idle.at = 0
        /\ Took \in Call /\ Took.op = "done" /\ Took.own = None
        /\ Took.others = {} /\ Took.at = 0
    BY RowsAreIds, IdleIsACall, BoundsAssumption
       DEF IInv, CallShape, TypeOK, Time, Idle, Took, Rows
  <1>2. /\ \A p \in Session \ {s} : calling'[p] = calling[p]
        /\ calling'[s] = calling[s] \/ calling'[s] = Idle \/ calling'[s] = Took
        /\ calling' \in [Session -> Call]
    BY <1>1
  <1>3. TypeOK'
    <2>1. renewed_at' \in [Id -> 0..now']
      BY <1>1 DEF IInv, TypeOK
    <2>2. \A p \in Session :
            /\ calling'[p].op \in Op
            /\ calling'[p].at \in 0..now'
            /\ calling'[p].table \in Table \cup {None}
            /\ calling'[p].own \in Rows' \cup {None}
            /\ calling'[p].own # None => session_id'[calling'[p].own] = p
            /\ calling'[p].others \subseteq Rows'
      <3> SUFFICES ASSUME NEW p \in Session
                   PROVE  /\ calling'[p].op \in Op
                          /\ calling'[p].at \in 0..now'
                          /\ calling'[p].table \in Table \cup {None}
                          /\ calling'[p].own \in Rows' \cup {None}
                          /\ calling'[p].own # None => session_id'[calling'[p].own] = p
                          /\ calling'[p].others \subseteq Rows'
        OBVIOUS
      <3>1. CASE calling'[p] = calling[p]
        BY <3>1, <1>1 DEF IInv, TypeOK, Op
      <3>2. CASE calling'[p] = Idle \/ calling'[p] = Took
        BY <3>2, <1>1 DEF Call
      <3>3. QED
        BY <3>1, <3>2, <1>2
    <2>3. QED
      BY <1>1, <2>1, <2>2 DEF IInv, TypeOK, Op
  <1>4. /\ calling'[s] = calling[s] \/ calling'[s].op \notin {"take", "renew"}
        /\ Rows \subseteq Rows' /\ Rows' \subseteq Rows \cup {0} /\ ~(0 \in Rows')
        /\ \A i \in Rows : table'[i] = table[i] /\ session_id'[i] = session_id[i]
        /\ \A i \in Rows : renewed_at'[i] = renewed_at[i]
        /\ last' = last
    BY <1>1, <1>2 DEF Id
  <1>5. QED
    BY <1>2, <1>3, <1>4, WriteIInv

(* Every step keeps the inductive invariant. *)
LEMMA NextIInv == IInv /\ [Next]_vars => IInv'
  <1> SUFFICES ASSUME IInv, [Next]_vars PROVE IInv'
    OBVIOUS
  <1>1. /\ now \in Time /\ now <= now /\ released \in [Id -> BOOLEAN]
        /\ now \in Nat /\ MaxTime \in Nat /\ Rows \subseteq Id
    BY RowsAreIds, BoundsAssumption DEF IInv, TypeOK, Time
  <1>2. ASSUME NEW s \in Session,
               LeaseTake(s) \/ LeaseRelease(s) \/ RenewForSession(s) \/ CallStops(s)
        PROVE  IInv'
    <2>1. CASE \E t \in Table : TakeRead(s, t)
      BY <2>1, TakeReadIInv
    <2>2. CASE TakeWrite(s)
      BY <2>2, TakeWriteIInv
    <2>3. CASE RenewRead(s) \/ \E t \in Table : ReleaseRead(s, t)
      BY <2>3, OtherReadIInv
    <2>4. CASE ReleaseWrite(s)
      <3>1. released' \in [Id -> BOOLEAN] /\ \A i \in Rows : released[i] => released'[i]
        BY <1>1, <2>4 DEF ReleaseWrite
      <3>2. QED
        BY <1>1, <2>4, <3>1, QuietIInv DEF ReleaseWrite
    <2>5. CASE RenewWrite(s)
      BY <2>5, RenewWriteIInv
    <2>6. CASE CallStops(s)
      BY <1>1, <2>6, QuietIInv DEF CallStops
    <2>7. QED
      BY <1>2, <2>1, <2>2, <2>3, <2>4, <2>5, <2>6
         DEF LeaseTake, LeaseRelease, RenewForSession
  <1>3. CASE Session # {}
    <2>1. PICK s \in Session : TRUE
      BY <1>3
    <2>2. ASSUME NEW i \in Id, BreakLease(i) PROVE IInv'
      <3>1. released' \in [Id -> BOOLEAN] /\ \A j \in Rows : released[j] => released'[j]
        BY <1>1, <2>2 DEF BreakLease
      <3>2. QED
        BY <1>1, <2>1, <2>2, <3>1, QuietIInv DEF BreakLease
    <2>3. ASSUME Clock PROVE IInv'
      <3>1. now' \in Time /\ now <= now'
        BY <1>1, <2>3 DEF Clock, Time
      <3>2. QED
        BY <1>1, <2>1, <2>3, <3>1, QuietIInv DEF Clock
    <2>4. ASSUME UNCHANGED vars PROVE IInv'
      BY <1>1, <2>1, <2>4, QuietIInv DEF vars
    <2>5. QED
      BY <1>2, <2>2, <2>3, <2>4 DEF Next
  <1>4. CASE Session = {}
    <2>1. Rows = {}
      BY <1>4 DEF IInv, TypeOK
    <2>2. /\ rows' = rows /\ table' = table /\ session_id' = session_id
          /\ renewed_at' = renewed_at /\ released' = released /\ now' \in Time
          /\ now <= now' /\ calling' = calling /\ last' = last /\ warned' = warned
          /\ crossed' = crossed
      BY <1>1, <1>4, <2>1 DEF Next, BreakLease, Clock, vars, Time
    <2>3. Rows' = {} /\ now' \in Nat
      BY <1>1, <2>1, <2>2 DEF Rows, Time
    <2>4. renewed_at' \in [Id -> 0..now']
      BY <1>1, <2>2, <2>3 DEF IInv, TypeOK
    <2>5. TypeOK'
      BY <1>4, <2>2, <2>3, <2>4 DEF IInv, TypeOK
    <2>6. CallShape' /\ CallClock' /\ RenewedByCalls' /\ TakeKnows' /\ OneHeld'
      BY <1>4, <2>2, <2>3
         DEF IInv, CallShape, CallClock, RenewedByCalls, TakeKnows, OneHeld
    <2>7. QED
      BY <2>5, <2>6 DEF IInv
  <1>5. QED
    BY <1>3, <1>4

(* The inductive invariant holds of every reachable state. *)
THEOREM Invariance == Spec => []IInv
  <1>1. QED
    BY InitIInv, NextIInv, PTL DEF Spec

(* Columns and what calls remember keep their types; in particular no card is
   ever stamped with a time that has not come. *)
THEOREM TypeCorrect == Spec => []TypeOK
  <1>1. IInv => TypeOK
    BY DEF IInv
  <1>2. QED
    BY Invariance, <1>1, PTL

(* D-044 for any number of sessions, of any agents: no card is active longer
   than the ttl past the last call of the session that holds it. *)
THEOREM StaleOnScheduleHolds == Spec => []StaleOnSchedule
  <1>1. ASSUME IInv PROVE StaleOnSchedule
    <2> SUFFICES ASSUME NEW i \in Rows, Active(i, now)
                 PROVE  now - last[session_id[i]] <= TTL
      BY DEF StaleOnSchedule
    <2>1. session_id[i] \in Session /\ i \in Id /\ TTL \in Nat /\ now \in Nat
      BY <1>1, RowsAreIds, BoundsAssumption DEF IInv, TypeOK
    <2>2. renewed_at[i] \in Nat /\ last[session_id[i]] \in Nat
      BY <1>1, <2>1 DEF IInv, TypeOK, Time
    <2>3. renewed_at[i] <= last[session_id[i]] /\ renewed_at[i] >= now - TTL
      BY <1>1 DEF IInv, RenewedByCalls, Active
    <2>4. QED
      BY <2>1, <2>2, <2>3
  <1>2. QED
    BY Invariance, <1>1, PTL

(* A session never has two active cards on one table, though its calls write
   with what they read before others moved. *)
THEOREM OneCardPerHolderHolds == Spec => []OneCardPerHolder
  <1>1. ASSUME IInv PROVE OneCardPerHolder
    <2> SUFFICES ASSUME NEW i \in Rows, NEW j \in Rows,
                        Active(i, now), Active(j, now),
                        table[i] = table[j], session_id[i] = session_id[j]
                 PROVE  i = j
      BY DEF OneCardPerHolder
    <2>1. PICK s \in Session, t \in Table :
            s = session_id[i] /\ t = table[i] /\ s = session_id[j] /\ t = table[j]
      BY <1>1 DEF IInv, TypeOK
    <2>2. last[s] \in Int /\ last[s] <= now /\ now \in Int
      BY <1>1, RowsAreIds DEF IInv, TypeOK, CallClock, Time
    <2>3. Active(i, last[s]) /\ Active(j, last[s])
      BY <1>1, <2>2, ActiveEarlier DEF IInv
    <2>4. i \in Held(s, t) /\ j \in Held(s, t)
      BY <2>1, <2>3 DEF Held
    <2>5. QED
      BY <1>1, <2>4 DEF IInv, OneHeld
  <1>2. QED
    BY Invariance, <1>1, PTL

(* A lapsed card comes back only through a call of its own session that read
   the clock while it still counted. *)
THEOREM LapsedStaysLapsedHolds == Spec => LapsedStaysLapsed
  <1>1. ASSUME IInv, [Next]_vars, NEW i \in Rows, ~Active(i, now), Active(i, now)'
        PROVE  Active(i, calling[session_id[i]].at) /\ calling[session_id[i]] # Idle
    <2>1. /\ i \in Id /\ now \in Nat /\ TTL \in Nat /\ None \notin Id
          /\ renewed_at \in [Id -> Nat] /\ rows \in Nat /\ i \in 1..rows
          /\ released \in [Id -> BOOLEAN]
      BY <1>1, RowsAreIds, BoundsAssumption DEF IInv, TypeOK, Rows
    <2>2. ~released'[i] /\ renewed_at'[i] >= now' - TTL
      BY <1>1 DEF Active
    <2>3. ASSUME now' \in Nat, now <= now', ~released[i]
          PROVE  renewed_at'[i] # renewed_at[i]
      BY <1>1, <2>1, <2>2, <2>3 DEF Active
    <2>4. ASSUME NEW s \in Session, TakeWrite(s)
          PROVE  Active(i, calling[s].at) /\ session_id[i] = s /\ calling[s] # Idle
      <3>1. now' = now /\ released' = released /\ calling[s].op = "take"
        BY <2>4 DEF TakeWrite
      <3>2. renewed_at'[i] # renewed_at[i]
        BY <2>1, <2>2, <2>3, <3>1
      <3>3. i = IF calling[s].own = None THEN rows + 1 ELSE calling[s].own
        BY <2>1, <2>4, <3>2 DEF TakeWrite
      <3>4. calling[s].own # None /\ calling[s].own = i
        BY <2>1, <3>3
      <3>5. session_id[i] = s /\ renewed_at[i] >= calling[s].at - TTL
        BY <1>1, <3>1, <3>4 DEF IInv, TakeKnows, CallClock
      <3>6. QED
        BY <2>2, <3>1, <3>5 DEF Active, Idle
    <2>5. ASSUME NEW s \in Session, RenewWrite(s)
          PROVE  Active(i, calling[s].at) /\ session_id[i] = s /\ calling[s] # Idle
      <3>1. now' = now /\ released' = released /\ calling[s].op = "renew"
        BY <2>5 DEF RenewWrite
      <3>2. renewed_at'[i] # renewed_at[i]
        BY <2>1, <2>2, <2>3, <3>1
      <3>3. i \in Renewable(s, calling[s].at)
        BY <2>1, <2>5, <3>2 DEF RenewWrite
      <3>4. QED
        BY <3>1, <3>3 DEF Renewable, Idle
    <2>6. ASSUME renewed_at' = renewed_at, now' \in Nat, now <= now', released[i] => released'[i]
          PROVE  FALSE
      BY <2>2, <2>3, <2>6
    <2>7. ASSUME NEW s \in Session, ReleaseWrite(s) PROVE FALSE
      <3>1. released[i] => released'[i]
        BY <2>1, <2>7 DEF ReleaseWrite
      <3>2. QED
        BY <2>1, <2>6, <2>7, <3>1 DEF ReleaseWrite
    <2>8. ASSUME NEW k \in Id, BreakLease(k) PROVE FALSE
      <3>1. released[i] => released'[i]
        BY <2>1, <2>8 DEF BreakLease
      <3>2. QED
        BY <2>1, <2>6, <2>8, <3>1 DEF BreakLease
    <2>9. ASSUME NEW s \in Session,
                 \/ \E t \in Table : TakeRead(s, t) \/ ReleaseRead(s, t)
                 \/ RenewRead(s) \/ CallStops(s)
          PROVE  FALSE
      <3>1. UNCHANGED <<renewed_at, released, now>>
        <4>1. CASE \E t \in Table : TakeRead(s, t)
          BY <4>1, Zenon DEF TakeRead
        <4>2. CASE \E t \in Table : ReleaseRead(s, t)
          BY <4>2, Zenon DEF ReleaseRead
        <4>3. CASE RenewRead(s) \/ CallStops(s)
          BY <4>3, Zenon DEF RenewRead, CallStops
        <4>4. QED
          BY <2>9, <4>1, <4>2, <4>3
      <3>2. QED
        BY <2>1, <2>6, <3>1
    <2>10. ASSUME Clock \/ UNCHANGED vars PROVE FALSE
      BY <2>1, <2>6, <2>10 DEF Clock, vars
    <2>11. QED
      BY <1>1, <2>4, <2>5, <2>7, <2>8, <2>9, <2>10
         DEF Next, LeaseTake, LeaseRelease, RenewForSession
  <1>2. IInv /\ [Next]_vars =>
          [\A i \in Rows : ~Active(i, now) /\ Active(i, now)' =>
             Active(i, calling[session_id[i]].at) /\ calling[session_id[i]] # Idle]_vars
    BY <1>1
  <1>3. QED
    BY Invariance, <1>2, PTL DEF Spec, LapsedStaysLapsed

-----------------------------------------------------------------------------
(* Who sits together knows of it.  s sits at t, by a clock, when it has a card
   there that is active by that clock. *)
Sits(s, t, m) == \E i \in Rows : Active(i, m) /\ session_id[i] = s /\ table[i] = t

Crossed(s, p, t) == <<t, {s, p}>> \in crossed

Informed(s, p, t) == p \in warned[s][t] \/ s \in warned[p][t] \/ Crossed(s, p, t)

Taking(s, t) == calling[s].op = "take" /\ calling[s].table = t

Renewing(s) == calling[s].op = "renew"

(* Whom the take in flight is going to name. *)
WillName(s) == {session_id[i] : i \in calling[s].others}

SittersKnow(s, p, t) == Sits(s, t, now) /\ Sits(p, t, now) => Informed(s, p, t)

(* A take saw everyone who sits there by the clock it read, whatever was
   renewed since. *)
TakersSaw(s, p, t) ==
  Taking(s, t) /\ Sits(p, t, calling[s].at) => p \in WillName(s) \/ Crossed(s, p, t)

(* A renewal in flight extends no card of a session that has company it does
   not know of. *)
RenewersKnow(s, p, t) ==
  Renewing(s) /\ Sits(s, t, calling[s].at) /\ Sits(p, t, calling[s].at) =>
    Informed(s, p, t)

(* Takes in flight at once have crossed, and so have a take and a renewal
   that read the clock before it. *)
CallsCross(s, p, t) ==
  Taking(s, t) /\ (Taking(p, t) \/ (Renewing(p) /\ calling[p].at < calling[s].at)) =>
    Crossed(s, p, t)

JInv ==
  \A s, p \in Session, t \in Table :
    s # p => /\ SittersKnow(s, p, t) /\ TakersSaw(s, p, t)
             /\ RenewersKnow(s, p, t) /\ CallsCross(s, p, t)

(* Clocks are numbers; what every call reads is not ahead of the clock. *)
LEMMA ClocksAreNumbers ==
  ASSUME IInv
  PROVE  /\ now \in Int /\ TTL \in Int
         /\ \A s \in Session : calling[s].at \in Int /\ calling[s].at <= now
         /\ \A i \in Rows : renewed_at[i] \in Int
  BY RowsAreIds, BoundsAssumption DEF IInv, TypeOK

LEMMA NextClocksAreNumbers ==
  (IInv => now \in Int /\ \A s \in Session : calling[s].at \in Int)'
  <1>1. IInv => now \in Int /\ \A s \in Session : calling[s].at \in Int
    BY ClocksAreNumbers
  <1>2. QED
    BY <1>1, PTL

(* Who sits by a clock sits by every earlier one. *)
LEMMA SitsEarlier ==
  ASSUME IInv, NEW s, NEW t, NEW b \in Int, NEW a \in Int, a <= b, Sits(s, t, b)
  PROVE  Sits(s, t, a)
  BY ClocksAreNumbers DEF Sits, Active

(* Two informed sessions are informed either way round. *)
LEMMA InformedBothWays ==
  ASSUME NEW s, NEW p, NEW t
  PROVE  /\ Informed(s, p, t) <=> Informed(p, s, t)
         /\ Crossed(s, p, t) <=> Crossed(p, s, t)
  <1>1. {s, p} = {p, s}
    OBVIOUS
  <1>2. QED
    BY <1>1, Zenon DEF Informed, Crossed

(* Nobody comes to sit anywhere unless a card is written or renewed. *)
Unwritten ==
  /\ UNCHANGED <<rows, table, session_id, renewed_at, warned>>
  /\ \A i \in Rows : released[i] => released'[i]
  /\ crossed \subseteq crossed'

(* Then nobody sits who did not, and who was informed or crossed still is. *)
LEMMA UnwrittenSits ==
  ASSUME Unwritten
  PROVE  /\ \A q, t, m : Sits(q, t, m)' => Sits(q, t, m)
         /\ \A q, p, t : Informed(q, p, t) => Informed(q, p, t)'
         /\ \A q, p, t : Crossed(q, p, t) => Crossed(q, p, t)'
  BY DEF Unwritten, Sits, Active, Informed, Crossed, Rows

(* A step that writes no card: a call that begins, ends or stops, a card given
   back, the clock.  A call that begins carries the clock of the moment, and a
   take has seen who sits there and crossed the calls in flight. *)
LEMMA UnwrittenJInv ==
  ASSUME IInv, JInv, IInv', Unwritten, now <= now', NEW s \in Session,
         \A q \in Session \ {s} : calling'[q] = calling[q],
         \/ calling'[s] = calling[s]
         \/ calling'[s].op \notin {"take", "renew"}
         \/ /\ now' = now /\ calling'[s].at = now
            /\ \/ calling'[s].op = "renew"
               \/ \A p \in Session \ {s}, t \in Table :
                    Taking(s, t)' =>
                      /\ TakersSaw(s, p, t)'
                      /\ InFlight(p, t) => Crossed(s, p, t)'
  PROVE  JInv'
  <1>1. /\ now \in Int /\ now' \in Int
        /\ \A q \in Session : calling[q].at \in Int /\ calling[q].at <= now
        /\ \A q \in Session : calling'[q].at \in Int
    BY ClocksAreNumbers, NextClocksAreNumbers
  <1>2. SUFFICES ASSUME NEW q \in Session, NEW p \in Session, NEW t \in Table, q # p
                 PROVE  /\ SittersKnow(q, p, t)' /\ TakersSaw(q, p, t)'
                        /\ RenewersKnow(q, p, t)' /\ CallsCross(q, p, t)'
    BY DEF JInv
  <1>3. /\ SittersKnow(q, p, t) /\ TakersSaw(q, p, t)
        /\ RenewersKnow(q, p, t) /\ CallsCross(q, p, t) /\ CallsCross(p, q, t)
    BY <1>2 DEF JInv
  <1>4. SittersKnow(q, p, t)'
    <2>1. Sits(q, t, now)' /\ Sits(p, t, now)' => Sits(q, t, now') /\ Sits(p, t, now')
      BY UnwrittenSits
    <2>2. Sits(q, t, now') /\ Sits(p, t, now') => Sits(q, t, now) /\ Sits(p, t, now)
      BY <1>1, SitsEarlier
    <2>3. QED
      BY <1>3, <2>1, <2>2, UnwrittenSits DEF SittersKnow
  <1>5. CASE q # s
    <2>1. calling'[q] = calling[q]
      BY <1>5
    <2>2. TakersSaw(q, p, t)'
      <3>1. WillName(q)' = WillName(q)
        BY <2>1 DEF WillName, Unwritten
      <3>2. QED
        BY <1>3, <2>1, <3>1, UnwrittenSits DEF TakersSaw, Taking
    <2>3. RenewersKnow(q, p, t)'
      BY <1>3, <2>1, UnwrittenSits DEF RenewersKnow, Renewing
    <2>4. CallsCross(q, p, t)'
      <3>1. CASE p # s \/ calling'[s] = calling[s]
        BY <1>3, <2>1, <3>1, UnwrittenSits DEF CallsCross, Taking, Renewing
      <3>2. CASE p = s /\ now' = now /\ calling'[s].at = now /\ calling'[s].op = "renew"
        BY <1>1, <2>1, <3>2 DEF CallsCross, Taking, Renewing
      <3>3. CASE p = s /\ (Taking(s, t)' => (InFlight(q, t) => Crossed(s, q, t)'))
                 /\ calling'[s].op # "renew"
        <4>1. Taking(q, t)' => InFlight(q, t)
          BY <2>1 DEF Taking, InFlight
        <4>2. Crossed(s, q, t)' <=> Crossed(q, s, t)'
          <5>1. {s, q} = {q, s}
            OBVIOUS
          <5>2. QED
            BY <5>1, Zenon DEF Crossed
        <4>3. QED
          BY <3>3, <4>1, <4>2 DEF CallsCross, Renewing
      <3>4. CASE p = s /\ calling'[s].op \notin {"take", "renew"}
        BY <3>4 DEF CallsCross, Taking, Renewing
      <3>5. QED
        BY <1>2, <3>1, <3>2, <3>3, <3>4
    <2>5. QED
      BY <1>4, <2>2, <2>3, <2>4
  <1>6. CASE q = s
    <2>1. calling'[p] = calling[p]
      BY <1>2, <1>6
    <2>2. CASE calling'[s] = calling[s]
      <3>1. WillName(q)' = WillName(q)
        BY <1>6, <2>2 DEF WillName, Unwritten
      <3>2. TakersSaw(q, p, t)'
        BY <1>3, <1>6, <2>2, <3>1, UnwrittenSits DEF TakersSaw, Taking
      <3>3. RenewersKnow(q, p, t)'
        BY <1>3, <1>6, <2>2, UnwrittenSits DEF RenewersKnow, Renewing
      <3>4. CallsCross(q, p, t)'
        BY <1>3, <1>6, <2>1, <2>2, UnwrittenSits DEF CallsCross, Taking, Renewing
      <3>5. QED
        BY <1>4, <3>2, <3>3, <3>4
    <2>3. CASE calling'[s].op \notin {"take", "renew"}
      BY <1>4, <1>6, <2>3 DEF TakersSaw, RenewersKnow, CallsCross, Taking, Renewing
    <2>4. CASE now' = now /\ calling'[s].at = now /\ calling'[s].op = "renew"
      <3>1. RenewersKnow(q, p, t)'
        BY <1>3, <1>6, <2>4, UnwrittenSits DEF RenewersKnow, Renewing, SittersKnow
      <3>2. QED
        BY <1>4, <1>6, <2>4, <3>1 DEF TakersSaw, CallsCross, Taking
    <2>5. CASE /\ calling'[s].op \notin {"renew"}
               /\ Taking(s, t)' =>
                    /\ TakersSaw(s, p, t)'
                    /\ InFlight(p, t) => Crossed(s, p, t)'
      <3>1. TakersSaw(q, p, t)'
        BY <1>6, <2>5 DEF TakersSaw, Taking
      <3>2. RenewersKnow(q, p, t)'
        BY <1>6, <2>5 DEF RenewersKnow, Renewing
      <3>3. CallsCross(q, p, t)'
        BY <1>6, <2>1, <2>5 DEF CallsCross, Taking, Renewing, InFlight
      <3>4. QED
        BY <1>4, <3>1, <3>2, <3>3
    <2>6. QED
      BY <1>2, <1>6, <2>2, <2>3, <2>4, <2>5
  <1>7. QED
    BY <1>5, <1>6

(* A take writes: the taker now sits at its table, has been told of everyone
   its take saw, and is in flight no more. *)
LEMMA TakeWriteJInv ==
  ASSUME IInv, JInv, NEW s \in Session, TakeWrite(s)
  PROVE  JInv'
  <1>1. PICK c : c = calling[s]
    OBVIOUS
  <1>2. PICK id : id = IF c.own = None THEN rows + 1 ELSE c.own
    OBVIOUS
  <1>3. PICK tn : tn = c.table
    OBVIOUS
  <1>4. /\ Taking(s, tn) /\ tn \in Table /\ c.others \subseteq Rows
        /\ c.own # None =>
             c.own \in Rows /\ session_id[c.own] = s /\ table[c.own] = tn
    BY <1>1, <1>3 DEF TakeWrite, Taking, IInv, TypeOK, TakeKnows
  <1>5. /\ id \in Id
        /\ rows' = IF c.own = None THEN id ELSE rows
        /\ table' = [table EXCEPT ![id] = tn]
        /\ session_id' = [session_id EXCEPT ![id] = s]
        /\ renewed_at' = [renewed_at EXCEPT ![id] = c.at]
        /\ warned' = [warned EXCEPT ![s][tn] = WillName(s)]
        /\ calling' = [calling EXCEPT ![s] = Took]
        /\ UNCHANGED <<released, now, last, crossed>>
    BY <1>1, <1>2, <1>3 DEF TakeWrite, WillName
  <1>6. /\ Rows \subseteq Id /\ rows \in 0..MaxCards /\ MaxCards \in Nat
        /\ table \in [Id -> Table \cup {None}]
        /\ session_id \in [Id -> Session \cup {None}]
        /\ renewed_at \in [Id -> 0..now]
        /\ calling \in [Session -> Call] /\ Took.op = "done"
        /\ warned \in [Session -> [Table -> SUBSET Session]]
    BY RowsAreIds, BoundsAssumption DEF IInv, TypeOK, CallShape, Took, Idle
  <1>7. /\ Rows' = Rows \cup {id}
        /\ \A i \in Rows : table'[i] = table[i] /\ session_id'[i] = session_id[i]
        /\ table'[id] = tn /\ session_id'[id] = s
        /\ \A i \in Rows : i # id => renewed_at'[i] = renewed_at[i]
    <2>1. CASE c.own = None
      <3>1. id = rows + 1 /\ rows' = id
        BY <1>2, <1>5, <2>1
      <3>2. Rows' = Rows \cup {id} /\ id \notin Rows
        BY <1>6, <3>1 DEF Rows
      <3>3. QED
        BY <1>5, <1>6, <3>2
    <2>2. CASE c.own # None
      <3>1. id \in Rows /\ session_id[id] = s /\ table[id] = tn /\ rows' = rows
        BY <1>2, <1>4, <1>5, <2>2
      <3>2. Rows' = Rows
        BY <3>1 DEF Rows
      <3>3. QED
        BY <1>5, <1>6, <3>1, <3>2
    <2>3. QED
      BY <2>1, <2>2
  <1>8. /\ calling'[s].op = "done"
        /\ \A q \in Session \ {s} : calling'[q] = calling[q]
    BY <1>5, <1>6
  <1>9. \A q, t, m : Sits(q, t, m)' => Sits(q, t, m) \/ (q = s /\ t = tn)
    <2> SUFFICES ASSUME NEW q, NEW t, NEW m, Sits(q, t, m)'
                 PROVE  Sits(q, t, m) \/ (q = s /\ t = tn)
      OBVIOUS
    <2>1. PICK i \in Rows' : /\ Active(i, m)' /\ session_id'[i] = q /\ table'[i] = t
      BY DEF Sits
    <2>2. CASE i = id
      BY <1>7, <2>1, <2>2
    <2>3. CASE i # id
      <3>1. i \in Rows /\ ~released[i] /\ renewed_at[i] >= m - TTL
        BY <1>5, <1>7, <2>1, <2>3 DEF Active
      <3>2. QED
        BY <1>7, <2>1, <3>1 DEF Sits, Active
    <2>4. QED
      BY <2>2, <2>3
  <1>10. warned'[s][tn] = WillName(s)
    BY <1>4, <1>5, <1>6
  <1>11. \A q \in Session, t \in Table : q # s \/ t # tn => warned'[q][t] = warned[q][t]
    BY <1>4, <1>5, <1>6
  <1>12. \A q \in Session \ {s} : WillName(q)' = WillName(q)
    <2>1. \A q \in Session : calling[q].others \subseteq Rows
      BY DEF IInv, TypeOK
    <2> SUFFICES ASSUME NEW q \in Session \ {s} PROVE WillName(q)' = WillName(q)
      OBVIOUS
    <2>2. \A i \in calling[q].others : session_id'[i] = session_id[i]
      BY <1>7, <2>1
    <2>3. calling'[q] = calling[q]
      BY <1>8
    <2>4. QED
      BY <2>2, <2>3 DEF WillName
  <1>13. now' = now /\ now \in Int /\ \A q \in Session : calling[q].at \in Int /\ calling[q].at <= now
    BY <1>5, ClocksAreNumbers
  <1>14. \A q, p, t : Crossed(q, p, t)' <=> Crossed(q, p, t)
    BY <1>5 DEF Crossed
  <1>15. ASSUME NEW p \in Session, p # s, Sits(p, tn, calling[s].at)
         PROVE  Informed(s, p, tn)' /\ Informed(p, s, tn)'
    <2>1. p \in WillName(s) \/ Crossed(s, p, tn)
      BY <1>4, <1>15 DEF JInv, TakersSaw
    <2>2. Informed(s, p, tn)'
      BY <1>10, <1>14, <2>1 DEF Informed
    <2>3. {s, p} = {p, s}
      OBVIOUS
    <2>4. QED
      BY <2>2, <2>3 DEF Informed, Crossed
  <1>16. \A q, p \in Session, t \in Table :
           (q # s /\ p # s) \/ t # tn => (Informed(q, p, t)' <=> Informed(q, p, t))
    BY <1>11, <1>14 DEF Informed
  <1>17. SUFFICES ASSUME NEW q \in Session, NEW p \in Session, NEW t \in Table, q # p
                  PROVE  /\ SittersKnow(q, p, t)' /\ TakersSaw(q, p, t)'
                         /\ RenewersKnow(q, p, t)' /\ CallsCross(q, p, t)'
    BY DEF JInv
  <1>18. /\ SittersKnow(q, p, t) /\ TakersSaw(q, p, t)
         /\ RenewersKnow(q, p, t) /\ CallsCross(q, p, t)
    BY <1>17 DEF JInv
  <1>19. SittersKnow(q, p, t)'
    <2>1. SUFFICES ASSUME Sits(q, t, now)', Sits(p, t, now)' PROVE Informed(q, p, t)'
      BY DEF SittersKnow
    <2>2. CASE (q # s /\ p # s) \/ t # tn
      BY <1>9, <1>13, <1>16, <1>18, <2>1, <2>2 DEF SittersKnow
    <2>3. CASE q = s /\ t = tn
      <3>1. Sits(p, tn, now)
        BY <1>9, <1>13, <1>17, <2>1, <2>3
      <3>2. Sits(p, tn, calling[s].at)
        BY <1>13, <3>1, SitsEarlier
      <3>3. QED
        BY <1>15, <1>17, <2>3, <3>2
    <2>4. CASE p = s /\ t = tn
      <3>1. Sits(q, tn, now)
        BY <1>9, <1>13, <1>17, <2>1, <2>4
      <3>2. Sits(q, tn, calling[s].at)
        BY <1>13, <3>1, SitsEarlier
      <3>3. QED
        BY <1>15, <1>17, <2>4, <3>2
    <2>5. QED
      BY <2>2, <2>3, <2>4
  <1>20. CASE q = s
    BY <1>8, <1>19, <1>20 DEF TakersSaw, RenewersKnow, CallsCross, Taking, Renewing
  <1>21. CASE q # s
    <2>1. calling'[q] = calling[q] /\ WillName(q)' = WillName(q)
      BY <1>8, <1>12, <1>21
    <2>2. TakersSaw(q, p, t)'
      <3>1. CASE p = s /\ t = tn
        BY <1>4, <1>14, <1>18, <2>1, <3>1 DEF TakersSaw, CallsCross, Taking
      <3>2. CASE ~(p = s /\ t = tn)
        BY <1>9, <1>14, <1>18, <2>1, <3>2 DEF TakersSaw, Taking
      <3>3. QED
        BY <3>1, <3>2
    <2>3. RenewersKnow(q, p, t)'
      <3>1. SUFFICES ASSUME Renewing(q), Sits(q, t, calling[q].at)', Sits(p, t, calling[q].at)'
                     PROVE  Informed(q, p, t)'
        BY <2>1 DEF RenewersKnow, Renewing
      <3>2. Sits(q, t, calling[q].at)
        BY <1>9, <1>21, <2>1, <3>1
      <3>3. CASE p # s \/ t # tn
        <4>1. Sits(p, t, calling[q].at)
          BY <1>9, <2>1, <3>1, <3>3
        <4>2. Informed(q, p, t)
          BY <1>18, <3>1, <3>2, <4>1 DEF RenewersKnow
        <4>3. QED
          BY <1>16, <1>21, <3>3, <4>2
      <3>4. CASE p = s /\ t = tn
        <4>1. CASE calling[q].at < calling[s].at
          <5>1. CallsCross(s, q, tn)
            BY <1>4, <1>21 DEF JInv
          <5>2. Crossed(s, q, tn)
            BY <1>4, <3>1, <4>1, <5>1 DEF CallsCross
          <5>3. Crossed(q, s, tn)'
            BY <1>14, <5>2, InformedBothWays
          <5>4. QED
            BY <3>4, <5>3 DEF Informed
        <4>2. CASE ~(calling[q].at < calling[s].at)
          <5>1. calling[s].at <= calling[q].at
            BY <1>13, <4>2
          <5>2. Sits(q, tn, calling[s].at)
            BY <1>13, <3>2, <3>4, <5>1, SitsEarlier
          <5>3. QED
            BY <1>15, <1>21, <3>4, <5>2
        <4>3. QED
          BY <4>1, <4>2
      <3>5. QED
        BY <3>3, <3>4
    <2>4. CallsCross(q, p, t)'
      <3>1. CASE p = s
        BY <1>8, <3>1 DEF CallsCross, Taking, Renewing
      <3>2. CASE p # s
        <4>1. calling'[p] = calling[p]
          BY <1>8, <3>2
        <4>2. QED
          BY <1>14, <1>18, <2>1, <4>1 DEF CallsCross, Taking, Renewing
      <3>3. QED
        BY <3>1, <3>2
    <2>5. QED
      BY <1>19, <2>2, <2>3, <2>4
  <1>22. QED
    BY <1>20, <1>21

(* A renewal writes: its session sits wherever it sat by the clock it read. *)
LEMMA RenewWriteJInv ==
  ASSUME IInv, JInv, NEW s \in Session, RenewWrite(s)
  PROVE  JInv'
  <1>1. PICK a : a = calling[s].at
    OBVIOUS
  <1>2. /\ Renewing(s) /\ Rows' = Rows /\ Rows \subseteq Id
        /\ UNCHANGED <<table, session_id, released, now, warned, crossed>>
        /\ renewed_at' = [i \in Id |-> IF i \in Renewable(s, a) THEN a ELSE renewed_at[i]]
        /\ calling' = [calling EXCEPT ![s] = Idle]
    BY <1>1, RowsAreIds DEF RenewWrite, Renewing, Rows, IInv
  <1>3. /\ calling'[s].op = "idle"
        /\ \A q \in Session \ {s} : calling'[q] = calling[q] /\ WillName(q)' = WillName(q)
    <2>1. calling \in [Session -> Call] /\ Idle.op = "idle"
      BY DEF IInv, CallShape, Idle
    <2>2. calling'[s].op = "idle" /\ \A q \in Session \ {s} : calling'[q] = calling[q]
      BY <1>2, <2>1
    <2>3. QED
      BY <1>2, <2>2 DEF WillName
  <1>4. /\ now' = now /\ now \in Int /\ a \in Int /\ a <= now
        /\ \A q \in Session : calling[q].at \in Int
    BY <1>1, <1>2, ClocksAreNumbers
  <1>5. \A q, t, m : Sits(q, t, m)' => Sits(q, t, m) \/ (q = s /\ Sits(s, t, a))
    <2> SUFFICES ASSUME NEW q, NEW t, NEW m, Sits(q, t, m)'
                 PROVE  Sits(q, t, m) \/ (q = s /\ Sits(s, t, a))
      OBVIOUS
    <2>1. PICK i \in Rows : /\ ~released[i] /\ renewed_at'[i] >= m - TTL
                            /\ session_id[i] = q /\ table[i] = t
      BY <1>2 DEF Sits, Active
    <2>2. CASE i \in Renewable(s, a)
      BY <2>1, <2>2 DEF Sits, Renewable
    <2>3. CASE i \notin Renewable(s, a)
      <3>1. renewed_at'[i] = renewed_at[i]
        BY <1>2, <2>3
      <3>2. QED
        BY <2>1, <3>1 DEF Sits, Active
    <2>4. QED
      BY <2>2, <2>3
  <1>6. \A q, p, t : /\ Crossed(q, p, t)' <=> Crossed(q, p, t)
                     /\ Informed(q, p, t)' <=> Informed(q, p, t)
    BY <1>2 DEF Crossed, Informed
  <1>7. ASSUME NEW p \in Session, p # s, NEW t \in Table, Sits(s, t, a), Sits(p, t, a)
        PROVE  Informed(s, p, t) /\ Informed(p, s, t)
    <2>1. Informed(s, p, t)
      BY <1>1, <1>2, <1>7 DEF JInv, RenewersKnow
    <2>2. QED
      BY <2>1, InformedBothWays
  <1>8. SUFFICES ASSUME NEW q \in Session, NEW p \in Session, NEW t \in Table, q # p
                 PROVE  /\ SittersKnow(q, p, t)' /\ TakersSaw(q, p, t)'
                        /\ RenewersKnow(q, p, t)' /\ CallsCross(q, p, t)'
    BY DEF JInv
  <1>9. /\ SittersKnow(q, p, t) /\ TakersSaw(q, p, t)
        /\ RenewersKnow(q, p, t) /\ CallsCross(q, p, t)
    BY <1>8 DEF JInv
  <1>10. SittersKnow(q, p, t)'
    <2>1. SUFFICES ASSUME Sits(q, t, now)', Sits(p, t, now)' PROVE Informed(q, p, t)
      BY <1>6 DEF SittersKnow
    <2>2. CASE Sits(q, t, now) /\ Sits(p, t, now)
      BY <1>9, <2>2 DEF SittersKnow
    <2>3. CASE q = s /\ Sits(s, t, a)
      <3>1. Sits(p, t, a)
        BY <1>4, <1>5, <1>8, <2>1, <2>3, SitsEarlier
      <3>2. QED
        BY <1>7, <1>8, <2>3, <3>1
    <2>4. CASE p = s /\ Sits(s, t, a)
      <3>1. Sits(q, t, a)
        BY <1>4, <1>5, <1>8, <2>1, <2>4, SitsEarlier
      <3>2. QED
        BY <1>7, <1>8, <2>4, <3>1
    <2>5. QED
      BY <1>4, <1>5, <2>1, <2>2, <2>3, <2>4
  <1>11. CASE q = s
    BY <1>3, <1>10, <1>11 DEF TakersSaw, RenewersKnow, CallsCross, Taking, Renewing
  <1>12. CASE q # s
    <2>1. calling'[q] = calling[q] /\ WillName(q)' = WillName(q)
      BY <1>3, <1>12
    <2>2. PICK b : b = calling[q].at
      OBVIOUS
    <2>3. b \in Int /\ (a < b \/ b <= a)
      BY <1>4, <2>2
    <2>4. Sits(p, t, b)' => Sits(p, t, b) \/ (p = s /\ a < b /\ Sits(s, t, a))
      <3>1. b <= a /\ Sits(s, t, a) => Sits(s, t, b)
        BY <1>4, <2>3, SitsEarlier
      <3>2. QED
        BY <1>5, <2>3, <3>1
    <2>5. TakersSaw(q, p, t)'
      <3>1. SUFFICES ASSUME Taking(q, t), Sits(p, t, b)'
                     PROVE  p \in WillName(q) \/ Crossed(q, p, t)
        BY <1>6, <2>1, <2>2 DEF TakersSaw, Taking
      <3>2. CASE Sits(p, t, b)
        BY <1>9, <2>2, <3>1, <3>2 DEF TakersSaw
      <3>3. CASE p = s /\ a < b
        BY <1>1, <1>2, <1>9, <2>2, <3>1, <3>3 DEF CallsCross
      <3>4. QED
        BY <2>4, <3>1, <3>2, <3>3
    <2>6. RenewersKnow(q, p, t)'
      <3>1. SUFFICES ASSUME Renewing(q), Sits(q, t, b)', Sits(p, t, b)'
                     PROVE  Informed(q, p, t)
        BY <1>6, <2>1, <2>2 DEF RenewersKnow, Renewing
      <3>2. Sits(q, t, b)
        BY <1>5, <1>12, <3>1
      <3>3. CASE Sits(p, t, b)
        BY <1>9, <2>2, <3>1, <3>2, <3>3 DEF RenewersKnow
      <3>4. CASE p = s /\ a < b /\ Sits(s, t, a)
        <4>1. Sits(q, t, a)
          BY <1>4, <2>3, <3>2, <3>4, SitsEarlier
        <4>2. QED
          BY <1>7, <1>12, <3>4, <4>1
      <3>5. QED
        BY <2>4, <3>1, <3>3, <3>4
    <2>7. CallsCross(q, p, t)'
      <3>1. CASE p = s
        BY <1>3, <3>1 DEF CallsCross, Taking, Renewing
      <3>2. CASE p # s
        <4>1. calling'[p] = calling[p]
          BY <1>3, <3>2
        <4>2. QED
          BY <1>6, <1>9, <2>1, <4>1 DEF CallsCross, Taking, Renewing
      <3>3. QED
        BY <3>1, <3>2
    <2>8. QED
      BY <1>10, <2>5, <2>6, <2>7
  <1>13. QED
    BY <1>11, <1>12

(* Every step keeps the company of each session known to it. *)
LEMMA NextJInv == IInv /\ IInv' /\ JInv /\ [Next]_vars => JInv'
  <1> SUFFICES ASSUME IInv, IInv', JInv, [Next]_vars PROVE JInv'
    OBVIOUS
  <1>1. /\ calling \in [Session -> Call] /\ released \in [Id -> BOOLEAN]
        /\ Idle.op = "idle" /\ Took.op = "done" /\ Rows \subseteq Id
        /\ now \in Int /\ now <= now
    BY RowsAreIds DEF IInv, CallShape, TypeOK, Idle, Took
  <1>2. ASSUME NEW s \in Session, NEW t \in Table, TakeRead(s, t) PROVE JInv'
    <2>1. PICK there : there = Overlapping(t, now)
      OBVIOUS
    <2>2. PICK own : own = OwnIn(s, there)
      OBVIOUS
    <2>3. PICK c : c = [op |-> "take", at |-> now, table |-> t,
                        own |-> FirstRow(own), others |-> there \ own]
      OBVIOUS
    <2>4. /\ calling' = [calling EXCEPT ![s] = c]
          /\ crossed' = crossed \cup
               {<<t, {s, p}>> : p \in {q \in Session \ {s} : InFlight(q, t)}}
          /\ UNCHANGED <<rows, table, session_id, renewed_at, released, now, warned>>
      <3>1. Begin(s, c)
        BY <1>2, <2>1, <2>2, <2>3 DEF TakeRead
      <3>2. /\ crossed' = crossed \cup
                 {<<t, {s, p}>> : p \in {q \in Session \ {s} : InFlight(q, t)}}
            /\ UNCHANGED <<rows, table, session_id, renewed_at, released, now, warned>>
        BY <1>2 DEF TakeRead
      <3>3. QED
        BY <3>1, <3>2 DEF Begin
    <2>5. /\ calling'[s] = c /\ c.op = "take" /\ c.table = t /\ c.at = now
          /\ c.others = there \ own
          /\ \A q \in Session \ {s} : calling'[q] = calling[q]
      BY <1>1, <2>3, <2>4
    <2>6. Unwritten
      BY <2>4 DEF Unwritten
    <2>7. ASSUME NEW p \in Session \ {s}, NEW u \in Table, Taking(s, u)'
          PROVE  TakersSaw(s, p, u)' /\ (InFlight(p, u) => Crossed(s, p, u)')
      <3>1. u = t
        BY <2>5, <2>7 DEF Taking
      <3>2. InFlight(p, t) => Crossed(s, p, t)'
        BY <2>4 DEF Crossed
      <3>3. ASSUME Sits(p, t, now) PROVE p \in WillName(s)'
        <4>1. PICK i \in Rows : Active(i, now) /\ session_id[i] = p /\ table[i] = t
          BY <3>3 DEF Sits
        <4>2. i \in there /\ i \notin own
          BY <2>1, <2>2, <2>7, <4>1 DEF Overlapping, OwnIn
        <4>3. session_id'[i] = p
          BY <2>4, <4>1
        <4>4. i \in calling'[s].others
          BY <2>5, <4>2
        <4>5. QED
          BY <4>3, <4>4 DEF WillName
      <3>4. Sits(p, t, calling[s].at)' => Sits(p, t, now)
        BY <2>4, <2>5, <2>6, UnwrittenSits
      <3>5. QED
        BY <3>1, <3>2, <3>3, <3>4 DEF TakersSaw
    <2>8. now' = now
      BY <2>4
    <2>9. QED
      BY <1>1, <2>5, <2>6, <2>7, <2>8, UnwrittenJInv
  <1>3. ASSUME NEW s \in Session, RenewRead(s) PROVE JInv'
    <2>1. Unwritten /\ now' = now /\ now <= now'
      BY <1>1, <1>3 DEF RenewRead, Unwritten
    <2>2. /\ calling'[s].op = "renew" /\ calling'[s].at = now
          /\ \A q \in Session \ {s} : calling'[q] = calling[q]
      BY <1>1, <1>3 DEF RenewRead, Begin, Idle
    <2>3. QED
      BY <2>1, <2>2, UnwrittenJInv
  <1>4. ASSUME NEW s \in Session,
               (\E t \in Table : ReleaseRead(s, t)) \/ ReleaseWrite(s) \/ CallStops(s)
        PROVE  JInv'
    <2>1. CASE \E t \in Table : ReleaseRead(s, t)
      <3>1. PICK t \in Table : ReleaseRead(s, t)
        BY <2>1
      <3>2. Unwritten /\ now' = now /\ now <= now'
        BY <1>1, <3>1 DEF ReleaseRead, Unwritten
      <3>3. PICK c : /\ calling' = [calling EXCEPT ![s] = c]
                     /\ c.op = "release"
        <4>1. PICK c : c = [Idle EXCEPT !.op = "release", !.at = now,
                              !.own = FirstRow(OwnIn(s, Overlapping(t, now)))]
          OBVIOUS
        <4>2. calling' = [calling EXCEPT ![s] = c]
          BY <3>1, <4>1 DEF ReleaseRead, Begin
        <4>3. c.op = "release"
          BY <4>1 DEF Idle
        <4>4. QED
          BY <4>2, <4>3
      <3>4. calling'[s].op = "release" /\ \A q \in Session \ {s} : calling'[q] = calling[q]
        BY <1>1, <3>3
      <3>5. QED
        BY <3>2, <3>4, UnwrittenJInv
    <2>2. CASE ReleaseWrite(s)
      <3>1. Unwritten /\ now' = now /\ now <= now'
        BY <1>1, <2>2 DEF ReleaseWrite, Unwritten
      <3>2. calling'[s].op = "done" /\ \A q \in Session \ {s} : calling'[q] = calling[q]
        BY <1>1, <2>2 DEF ReleaseWrite
      <3>3. QED
        BY <3>1, <3>2, UnwrittenJInv
    <2>3. CASE CallStops(s)
      <3>1. Unwritten /\ now' = now /\ now <= now'
        BY <1>1, <2>3 DEF CallStops, Unwritten
      <3>2. calling'[s].op = "idle" /\ \A q \in Session \ {s} : calling'[q] = calling[q]
        BY <1>1, <2>3 DEF CallStops
      <3>3. QED
        BY <3>1, <3>2, UnwrittenJInv
    <2>4. QED
      BY <1>4, <2>1, <2>2, <2>3
  <1>5. ASSUME (\E i \in Id : BreakLease(i)) \/ Clock \/ UNCHANGED vars
        PROVE  JInv'
    <2>1. CASE Session = {}
      BY <2>1 DEF JInv
    <2>2. CASE Session # {}
      <3>1. PICK s \in Session : TRUE
        BY <2>2
      <3>2. Unwritten
        BY <1>1, <1>5 DEF BreakLease, Clock, vars, Unwritten
      <3>3. calling' = calling
        BY <1>5 DEF BreakLease, Clock, vars
      <3>4. now <= now'
        BY <1>1, <1>5 DEF BreakLease, Clock, vars
      <3>5. QED
        BY <3>1, <3>2, <3>3, <3>4, UnwrittenJInv
    <2>3. QED
      BY <2>1, <2>2
  <1>6. QED
    BY <1>2, <1>3, <1>4, <1>5, TakeWriteJInv, RenewWriteJInv
       DEF Next, LeaseTake, LeaseRelease, RenewForSession

(* "The caller can be told, loudly, whose table it is joining" (take): of two
   sessions active on one table one was told of the other, through lapses,
   renewals with old clocks, releases and breaks, unless their calls crossed. *)
THEOREM JoinersAreWarnedHolds == Spec => []JoinersAreWarned
  <1>1. Init => JInv
    BY DEF Init, JInv, SittersKnow, TakersSaw, RenewersKnow, CallsCross, Sits, Taking,
           Renewing, Rows, Idle
  <1>2. Spec => []JInv
    BY <1>1, NextJInv, Invariance, PTL DEF Spec
  <1>3. IInv /\ JInv => JoinersAreWarned
    <2> SUFFICES ASSUME IInv, JInv, NEW i \in Rows, NEW j \in Rows,
                        Active(i, now), Active(j, now), table[j] = table[i],
                        session_id[i] # session_id[j]
                 PROVE  Informed(session_id[i], session_id[j], table[i])
      BY DEF JoinersAreWarned, Informed, Crossed
    <2>1. session_id[i] \in Session /\ session_id[j] \in Session /\ table[i] \in Table
      BY DEF IInv, TypeOK
    <2>2. Sits(session_id[i], table[i], now) /\ Sits(session_id[j], table[i], now)
      BY DEF Sits
    <2>3. QED
      BY <2>1, <2>2 DEF JInv, SittersKnow
  <1>4. QED
    BY <1>2, <1>3, Invariance, PTL

-----------------------------------------------------------------------------
(* The register. *)

RegisterShape ==
  register \in [step : {"shut", "clock", "active"}, at : Time, active : SUBSET Rows]

(* A card that was told as active is not stale by the same clock, now or
   later: it is released, or its renewal only ever went forward. *)
ToldStaysFresh ==
  register.step = "active" =>
    \A i \in register.active : released[i] \/ renewed_at[i] >= register.at - TTL

(* A card the first query passed over and nobody wrote to is still stale. *)
UnseenIsStale ==
  register.step = "active" =>
    \A i \in unseen : /\ i \in Rows /\ ~released[i]
                      /\ renewed_at[i] < register.at - TTL

RInv == RegisterShape /\ ToldStaysFresh /\ UnseenIsStale

-----------------------------------------------------------------------------
(* Reading the register is no step of the room. *)
LEMMA RegisterStepsRoom == [RegisterNext]_allvars => [Next]_vars
  BY DEF RegisterNext, RoomStep, OpenRegister, ReadActive, ReadStale, allvars

(* The room with its register is the room. *)
THEOREM RegisterIsARoom == RegisterSpec => Spec
  <1>1. RegisterInit => Init
    BY DEF RegisterInit
  <1>2. QED
    BY <1>1, RegisterStepsRoom, PTL DEF RegisterSpec, Spec

(* No card's renewal goes back and none is unreleased, though a call writes
   with the clock it read at its start: a session serves one call at a time,
   and only its own calls renew its cards. *)
LEMMA RenewalsGoForward ==
  ASSUME IInv, [Next]_vars, NEW i \in Rows
  PROVE  /\ i \in Rows' /\ renewed_at'[i] >= renewed_at[i]
         /\ released[i] => released'[i]
  <1>1. /\ i \in Id /\ i # rows + 1 /\ rows \in Nat /\ now \in Nat
        /\ renewed_at \in [Id -> 0..now] /\ released \in [Id -> BOOLEAN]
        /\ renewed_at[i] \in Nat /\ renewed_at[i] <= last[session_id[i]]
    BY RowsAreIds, BoundsAssumption DEF IInv, TypeOK, RenewedByCalls, Rows, Id
  <1>2. CASE UNCHANGED <<rows, renewed_at, released>>
    BY <1>1, <1>2 DEF Rows
  <1>3. ASSUME NEW s \in Session, TakeWrite(s)
        PROVE  /\ i \in Rows' /\ renewed_at'[i] >= renewed_at[i] /\ released' = released
    <2> DEFINE c == calling[s]
               id == IF c.own = None THEN rows + 1 ELSE c.own
    <2>1. /\ c.op = "take" /\ rows' = (IF c.own = None THEN id ELSE rows)
          /\ id \in Id /\ renewed_at' = [renewed_at EXCEPT ![id] = c.at]
          /\ released' = released
      BY <1>3 DEF TakeWrite
    <2>2. i \in Rows'
      BY <1>1, <2>1 DEF Rows
    <2>3. i = id => c.at = last[session_id[i]]
      BY <1>1, <2>1 DEF IInv, TakeKnows, CallClock
    <2>4. QED
      BY <1>1, <2>1, <2>2, <2>3
  <1>4. ASSUME NEW s \in Session, RenewWrite(s)
        PROVE  /\ i \in Rows' /\ renewed_at'[i] >= renewed_at[i] /\ released' = released
    <2>1. /\ calling[s].op = "renew" /\ rows' = rows /\ released' = released
          /\ renewed_at'[i] = IF i \in Renewable(s, calling[s].at) THEN calling[s].at
                              ELSE renewed_at[i]
      BY <1>1, <1>4 DEF RenewWrite
    <2>2. i \in Renewable(s, calling[s].at) => calling[s].at = last[session_id[i]]
      BY <2>1 DEF Renewable, IInv, CallClock
    <2>3. QED
      BY <1>1, <2>1, <2>2 DEF Rows
  <1>5. ASSUME NEW s \in Session, ReleaseWrite(s)
        PROVE  UNCHANGED <<rows, renewed_at>> /\ (released[i] => released'[i])
    BY <1>1, <1>5 DEF ReleaseWrite
  <1>6. ASSUME NEW k \in Id, BreakLease(k)
        PROVE  UNCHANGED <<rows, renewed_at>> /\ (released[i] => released'[i])
    BY <1>1, <1>6 DEF BreakLease
  <1>7. ASSUME NEW s \in Session,
               (\E t \in Table : TakeRead(s, t) \/ ReleaseRead(s, t)) \/ RenewRead(s) \/ CallStops(s)
        PROVE  UNCHANGED <<rows, renewed_at, released>>
    BY <1>7 DEF TakeRead, ReleaseRead, RenewRead, CallStops
  <1>8. QED
    BY <1>1, <1>2, <1>3, <1>4, <1>5, <1>6, <1>7
    DEF Next, LeaseTake, LeaseRelease, RenewForSession, Clock, vars, Rows

(* Each step keeps what the register knows. *)
LEMMA NextRInv == IInv /\ RInv /\ [RegisterNext]_allvars => RInv'
  <1> SUFFICES ASSUME IInv, RInv, [RegisterNext]_allvars PROVE RInv'
    OBVIOUS
  <1>1. /\ Rows \subseteq Id /\ \A i \in Rows : renewed_at[i] \in Int
        /\ now \in Time /\ TTL \in Int /\ Time \subseteq Int
    BY RowsAreIds, BoundsAssumption DEF IInv, TypeOK, Time
  <1>2. CASE RoomStep
    <2>1. [Next]_vars /\ register' = register
          /\ unseen' = {i \in unseen : released'[i] = released[i] /\ renewed_at'[i] = renewed_at[i]}
      BY <1>2 DEF RoomStep
    <2>2. \A i \in Rows : /\ i \in Rows' /\ renewed_at'[i] >= renewed_at[i]
                          /\ released[i] => released'[i]
      BY <2>1, RenewalsGoForward
    <2>3. \A i \in Rows : renewed_at'[i] \in Int
      <3>1. IInv'
        BY <2>1, NextIInv
      <3>2. Rows' \subseteq Id /\ renewed_at' \in [Id -> 0..now']
        BY <3>1, BoundsAssumption DEF IInv, TypeOK, Rows, Id
      <3>3. QED
        BY <1>1, <2>2, <3>2
    <2>4. RegisterShape'
      BY <2>1, <2>2 DEF RInv, RegisterShape
    <2>5. ToldStaysFresh'
      <3> SUFFICES ASSUME register.step = "active", NEW i \in register.active, ~released'[i]
                   PROVE  renewed_at'[i] >= register.at - TTL
        BY <2>1 DEF ToldStaysFresh
      <3>1. i \in Rows /\ ~released[i] /\ register.at \in Int
        BY <1>1, <2>2 DEF RInv, RegisterShape
      <3>2. renewed_at[i] >= register.at - TTL /\ renewed_at'[i] >= renewed_at[i]
        BY <2>2, <3>1 DEF RInv, ToldStaysFresh
      <3>3. renewed_at[i] \in Int /\ renewed_at'[i] \in Int
        BY <1>1, <2>3, <3>1
      <3>4. QED
        BY <1>1, <3>1, <3>2, <3>3
    <2>6. UnseenIsStale'
      BY <2>1, <2>2 DEF RInv, UnseenIsStale
    <2>7. QED
      BY <2>4, <2>5, <2>6 DEF RInv
  <1>3. CASE OpenRegister \/ ReadStale
    <2>1. UNCHANGED vars /\ Rows' = Rows
      BY <1>3 DEF OpenRegister, ReadStale, vars, Rows
    <2>2. Shut.step = "shut" /\ Shut \in [step : {"shut", "clock", "active"}, at : Time,
                                           active : SUBSET Rows]
      BY BoundsAssumption DEF Shut, Time
    <2>3. register' = Shut \/ register' = [Shut EXCEPT !.step = "clock", !.at = now]
      BY <1>3 DEF OpenRegister, ReadStale
    <2>4. RegisterShape' /\ register'.step # "active"
      BY <1>1, <2>1, <2>2, <2>3 DEF RegisterShape
    <2>5. QED
      BY <2>4 DEF RInv, ToldStaysFresh, UnseenIsStale
  <1>4. CASE ReadActive
    <2>1. /\ register.step = "clock" /\ UNCHANGED vars /\ Rows' = Rows
          /\ register' = [register EXCEPT !.step = "active",
                            !.active = {i \in Rows : Active(i, register.at)}]
          /\ unseen' = {i \in Rows : ~released[i]} \ register'.active
      BY <1>4 DEF ReadActive, vars, Rows
    <2>2. /\ register'.step = "active" /\ register'.at = register.at /\ register.at \in Time
          /\ register'.active = {i \in Rows : Active(i, register.at)}
      BY <2>1 DEF RInv, RegisterShape
    <2>3. RegisterShape'
      BY <2>1, <2>2 DEF RInv, RegisterShape
    <2>4. ToldStaysFresh'
      BY <2>1, <2>2 DEF ToldStaysFresh, Active, vars
    <2>5. UnseenIsStale'
      BY <1>1, <2>1, <2>2 DEF UnseenIsStale, Active, vars
    <2>6. QED
      BY <2>3, <2>4, <2>5 DEF RInv
  <1>5. CASE UNCHANGED allvars
    BY <1>5 DEF allvars, vars, regVars, RInv, RegisterShape, ToldStaysFresh, UnseenIsStale, Rows
  <1>6. QED
    BY <1>2, <1>3, <1>4, <1>5 DEF RegisterNext

(* "Active cards, then any stale ones, so the room's true state is one glance"
   (leases_cmd): no card is told twice, and none that stood untouched through
   both queries is passed over, whatever clock a renewal in flight carries. *)
THEOREM RegisterTellsHolds == RegisterSpec => []RegisterTellsEachCardOnce
  <1>1. RegisterInit => RInv
    BY BoundsAssumption
    DEF RegisterInit, Shut, RInv, RegisterShape, ToldStaysFresh, UnseenIsStale, Time
  <1>2. RegisterSpec => []IInv
    BY RegisterIsARoom, Invariance, PTL
  <1>3. RegisterSpec => []RInv
    BY <1>1, <1>2, NextRInv, PTL DEF RegisterSpec
  <1>4. IInv /\ RInv => RegisterTellsEachCardOnce
    <2>1. ASSUME IInv, RInv, register.step = "active", NEW i \in register.active,
                 i \in StaleCards
          PROVE  FALSE
      <3>1. i \in Rows /\ ~released[i] /\ renewed_at[i] < register.at - TTL
        BY <2>1 DEF StaleCards, Stale
      <3>2. renewed_at[i] >= register.at - TTL
        BY <2>1, <3>1 DEF RInv, ToldStaysFresh
      <3>3. renewed_at[i] \in Int /\ register.at \in Int /\ TTL \in Int
        BY <2>1, <3>1, RowsAreIds, BoundsAssumption
        DEF IInv, TypeOK, RInv, RegisterShape, Time
      <3>4. QED
        BY <3>1, <3>2, <3>3
    <2>2. RInv /\ register.step = "active" => unseen \subseteq StaleCards
      BY DEF RInv, UnseenIsStale, StaleCards, Stale
    <2>3. QED
      BY <2>1, <2>2 DEF RegisterTellsEachCardOnce
  <1>5. QED
    BY <1>2, <1>3, <1>4, PTL

(* One card per holder, lapses on schedule and joiners told hold while the
   register is read, as they do without it. *)
THEOREM RegisteredRoomHolds ==
  RegisterSpec => [](OneCardPerHolder /\ StaleOnSchedule /\ JoinersAreWarned)
  BY RegisterIsARoom, OneCardPerHolderHolds, StaleOnScheduleHolds,
     JoinersAreWarnedHolds, PTL

-----------------------------------------------------------------------------
(* The retention ladder. *)

Greatest(S) == \E x \in S : \A y \in S : x >= y

(* A finite set of times has a latest. *)
LEMMA GreatestByCount ==
  \A n \in Nat : \A S \in SUBSET Nat :
    IsFiniteSet(S) /\ Cardinality(S) = n /\ S # {} => Greatest(S)
  <1> DEFINE T == {n \in Nat : \A S \in SUBSET Nat :
                     IsFiniteSet(S) /\ Cardinality(S) = n /\ S # {} => Greatest(S)}
  <1>1. 0 \in T
    BY FS_EmptySet
  <1>2. ASSUME NEW n \in Nat, n \in T PROVE n + 1 \in T
    <2>1. ASSUME NEW S \in SUBSET Nat, IsFiniteSet(S), Cardinality(S) = n + 1, S # {}
          PROVE  Greatest(S)
      <3>1. PICK x \in S : TRUE
        BY <2>1
      <3> DEFINE R == S \ {x}
      <3>2. IsFiniteSet(R) /\ Cardinality(R) = n /\ R \in SUBSET Nat
        BY <2>1, <3>1, FS_RemoveElement
      <3>3. CASE R = {}
        <4>1. \A y \in S : y = x
          BY <3>3
        <4>2. QED
          BY <3>1, <4>1 DEF Greatest
      <3>4. CASE R # {}
        <4>1. PICK m \in R : \A y \in R : m >= y
          BY <1>2, <3>2, <3>4 DEF Greatest
        <4>2. \A y \in S : y = x \/ y \in R
          OBVIOUS
        <4>3. x \in Nat /\ m \in Nat /\ m \in S /\ S \subseteq Nat
          BY <2>1
        <4>4. CASE m >= x
          BY <4>1, <4>2, <4>3, <4>4 DEF Greatest
        <4>5. CASE ~(m >= x)
          <5>1. \A y \in S : x >= y
            BY <4>1, <4>2, <4>3, <4>5
          <5>2. QED
            BY <3>1, <5>1 DEF Greatest
        <4>6. QED
          BY <4>4, <4>5
      <3>5. QED
        BY <3>3, <3>4
    <2>2. QED
      BY <2>1
  <1>3. \A n \in Nat : n \in T
    <2> HIDE DEF T
    <2>1. QED
      BY <1>1, <1>2, SetInduction
  <1>4. QED
    BY <1>3

LEMMA HasGreatest ==
  ASSUME NEW S \in SUBSET Nat, IsFiniteSet(S), S # {}
  PROVE  Greatest(S)
  BY GreatestByCount, FS_CardinalityType

(* What is newest, or leads a bucket, stays so when others go: there is less
   that is newer. *)
LEMMA NewerFewer ==
  ASSUME NEW A \in SUBSET Nat, IsFiniteSet(A), NEW S \in SUBSET A, NEW t \in Nat
  PROVE  /\ IsFiniteSet(Newer(A, t)) /\ IsFiniteSet(Newer(S, t))
         /\ Cardinality(Newer(A, t)) \in Nat /\ Cardinality(Newer(S, t)) \in Nat
         /\ Cardinality(Newer(S, t)) <= Cardinality(Newer(A, t))
  <1>1. IsFiniteSet(Newer(A, t)) /\ Newer(S, t) \subseteq Newer(A, t)
    BY FS_Subset DEF Newer
  <1>2. QED
    BY <1>1, FS_Subset, FS_CardinalityType

LEMMA BucketsFewer ==
  ASSUME NEW X, IsFiniteSet(X), NEW w, NEW K \in SUBSET Buckets(X, w)
  PROVE  /\ IsFiniteSet(Buckets(X, w)) /\ IsFiniteSet(K)
         /\ Cardinality(Buckets(X, w)) \in Nat /\ Cardinality(K) \in Nat
         /\ Cardinality(K) <= Cardinality(Buckets(X, w))
  <1> DEFINE f == [u \in X |-> u \div w]
  <1>1. f \in Surjection(X, Buckets(X, w))
    BY DEF Surjection, Buckets
  <1>2. IsFiniteSet(Buckets(X, w))
    BY <1>1, FS_Surjection
  <1>3. QED
    BY <1>2, FS_Subset, FS_CardinalityType

(* A shelf that still has the newest n finds the same newest n. *)
LEMMA NewestOfLess ==
  ASSUME NEW A \in SUBSET Nat, IsFiniteSet(A), NEW S \in SUBSET A, NEW n \in Nat,
         Newest(A, n) \subseteq S
  PROVE  Newest(S, n) = Newest(A, n)
  <1>1. ASSUME NEW t \in Newest(A, n) PROVE t \in Newest(S, n)
    <2>1. t \in S /\ t \in Nat /\ Cardinality(Newer(A, t)) < n
      BY <1>1 DEF Newest
    <2>2. Cardinality(Newer(S, t)) < n
      BY <2>1, NewerFewer
    <2>3. QED
      BY <2>1, <2>2 DEF Newest
  <1>2. ASSUME NEW t \in Newest(S, n) PROVE t \in Newest(A, n)
    <2> DEFINE D == Newer(A, t) \ S
    <2>0. t \in A /\ t \in Nat /\ Cardinality(Newer(S, t)) < n
      BY <1>2 DEF Newest
    <2>1. D = {}
      <3> SUFFICES ASSUME D # {} PROVE FALSE
        OBVIOUS
      <3>1. D \in SUBSET Nat /\ D \subseteq A /\ IsFiniteSet(D)
        BY FS_Subset DEF Newer
      <3>2. PICK u \in D : \A y \in D : u >= y
        BY <3>1, HasGreatest DEF Greatest
      <3>3. Newer(A, u) \subseteq Newer(S, t)
        <4>1. ASSUME NEW y \in A, y > u PROVE y \in S /\ y > t
          <5>1. y \in Nat /\ u \in Nat /\ t \in Nat /\ u > t
            BY <2>0, <3>1, <3>2 DEF Newer
          <5>2. y > t
            BY <4>1, <5>1
          <5>3. y \notin D
            BY <3>2, <4>1, <5>1
          <5>4. QED
            BY <5>2, <5>3 DEF Newer
        <4>2. QED
          BY <4>1 DEF Newer
      <3>4. u \in A /\ u \in Nat
        BY <3>1, <3>2
      <3>5. Cardinality(Newer(A, u)) < n
        <4>1. IsFiniteSet(Newer(S, t)) /\ Cardinality(Newer(S, t)) \in Nat
          BY <2>0, NewerFewer
        <4>2. /\ Cardinality(Newer(A, u)) <= Cardinality(Newer(S, t))
              /\ Cardinality(Newer(A, u)) \in Nat
          BY <3>3, <4>1, FS_Subset, FS_CardinalityType
        <4>3. QED
          BY <2>0, <4>1, <4>2
      <3>6. QED
        BY <3>2, <3>4, <3>5 DEF Newest
    <2>2. Newer(A, t) = Newer(S, t)
      BY <2>1 DEF Newer
    <2>3. QED
      BY <2>0, <2>2 DEF Newest
  <1>3. QED
    BY <1>1, <1>2

(* And so with the leaders of buckets. *)
LEMMA LeadersOfLess ==
  ASSUME NEW A \in SUBSET Nat, IsFiniteSet(A), NEW S \in SUBSET A, NEW b \in Nat,
         NEW w \in Nat \ {0}, Leaders(A, b, w) \subseteq S
  PROVE  Leaders(S, b, w) = Leaders(A, b, w)
  <1>1. ASSUME NEW t \in Leaders(A, b, w) PROVE t \in Leaders(S, b, w)
    <2>1. /\ t \in S /\ t \in Nat /\ Cardinality(Buckets(Newer(A, t), w)) < b
          /\ \A u \in Newer(A, t) : u \div w # t \div w
      BY <1>1 DEF Leaders
    <2>2. Newer(S, t) \subseteq Newer(A, t)
      BY DEF Newer
    <2>3. Cardinality(Buckets(Newer(S, t), w)) < b
      <3>1. Buckets(Newer(S, t), w) \subseteq Buckets(Newer(A, t), w)
        BY <2>2 DEF Buckets
      <3>2. IsFiniteSet(Newer(A, t))
        BY <2>1, NewerFewer
      <3>3. QED
        BY <2>1, <3>1, <3>2, BucketsFewer
    <2>4. QED
      BY <2>1, <2>2, <2>3 DEF Leaders
  <1>2. ASSUME NEW t \in Leaders(S, b, w) PROVE t \in Leaders(A, b, w)
    <2> DEFINE K == Buckets(Newer(S, t), w)
               D == {u \in Newer(A, t) : u \div w \notin K}
    <2>0. /\ t \in A /\ t \in Nat /\ Cardinality(K) < b
          /\ \A u \in Newer(S, t) : u \div w # t \div w
      BY <1>2 DEF Leaders
    <2>1. D = {}
      <3> SUFFICES ASSUME D # {} PROVE FALSE
        OBVIOUS
      <3>1. D \in SUBSET Nat /\ D \subseteq A /\ IsFiniteSet(D)
        BY FS_Subset DEF Newer
      <3>2. PICK u \in D : \A y \in D : u >= y
        BY <3>1, HasGreatest DEF Greatest
      <3>3. u \in A /\ u \in Nat /\ u > t /\ u \div w \notin K
        BY <3>1, <3>2 DEF Newer
      <3>4. ASSUME NEW y \in Newer(A, u) PROVE y \div w \in K
        <4>1. y \in A /\ y \in Nat /\ y > u /\ y > t
          BY <2>0, <3>3 DEF Newer
        <4>2. y \notin D
          <5> HIDE DEF D
          <5>1. QED
            BY <3>2, <3>3, <4>1
        <4>3. QED
          BY <4>1, <4>2 DEF Newer
      <3>5. \A y \in Newer(A, u) : y \div w # u \div w
        BY <3>3, <3>4
      <3>6. Buckets(Newer(A, u), w) \subseteq K
        BY <3>4 DEF Buckets
      <3>7. Cardinality(Buckets(Newer(A, u), w)) < b
        <4>1. IsFiniteSet(Newer(S, t))
          BY <2>0, NewerFewer
        <4>2. /\ Cardinality(Buckets(Newer(A, u), w)) <= Cardinality(K)
              /\ Cardinality(Buckets(Newer(A, u), w)) \in Nat /\ Cardinality(K) \in Nat
          BY <3>6, <4>1, BucketsFewer
        <4>3. QED
          BY <2>0, <4>2
      <3>8. u \in Leaders(A, b, w)
        BY <3>3, <3>5, <3>7 DEF Leaders
      <3>9. u \in Newer(S, t)
        BY <3>3, <3>8 DEF Newer
      <3>10. QED
        BY <3>3, <3>9 DEF Buckets
    <2>2. Buckets(Newer(A, t), w) \subseteq K /\ K \subseteq Buckets(Newer(A, t), w)
      BY <2>1 DEF Newer, Buckets
    <2>3. \A u \in Newer(A, t) : u \div w # t \div w
      BY <2>0, <2>1 DEF Buckets
    <2>4. Buckets(Newer(A, t), w) = K
      BY <2>2
    <2>5. QED
      BY <2>0, <2>3, <2>4 DEF Leaders
  <1>3. QED
    BY <1>1, <1>2

(* What a prune of more would keep of A, a prune of A keeps. *)
LEMMA PruneOfMore ==
  ASSUME NEW A \in SUBSET Nat, NEW B \in SUBSET Nat, IsFiniteSet(A), IsFiniteSet(B)
  PROVE  Prune(A \cup B) \subseteq Prune(A) \cup B
  <1>1. IsFiniteSet(A \cup B) /\ A \cup B \in SUBSET Nat
    BY FS_Union
  <1>2. ASSUME NEW t \in A, NEW n \in Nat, t \in Newest(A \cup B, n) PROVE t \in Newest(A, n)
    <2>1. Cardinality(Newer(A \cup B, t)) < n /\ t \in Nat
      BY <1>2 DEF Newest
    <2>2. Cardinality(Newer(A, t)) < n
      BY <1>1, <2>1, NewerFewer
    <2>3. QED
      BY <2>1, <2>2 DEF Newest
  <1>3. ASSUME NEW t \in A, NEW b \in Nat, NEW w \in Nat, t \in Leaders(A \cup B, b, w)
        PROVE  t \in Leaders(A, b, w)
    <2>1. /\ Cardinality(Buckets(Newer(A \cup B, t), w)) < b /\ t \in Nat
          /\ \A u \in Newer(A, t) : u \div w # t \div w
      BY <1>3 DEF Leaders, Newer
    <2>2. Cardinality(Buckets(Newer(A, t), w)) < b
      <3>1. Buckets(Newer(A, t), w) \subseteq Buckets(Newer(A \cup B, t), w)
        BY DEF Newer, Buckets
      <3>2. IsFiniteSet(Newer(A \cup B, t))
        BY <1>1, <2>1, NewerFewer
      <3>3. /\ Cardinality(Buckets(Newer(A, t), w))
                 <= Cardinality(Buckets(Newer(A \cup B, t), w))
            /\ Cardinality(Buckets(Newer(A, t), w)) \in Nat
            /\ Cardinality(Buckets(Newer(A \cup B, t), w)) \in Nat
        BY <3>1, <3>2, BucketsFewer
      <3>4. QED
        BY <2>1, <3>3
    <2>3. QED
      BY <2>1, <2>2 DEF Leaders
  <1>4. Prune(A \cup B) \subseteq A \cup B
    BY DEF Prune, Newest, Leaders
  <1>5. QED
    BY <1>2, <1>3, <1>4, RetentionAssumption DEF Prune

(* A shelf that has lost no more than a prune would take. *)
LEMMA PruneOfLess ==
  ASSUME NEW A \in SUBSET Nat, IsFiniteSet(A), NEW S \in SUBSET A, Prune(A) \subseteq S
  PROVE  Prune(S) = Prune(A)
  <1>1. /\ Newest(A, Recent) \subseteq S
        /\ Leaders(A, Dailies, Day) \subseteq S /\ Leaders(A, Weeklies, Week) \subseteq S
    BY DEF Prune
  <1>2. /\ {Recent, Dailies, Weeklies} \subseteq Nat /\ Day \in Nat \ {0} /\ Week \in Nat \ {0}
    BY RetentionAssumption
  <1>3. QED
    BY <1>1, <1>2, NewestOfLess, LeadersOfLess DEF Prune

(* backup.rs:91-119.  Pruning is incremental for any policy and any history
   of snapshots. *)
THEOREM PruningIsIncrementalHolds == PruningIsIncremental
  <1> SUFFICES ASSUME NEW H \in SUBSET Times, NEW S \in SUBSET H, Prune(H) \subseteq S
               PROVE  Prune(S) = Prune(H)
    BY DEF PruningIsIncremental
  <1>1. H \in SUBSET Nat /\ IsFiniteSet(H)
    BY RetentionAssumption, FS_Subset
  <1>2. QED
    BY <1>1, PruneOfLess

-----------------------------------------------------------------------------
(* The ladder on a shelf of Home. *)

RungsStand ==
  /\ clock \in Nat /\ taken \in SUBSET Nat /\ IsFiniteSet(taken)
  /\ Prune(taken) \subseteq snapshots /\ snapshots \subseteq taken

LEMMA InitRungs == HomeInit => RungsStand
  <1> SUFFICES ASSUME HomeInit PROVE RungsStand
    OBVIOUS
  <1>1. taken = {} /\ snapshots = {} /\ clock = 1
    BY DEF HomeInit
  <1>2. Prune({}) = {}
    BY DEF Prune, Newest, Leaders
  <1>3. QED
    BY <1>1, <1>2, FS_EmptySet DEF RungsStand

(* A snapshot more is kept by a prune of all, or was. *)
LEMMA PlaceRungs ==
  ASSUME RungsStand, NEW p \in Proc, Place(p)
  PROVE  RungsStand'
  <1>1. CASE p \in temps
    <2>1. /\ snapshots' = snapshots \cup {clock} /\ taken' = taken \cup {clock}
          /\ clock' = clock
      BY <1>1 DEF Place
    <2>2. IsFiniteSet({clock}) /\ {clock} \in SUBSET Nat
      BY FS_Singleton DEF RungsStand
    <2>3. IsFiniteSet(taken \cup {clock})
      BY <2>2, FS_Union DEF RungsStand
    <2>4. Prune(taken \cup {clock}) \subseteq Prune(taken) \cup {clock}
      BY <2>2, PruneOfMore DEF RungsStand
    <2>5. QED
      BY <2>1, <2>2, <2>3, <2>4 DEF RungsStand
  <1>2. CASE p \notin temps
    <2>1. UNCHANGED <<clock, snapshots, taken>>
      BY <1>2 DEF Place, ladder
    <2>2. QED
      BY <2>1 DEF RungsStand
  <1>3. QED
    BY <1>1, <1>2

(* The file that goes is none that the retention keeps of all. *)
LEMMA PruneFileRungs ==
  ASSUME RungsStand, NEW p \in Proc, PruneFile(p)
  PROVE  RungsStand'
  <1> DEFINE D == snapshots \ Prune(snapshots)
  <1>1. /\ Prune(snapshots) # snapshots /\ snapshots' = snapshots \ {Max(D)}
        /\ clock' = clock /\ taken' = taken
    BY DEF PruneFile
  <1>2. Prune(snapshots) = Prune(taken)
    BY PruneOfLess DEF RungsStand
  <1>3. Prune(snapshots) \subseteq snapshots
    BY DEF Prune, Newest, Leaders
  <1>4. D \in SUBSET Nat /\ IsFiniteSet(D) /\ D # {}
    BY <1>1, <1>3, FS_Subset DEF RungsStand
  <1>5. Greatest(D)
    BY <1>4, HasGreatest
  <1>6. Max(D) \in D
    <2> HIDE DEF D
    <2>1. QED
      BY <1>5 DEF Greatest, Max
  <1>7. QED
    BY <1>1, <1>2, <1>6 DEF RungsStand

LEMMA NextRungs == RungsStand /\ [HomeNext]_homeVars => RungsStand'
  <1> SUFFICES ASSUME RungsStand, [HomeNext]_homeVars PROVE RungsStand'
    OBVIOUS
  <1>1. CASE Tick
    <2>1. clock' = clock + 1 /\ snapshots' = snapshots /\ taken' = taken
      BY <1>1 DEF Tick, ladder
    <2>2. QED
      BY <2>1 DEF RungsStand
  <1>2. ASSUME NEW p \in Proc, Place(p) \/ PruneFile(p) PROVE RungsStand'
    BY <1>2, PlaceRungs, PruneFileRungs
  <1>3. CASE UNCHANGED <<clock, snapshots, taken>>
    BY <1>3 DEF RungsStand
  <1>4. ASSUME NEW p \in Proc,
               Start(p) \/ Boot(p) \/ Opened(p) \/ BootFails(p) \/ Skip(p) \/ Copy(p)
                 \/ Maintained(p) \/ Crash(p)
        PROVE  UNCHANGED <<clock, snapshots, taken>>
    BY <1>4 DEF Start, Boot, Opened, BootFails, Skip, Copy, Maintained, Crash, Ended,
                hostVars, backup, ladder
  <1>5. ASSUME NEW s \in Server,
               WriteRecord(s) \/ Register(s) \/ Serve(s) \/ Update(s) \/ Exit(s) \/ Exec(s)
        PROVE  UNCHANGED <<clock, snapshots, taken>>
    BY <1>5 DEF WriteRecord, Register, Serve, Update, Exit, Exec, backup, ladder
  <1>6. ASSUME NEW t \in Tool,
               ReloadCmd(t) \/ ProbeDrop(t) \/ Inspected(t) \/ Surveyed(t) \/ Remove(t)
                 \/ Signal(t) \/ \E s \in Server : ProbeAlive(t, s) \/ ProbeTake(t, s)
        PROVE  UNCHANGED <<clock, snapshots, taken>>
    BY <1>6 DEF ReloadCmd, ProbeDrop, Inspected, Surveyed, Remove, Signal, ProbeAlive,
                ProbeTake, backup, ladder
  <1>7. CASE UNCHANGED homeVars
    BY <1>3, <1>7 DEF homeVars, hostVars, backup, ladder
  <1>8. QED
    BY <1>1, <1>2, <1>3, <1>4, <1>5, <1>6, <1>7 DEF HomeNext

(* backup.rs:84-119, main.rs:834-856.  Under any policy, whatever the processes
   that back up die of and wherever they do, the shelf still has every
   snapshot that the retention keeps of all ever placed. *)
THEOREM LadderHoldsAlways == HomeSpec => []LadderHolds
  <1>1. RungsStand => LadderHolds
    BY PruningIsIncrementalHolds DEF RungsStand, LadderHolds
  <1>2. QED
    BY InitRungs, NextRungs, <1>1, PTL DEF HomeSpec

-----------------------------------------------------------------------------
(* The sweep. *)

Inode == 0 .. MaxInodes

PresenceShape ==
  /\ record \in [Server -> BOOLEAN] /\ lockfile \in [Server -> Inode] /\ inodes \in Inode
  /\ holds \in [Proc -> Inode] /\ overtaken \in [Server -> BOOLEAN]
  /\ stale \in [Tool -> SUBSET Server] /\ late \in [Tool -> SUBSET Server]

(* A record found stale is a dead process's, unless the process registered
   after the finding, or another sweep has had it already. *)
FoundDead ==
  \A t \in Tool : \A s \in stale[t] :
    s \in late[t] \/ holds[s] = 0 \/ overtaken[s]

PresenceInv == PresenceShape /\ FoundDead /\ SweepSparesTheLiving

LEMMA ProcsAre == Server \subseteq Proc /\ Tool \subseteq Proc /\ MaxInodes \in Nat
  BY ProcessAssumption

LEMMA InitPresence == HomeInit => PresenceInv
  BY ProcsAre DEF HomeInit, PresenceInv, PresenceShape, FoundDead, SweepSparesTheLiving, Inode

presence == <<record, lockfile, inodes, holds, overtaken, stale, late>>

LEMMA SamePresence ==
  ASSUME PresenceInv, UNCHANGED presence PROVE PresenceInv'
  BY DEF PresenceInv, PresenceShape, FoundDead, SweepSparesTheLiving, presence

(* A new scan has found nothing yet. *)
LEMMA ScansPresence ==
  ASSUME PresenceInv, NEW t \in Tool, NEW what, Scans(t, what),
         UNCHANGED <<record, lockfile, inodes, holds, overtaken>>
  PROVE  PresenceInv'
  <1>1. stale' = [stale EXCEPT ![t] = {}] /\ late' = [late EXCEPT ![t] = {}]
    BY DEF Scans
  <1>2. PresenceShape'
    BY <1>1 DEF PresenceInv, PresenceShape
  <1>3. FoundDead'
    <2>1. ASSUME NEW q \in Tool, NEW s \in stale'[q]
          PROVE  s \in stale[q] /\ late'[q] = late[q]
      BY <1>1 DEF PresenceInv, PresenceShape
    <2>2. QED
      BY <2>1 DEF PresenceInv, FoundDead
  <1>4. QED
    BY <1>2, <1>3 DEF PresenceInv, SweepSparesTheLiving

(* Whoever lets its lock go, or writes its record, is not swept for it. *)
LEMMA LetGoPresence ==
  ASSUME PresenceInv, NEW p \in Proc,
         holds' = [holds EXCEPT ![p] = 0] \/ UNCHANGED holds,
         inodes' = inodes, overtaken' = overtaken, stale' = stale, late' = late,
         record' \in [Server -> BOOLEAN], lockfile' \in [Server -> Inode],
         \A s \in Server :
           \/ holds'[s] = 0
           \/ lockfile'[s] = lockfile[s] /\ (record[s] => record'[s])
  PROVE  PresenceInv'
  <1>1. PresenceShape'
    BY ProcsAre DEF PresenceInv, PresenceShape, Inode
  <1>2. \A s \in Server : holds'[s] = 0 \/ holds'[s] = holds[s]
    BY ProcsAre DEF PresenceInv, PresenceShape
  <1>3. FoundDead'
    <2>1. \A t \in Tool : stale[t] \subseteq Server
      BY DEF PresenceInv, PresenceShape
    <2>2. QED
      BY <1>2, <2>1 DEF PresenceInv, FoundDead
  <1>4. SweepSparesTheLiving'
    BY <1>2 DEF PresenceInv, SweepSparesTheLiving
  <1>5. QED
    BY <1>1, <1>3, <1>4 DEF PresenceInv

LEMMA RegisterPresence ==
  ASSUME PresenceInv, NEW s \in Server, Register(s)
  PROVE  PresenceInv'
  <1>1. PICK i \in 1 .. MaxInodes :
          /\ OpenLock(s, i)
          /\ holds' = [holds EXCEPT ![s] = IF Locked(i) THEN 0 ELSE i]
    BY DEF Register
  <1>2. /\ overtaken' = [overtaken EXCEPT ![s] = ~record[s]]
        /\ late' = [t \in Tool |-> late[t] \cup ({s} \cap stale[t])]
        /\ record' = record /\ stale' = stale
    BY DEF Register
  <1>3. /\ lockfile'[s] = i /\ lockfile' \in [Server -> Inode] /\ inodes' \in Inode
        /\ \A q \in Server \ {s} : lockfile'[q] = lockfile[q]
    BY <1>1, ProcsAre DEF OpenLock, PresenceInv, PresenceShape, Inode
  <1>4. /\ s \in Proc /\ holds'[s] \in {0, i}
        /\ \A q \in Server \ {s} : holds'[q] = holds[q] /\ overtaken'[q] = overtaken[q]
        /\ overtaken'[s] = ~record[s]
    BY <1>1, <1>2, ProcsAre DEF PresenceInv, PresenceShape
  <1>5. PresenceShape'
    <2>1. late' \in [Tool -> SUBSET Server]
      BY <1>2 DEF PresenceInv, PresenceShape
    <2>2. overtaken' \in [Server -> BOOLEAN]
      BY <1>2 DEF PresenceInv, PresenceShape
    <2>3. holds' \in [Proc -> Inode]
      <3>1. (IF Locked(i) THEN 0 ELSE i) \in Inode
        BY ProcsAre DEF Inode
      <3>2. QED
        BY <1>1, <3>1 DEF PresenceInv, PresenceShape
    <2>4. QED
      BY <1>2, <1>3, <2>1, <2>2, <2>3 DEF PresenceInv, PresenceShape
  <1>6. FoundDead'
    <2>1. ASSUME NEW t \in Tool, NEW q \in stale[t]
          PROVE  q \in late'[t] \/ holds'[q] = 0 \/ overtaken'[q]
      <3>1. q \in Server
        BY DEF PresenceInv, PresenceShape
      <3>2. CASE q = s
        BY <1>2, <3>2
      <3>3. CASE q # s
        BY <1>2, <1>4, <3>1, <3>3 DEF PresenceInv, FoundDead
      <3>4. QED
        BY <3>2, <3>3
    <2>2. QED
      BY <1>2, <2>1 DEF FoundDead
  <1>7. SweepSparesTheLiving'
    <2>1. ASSUME NEW q \in Server, holds'[q] # 0, ~overtaken'[q]
          PROVE  record[q] /\ lockfile'[q] = holds'[q]
      <3>1. CASE q = s
        BY <1>3, <1>4, <2>1, <3>1 DEF PresenceInv, PresenceShape
      <3>2. CASE q # s
        BY <1>3, <1>4, <2>1, <3>2 DEF PresenceInv, SweepSparesTheLiving
      <3>3. QED
        BY <3>1, <3>2
    <2>2. QED
      BY <1>2, <2>1 DEF SweepSparesTheLiving
  <1>8. QED
    BY <1>5, <1>6, <1>7 DEF PresenceInv

(* A lock that is free is no living process's: its lock file is the one it
   holds. *)
LEMMA ProbePresence ==
  ASSUME PresenceInv, NEW t \in Tool, NEW s \in Server, ProbeTake(t, s)
  PROVE  PresenceInv'
  <1>1. PICK i \in 1 .. MaxInodes : OpenLock(s, i) /\ ~Locked(i)
    BY DEF ProbeTake
  <1>2. /\ stale' = [stale EXCEPT ![t] = @ \cup {s}]
        /\ record' = record /\ holds' = holds /\ late' = late /\ overtaken' = overtaken
    BY DEF ProbeTake
  <1>3. holds[s] = 0 \/ overtaken[s]
    <2>1. SUFFICES ASSUME holds[s] # 0, ~overtaken[s] PROVE FALSE
      OBVIOUS
    <2>2. lockfile[s] = holds[s] /\ s \in Proc
      BY <2>1, ProcsAre DEF PresenceInv, SweepSparesTheLiving
    <2>3. i = holds[s]
      BY <1>1, <2>1, <2>2 DEF OpenLock
    <2>4. QED
      BY <1>1, <2>2, <2>3 DEF Locked
  <1>4. /\ lockfile' \in [Server -> Inode] /\ inodes' \in Inode
        /\ \A q \in Server : lockfile'[q] = lockfile[q] \/ (q = s /\ lockfile[s] = 0)
    BY <1>1, ProcsAre DEF OpenLock, PresenceInv, PresenceShape, Inode
  <1>5. PresenceShape'
    BY <1>2, <1>4 DEF PresenceInv, PresenceShape
  <1>6. FoundDead'
    <2>1. ASSUME NEW q \in Tool, NEW x \in stale'[q] PROVE x \in stale[q] \/ x = s
      BY <1>2 DEF PresenceInv, PresenceShape
    <2>2. QED
      BY <1>2, <1>3, <2>1 DEF PresenceInv, FoundDead
  <1>7. SweepSparesTheLiving'
    BY <1>2, <1>3, <1>4 DEF PresenceInv, SweepSparesTheLiving
  <1>8. QED
    BY <1>5, <1>6, <1>7 DEF PresenceInv

(* A sweep takes the record of a process that lives only if it registered
   after it was found dead, and that makes it overtaken. *)
LEMMA RemovePresence ==
  ASSUME PresenceInv, NEW t \in Tool, Remove(t)
  PROVE  PresenceInv'
  <1>0. holds' = holds /\ late' = late
    BY DEF Remove, locks
  <1>1. CASE stale[t] = {}
    <2>1. UNCHANGED presence
      BY <1>0, <1>1 DEF Remove, files, presence
    <2>2. QED
      BY <2>1, SamePresence
  <1>2. CASE stale[t] # {}
    <2>1. PICK s \in stale[t] :
            /\ record' = [record EXCEPT ![s] = FALSE]
            /\ lockfile' = [lockfile EXCEPT ![s] = IF record[s] THEN 0 ELSE @]
            /\ stale' = [stale EXCEPT ![t] = @ \ {s}]
            /\ overtaken' = [overtaken EXCEPT ![s] = @ \/ s \in late[t]]
            /\ inodes' = inodes
      BY <1>2 DEF Remove
    <2>2. s \in Server /\ (s \in late[t] \/ holds[s] = 0 \/ overtaken[s])
      BY <2>1 DEF PresenceInv, PresenceShape, FoundDead
    <2>3. /\ overtaken'[s] = (overtaken[s] \/ s \in late[t])
          /\ \A q \in Server \ {s} :
               /\ overtaken'[q] = overtaken[q] /\ record'[q] = record[q]
               /\ lockfile'[q] = lockfile[q]
      BY <2>1, <2>2 DEF PresenceInv, PresenceShape
    <2>4. PresenceShape'
      BY <1>0, <2>1, <2>2, ProcsAre DEF PresenceInv, PresenceShape, Inode
    <2>5. FoundDead'
      <3>1. ASSUME NEW q \in Tool, NEW x \in stale'[q] PROVE x \in stale[q] /\ x \in Server
        BY <2>1 DEF PresenceInv, PresenceShape
      <3>2. \A x \in Server : overtaken[x] => overtaken'[x]
        BY <2>2, <2>3
      <3>3. QED
        BY <1>0, <3>1, <3>2 DEF PresenceInv, FoundDead
    <2>6. SweepSparesTheLiving'
      <3>1. ASSUME NEW q \in Server, holds[q] # 0, ~overtaken'[q]
            PROVE  q # s
        BY <2>2, <2>3, <3>1
      <3>2. QED
        BY <1>0, <2>3, <3>1 DEF PresenceInv, SweepSparesTheLiving
    <2>7. QED
      BY <2>4, <2>5, <2>6 DEF PresenceInv
  <1>3. QED
    BY <1>1, <1>2

LEMMA ServerPresence ==
  ASSUME PresenceInv, NEW s \in Server,
         WriteRecord(s) \/ Update(s) \/ Exit(s) \/ Exec(s) \/ Serve(s)
  PROVE  PresenceInv'
  <1>0. s \in Proc /\ PresenceShape
    BY ProcsAre DEF PresenceInv
  <1>1. CASE WriteRecord(s) \/ Update(s)
    <2>1. /\ record' = [record EXCEPT ![s] = TRUE]
          /\ UNCHANGED <<lockfile, inodes, holds, overtaken, stale, late>>
      BY <1>1 DEF WriteRecord, Update, locks, scan
    <2>2. record' \in [Server -> BOOLEAN] /\ \A q \in Server : record[q] => record'[q]
      BY <1>0, <2>1 DEF PresenceShape
    <2>3. lockfile' \in [Server -> Inode]
      BY <1>0, <2>1 DEF PresenceShape
    <2>4. QED
      BY <1>0, <2>1, <2>2, <2>3, LetGoPresence
  <1>2. CASE Exit(s)
    <2>1. /\ holds' = [holds EXCEPT ![s] = 0]
          /\ record' = [record EXCEPT ![s] = @ /\ holds[s] = 0]
          /\ lockfile' = [lockfile EXCEPT ![s] = IF holds[s] = 0 THEN @ ELSE 0]
          /\ UNCHANGED <<inodes, overtaken, stale, late>>
      BY <1>2 DEF Exit, scan
    <2>2. record' \in [Server -> BOOLEAN]
      BY <1>0, <2>1 DEF PresenceShape
    <2>3. lockfile' \in [Server -> Inode]
      BY <1>0, <2>1, ProcsAre DEF PresenceShape, Inode
    <2>4. /\ holds'[s] = 0
          /\ \A q \in Server \ {s} : record'[q] = record[q] /\ lockfile'[q] = lockfile[q]
      BY <1>0, <2>1 DEF PresenceShape
    <2>5. QED
      BY <1>0, <2>1, <2>2, <2>3, <2>4, LetGoPresence
  <1>3. CASE Exec(s)
    <2>1. /\ holds' = [holds EXCEPT ![s] = 0]
          /\ UNCHANGED <<record, lockfile, inodes, overtaken, stale, late>>
      BY <1>3 DEF Exec, files, scan
    <2>2. QED
      BY <1>0, <2>1, LetGoPresence DEF PresenceShape
  <1>4. CASE Serve(s)
    BY <1>4, SamePresence DEF Serve, files, locks, scan, presence
  <1>5. QED
    BY <1>1, <1>2, <1>3, <1>4

LEMMA CrashPresence ==
  ASSUME PresenceInv, NEW p \in Proc, Crash(p)
  PROVE  PresenceInv'
  <1>1. /\ holds' = [holds EXCEPT ![p] = 0]
        /\ UNCHANGED <<record, lockfile, inodes, overtaken, stale, late>>
    BY DEF Crash, Ended, files, scan
  <1>2. QED
    BY <1>1, LetGoPresence DEF PresenceInv, PresenceShape

LEMMA SignalPresence ==
  ASSUME PresenceInv, NEW t \in Tool, Signal(t)
  PROVE  PresenceInv'
  <1>1. UNCHANGED <<record, lockfile, inodes, overtaken, stale, late>>
    BY DEF Signal, files
  <1>2. UNCHANGED holds \/ \E s \in live[t] : holds' = [holds EXCEPT ![s] = 0]
    BY DEF Signal, locks
  <1>3. CASE UNCHANGED holds
    BY <1>1, <1>3, SamePresence DEF presence
  <1>4. ASSUME NEW s \in live[t], holds' = [holds EXCEPT ![s] = 0] PROVE PresenceInv'
    <2>1. CASE s \in Proc
      BY <1>1, <1>4, <2>1, LetGoPresence DEF PresenceInv, PresenceShape
    <2>2. CASE s \notin Proc
      <3>1. UNCHANGED holds
        BY <1>4, <2>2 DEF PresenceInv, PresenceShape
      <3>2. QED
        BY <1>1, <3>1, SamePresence DEF presence
    <2>3. QED
      BY <2>1, <2>2
  <1>5. QED
    BY <1>2, <1>3, <1>4

LEMMA ProcPresence ==
  ASSUME PresenceInv, NEW p \in Proc,
         Start(p) \/ Boot(p) \/ Opened(p) \/ BootFails(p) \/ Skip(p) \/ Copy(p) \/ Place(p)
           \/ PruneFile(p) \/ Maintained(p)
  PROVE  PresenceInv'
  <1>1. CASE Start(p) \/ Boot(p) \/ BootFails(p) \/ Copy(p) \/ Place(p) \/ PruneFile(p)
    <2>1. UNCHANGED presence
      BY <1>1 DEF Start, Boot, BootFails, Copy, Place, PruneFile, hostVars, files, locks,
                  scan, presence
    <2>2. QED
      BY <2>1, SamePresence
  <1>2. CASE Opened(p) \/ Skip(p) \/ Maintained(p)
    <2>1. UNCHANGED <<record, lockfile, inodes, holds, overtaken>>
      BY <1>2 DEF Opened, Skip, Maintained, files, locks
    <2>2. \/ UNCHANGED <<stale, late>>
          \/ p \in Tool /\ \E what \in Purpose : Scans(p, what)
      BY <1>2, ProcessAssumption DEF Opened, Skip, Maintained, scan, Purpose
    <2>3. QED
      BY <2>1, <2>2, SamePresence, ScansPresence DEF presence
  <1>3. QED
    BY <1>1, <1>2

LEMMA ToolPresence ==
  ASSUME PresenceInv, NEW t \in Tool,
         \/ ReloadCmd(t) \/ ProbeDrop(t) \/ Inspected(t) \/ Surveyed(t)
         \/ \E s \in Server : ProbeAlive(t, s)
  PROVE  PresenceInv'
  <1>1. CASE ProbeDrop(t) \/ Surveyed(t) \/ \E s \in Server : ProbeAlive(t, s)
    <2>1. UNCHANGED presence
      BY <1>1 DEF ProbeDrop, Surveyed, ProbeAlive, files, locks, scan, presence
    <2>2. QED
      BY <2>1, SamePresence
  <1>2. CASE ReloadCmd(t) \/ Inspected(t)
    <2>1. UNCHANGED <<record, lockfile, inodes, holds, overtaken>>
      BY <1>2 DEF ReloadCmd, Inspected, files, locks
    <2>2. UNCHANGED <<stale, late>> \/ \E what \in Purpose : Scans(t, what)
      BY <1>2 DEF ReloadCmd, Inspected, scan, Purpose
    <2>3. QED
      BY <2>1, <2>2, SamePresence, ScansPresence DEF presence
  <1>3. QED
    BY <1>1, <1>2

LEMMA NextPresence == PresenceInv /\ [HomeNext]_homeVars => PresenceInv'
  <1> SUFFICES ASSUME PresenceInv, [HomeNext]_homeVars PROVE PresenceInv'
    OBVIOUS
  <1>1. CASE Tick \/ UNCHANGED homeVars
    <2>1. UNCHANGED presence
      BY <1>1 DEF Tick, homeVars, hostVars, files, locks, scan, presence
    <2>2. QED
      BY <2>1, SamePresence
  <1>2. QED
    BY <1>1, ProcPresence, CrashPresence, ServerPresence, RegisterPresence, ToolPresence,
       RemovePresence, SignalPresence, ProbePresence DEF HomeNext

(* procs.rs:6-9, doctor.rs:462-470.  Any number of servers, commands and
   sweeps, dying anywhere: a process that holds its Presence keeps its record
   and its lock file, unless it registered after it was found dead. *)
THEOREM SweepSparesTheLivingHolds == HomeSpec => []SweepSparesTheLiving
  <1>1. PresenceInv => SweepSparesTheLiving
    BY DEF PresenceInv
  <1>2. QED
    BY InitPresence, NextPresence, <1>1, PTL DEF HomeSpec

-----------------------------------------------------------------------------
(* The shelf that opens. *)

Where == {"out", "check", "collapse", "restamp", "read", "apply", "stamp", "open", "failed"}

MigrationShape ==
  /\ schema \in 0 .. Latest /\ versions \in SUBSET (1 .. Latest)
  /\ opener \in [Proc -> Where] /\ current \in [Proc -> 0 .. Latest]

(* What is stamped was applied, ... *)
StampedIsApplied == \A v \in versions : v <= schema

(* ... a legacy shelf has the first migration's tables, and an opener at work
   has read, or stamped, no more than is applied. *)
OpenerBehind ==
  /\ legacy => schema >= 1
  /\ \A p \in Proc :
       /\ opener[p] \in {"collapse", "restamp"} => schema >= 1
       /\ opener[p] = "apply" => current[p] < Latest /\ current[p] <= schema
       /\ opener[p] = "stamp" => current[p] < Latest /\ current[p] + 1 <= schema
       /\ opener[p] = "open" => schema = Latest

MigrationInv == MigrationShape /\ StampedIsApplied /\ OpenerBehind


LEMMA LatestIsNumber == Latest \in Nat \ {0}
  BY MigrationAssumption

LEMMA InitMigration == HomeInit => MigrationInv
  <1> SUFFICES ASSUME HomeInit PROVE MigrationInv
    OBVIOUS
  <1>1. /\ opener = [p \in Proc |-> "out"] /\ current = [p \in Proc |-> 0]
        /\ \/ schema \in Found /\ versions = 1 .. schema /\ legacy = FALSE
           \/ schema = 1 /\ versions = {} /\ legacy = TRUE
    BY DEF HomeInit, ShelfInit, LegacyInit
  <1>2. schema \in 0 .. Latest /\ versions \in SUBSET (1 .. Latest)
    <2>1. Found \subseteq 0 .. Latest /\ Latest \in Nat \ {0}
      BY MigrationAssumption
    <2>2. CASE schema \in Found /\ versions = 1 .. schema
      <3>1. schema \in 0 .. Latest
        BY <2>1, <2>2
      <3>2. \A v \in 1 .. schema : v \in 1 .. Latest
        BY <2>1, <3>1
      <3>3. QED
        BY <2>2, <3>1, <3>2
    <2>3. CASE schema = 1 /\ versions = {}
      BY <2>1, <2>3
    <2>4. QED
      BY <1>1, <2>2, <2>3
  <1>3. MigrationShape
    BY <1>1, <1>2, LatestIsNumber DEF MigrationShape, Where
  <1>4. QED
    BY <1>1, <1>2, <1>3 DEF MigrationInv, StampedIsApplied, OpenerBehind

(* A process that goes out, dies, or begins to open. *)
LEMMA MovesMigration ==
  ASSUME MigrationInv, NEW p, NEW where \in {"out", "check", "failed"},
         UNCHANGED opener \/ opener' = [opener EXCEPT ![p] = where],
         UNCHANGED tables
  PROVE  MigrationInv'
  <1>1. opener' \in [Proc -> Where]
    BY DEF MigrationInv, MigrationShape, Where
  <1>2. \A q \in Proc : opener'[q] = opener[q] \/ opener'[q] = where
    BY DEF MigrationInv, MigrationShape
  <1>3. QED
    BY <1>1, <1>2 DEF MigrationInv, MigrationShape, StampedIsApplied, OpenerBehind, tables

LEMMA CollapseMigration ==
  ASSUME MigrationInv, NEW p \in Proc, Check(p) \/ Collapse(p) \/ Restamp(p)
  PROVE  MigrationInv'
  <1>1. PICK where \in {"collapse", "read", "restamp", "failed"} :
          opener' = [opener EXCEPT ![p] = where]
    BY DEF Check, Collapse, Restamp, Goes
  <1>2. opener'[p] = where /\ \A q \in Proc \ {p} : opener'[q] = opener[q]
    BY <1>1 DEF MigrationInv, MigrationShape
  <1>3. schema' = schema /\ current' = current
    BY DEF Check, Collapse, Restamp, tables
  <1>4. opener' \in [Proc -> Where]
    BY <1>1 DEF MigrationInv, MigrationShape, Where
  <1>5. versions' \in SUBSET (1 .. Latest) /\ \A v \in versions' : v \in versions \/ v = 1
    <2>1. versions' \in {versions, {}, versions \cup {1}}
      BY DEF Check, Collapse, Restamp, tables
    <2>2. versions \in SUBSET (1 .. Latest) /\ 1 \in 1 .. Latest
      BY LatestIsNumber DEF MigrationInv, MigrationShape
    <2>3. QED
      BY <2>1, <2>2
  <1>6. CASE Check(p)
    <2>1. legacy' = legacy /\ versions' = versions
      BY <1>6 DEF Check, tables
    <2>2. \/ where = "collapse" /\ schema >= 1
          \/ where = "read"
      BY <1>2, <1>6 DEF Check, Goes, MigrationInv, MigrationShape, OpenerBehind
    <2>3. QED
      BY <1>2, <1>3, <1>4, <2>1, <2>2 DEF MigrationInv, MigrationShape, StampedIsApplied,
                                          OpenerBehind
  <1>7. CASE Collapse(p) \/ Restamp(p)
    <2>1. schema >= 1 /\ (legacy' => legacy)
      BY <1>7 DEF Collapse, Restamp, MigrationInv, OpenerBehind
    <2>2. where \in {"restamp", "read", "failed"}
      BY <1>2, <1>7 DEF Collapse, Restamp, Goes, MigrationInv, MigrationShape
    <2>3. QED
      BY <1>2, <1>3, <1>4, <1>5, <2>1, <2>2 DEF MigrationInv, MigrationShape,
                                                StampedIsApplied, OpenerBehind
  <1>8. QED
    BY <1>6, <1>7

(* The version read is one that is applied. *)
LEMMA VersionIsApplied ==
  ASSUME MigrationInv
  PROVE  Version \in 0 .. Latest /\ Version <= schema
  <1> DEFINE V == versions \cup {0}
  <1>1. V \in SUBSET Nat /\ V # {} /\ V \subseteq 0 .. Latest
    BY LatestIsNumber DEF MigrationInv, MigrationShape
  <1>2. IsFiniteSet(V)
    <2>1. IsFiniteSet(0 .. Latest)
      BY LatestIsNumber, FS_Interval
    <2>2. QED
      BY <1>1, <2>1, FS_Subset
  <1>3. Greatest(V)
    BY <1>1, <1>2, HasGreatest
  <1>4. Version \in V
    BY <1>3 DEF Greatest, Max, Version
  <1>5. QED
    BY <1>1, <1>4 DEF MigrationInv, MigrationShape, StampedIsApplied

LEMMA ReadMigration ==
  ASSUME MigrationInv, NEW p \in Proc, ReadVersion(p)
  PROVE  MigrationInv'
  <1>1. PICK v \in 0 .. Latest :
          /\ v <= schema /\ current' = [current EXCEPT ![p] = v]
          /\ opener' = [opener EXCEPT ![p] = IF v >= Latest THEN "open" ELSE "apply"]
          /\ UNCHANGED <<schema, versions, legacy>>
    BY VersionIsApplied DEF ReadVersion, Goes, Done
  <1>2. /\ current'[p] = v /\ opener'[p] = IF v >= Latest THEN "open" ELSE "apply"
        /\ \A q \in Proc \ {p} : current'[q] = current[q] /\ opener'[q] = opener[q]
    BY <1>1 DEF MigrationInv, MigrationShape
  <1>3. MigrationShape'
    BY <1>1 DEF MigrationInv, MigrationShape, Where
  <1>4. v >= Latest => schema = Latest
    BY <1>1, LatestIsNumber DEF MigrationInv, MigrationShape
  <1>5. OpenerBehind'
    BY <1>1, <1>2, <1>4, LatestIsNumber DEF MigrationInv, MigrationShape, OpenerBehind
  <1>6. QED
    BY <1>1, <1>3, <1>5 DEF MigrationInv, StampedIsApplied

(* A rebuild over tables no newer than its own moves them forward, or leaves
   them, as any other migration does. *)
LEMMA ApplyMigration ==
  ASSUME MigrationInv, NEW p \in Proc, Apply(p), ~regressed'
  PROVE  MigrationInv'
  <1>1. CASE Goes(p, "failed") /\ UNCHANGED tables
    BY <1>1, MovesMigration DEF Goes
  <1>2. CASE /\ schema = current[p] \/ schema = current[p] + 1
             /\ schema' = current[p] + 1
             /\ opener' = [opener EXCEPT ![p] = "stamp"]
             /\ UNCHANGED <<versions, legacy, current>> /\ opener[p] = "apply"
    <2>1. /\ opener'[p] = "stamp"
          /\ \A q \in Proc \ {p} : opener'[q] = opener[q]
      BY <1>2 DEF MigrationInv, MigrationShape
    <2>2. /\ current[p] \in 0 .. Latest /\ current[p] < Latest
          /\ current \in [Proc -> 0 .. Latest] /\ schema \in 0 .. Latest
      BY <1>2 DEF MigrationInv, MigrationShape, OpenerBehind
    <2>3. schema' \in 0 .. Latest /\ schema <= schema'
      BY <1>2, <2>2, LatestIsNumber
    <2>4. MigrationShape'
      BY <1>2, <2>3, LatestIsNumber DEF MigrationInv, MigrationShape, Where
    <2>5. StampedIsApplied'
      BY <1>2, <2>2, <2>3, LatestIsNumber DEF MigrationInv, MigrationShape, StampedIsApplied
    <2>6. OpenerBehind'
      BY <1>2, <2>1, <2>2, <2>3, LatestIsNumber DEF MigrationInv, OpenerBehind
    <2>7. QED
      BY <2>4, <2>5, <2>6 DEF MigrationInv
  <1>3. QED
    <2>1. current[p] \in Nat /\ schema \in Nat
      BY LatestIsNumber DEF MigrationInv, MigrationShape
    <2>2. opener[p] = "apply" /\ UNCHANGED <<versions, legacy, current>>
      BY DEF Apply
    <2>3. \/ /\ schema = current[p] \/ schema = current[p] + 1
             /\ schema' = current[p] + 1 /\ Goes(p, "stamp")
          \/ Goes(p, "failed") /\ UNCHANGED <<schema, regressed>>
      <3> DEFINE v == current[p] + 1
      <3>1. \/ /\ schema >= v - 1
               /\ schema' = v /\ regressed' = (regressed \/ schema > v) /\ Goes(p, "stamp")
            \/ Goes(p, "failed") /\ UNCHANGED <<schema, regressed>>
        BY <2>1 DEF Apply
      <3>2. CASE Goes(p, "failed") /\ UNCHANGED <<schema, regressed>>
        BY <3>2
      <3>3. CASE /\ schema >= v - 1 /\ schema' = v
                 /\ regressed' = (regressed \/ schema > v) /\ Goes(p, "stamp")
        <4>1. ~(schema > v)
          BY <3>3
        <4>2. QED
          BY <2>1, <3>3, <4>1
      <3>4. QED
        BY <3>1, <3>2, <3>3
    <2>4. CASE /\ schema = current[p] \/ schema = current[p] + 1
               /\ schema' = current[p] + 1 /\ Goes(p, "stamp")
      BY <1>2, <2>2, <2>4 DEF Goes
    <2>5. CASE Goes(p, "failed") /\ UNCHANGED <<schema, regressed>>
      BY <1>1, <2>2, <2>5 DEF tables
    <2>6. QED
      BY <2>3, <2>4, <2>5

(* That the tables were taken back is remembered. *)
LEMMA RegressStays ==
  ASSUME NEW p \in Proc, Opening(p), regressed PROVE regressed'
  BY DEF Opening, Enter, Check, Collapse, Restamp, ReadVersion, Apply, Stamp, tables

LEMMA StampMigration ==
  ASSUME MigrationInv, NEW p \in Proc, Stamp(p)
  PROVE  MigrationInv'
  <1> DEFINE v == current[p] + 1
  <1>1. /\ current[p] \in Nat /\ current[p] < Latest /\ v \in 1 .. Latest /\ v <= schema
        /\ schema \in 0 .. Latest
    BY LatestIsNumber DEF Stamp, MigrationInv, MigrationShape, OpenerBehind
  <1>2. CASE v \in versions
    <2>1. Goes(p, "failed") /\ UNCHANGED tables
      BY <1>2 DEF Stamp, tables
    <2>2. QED
      BY <2>1, MovesMigration DEF Goes
  <1>3. CASE v \notin versions
    <2> HIDE DEF v
    <2>1. /\ versions' = versions \cup {v} /\ current' = [current EXCEPT ![p] = v]
          /\ opener' = [opener EXCEPT ![p] = IF v >= Latest THEN "open" ELSE "apply"]
          /\ UNCHANGED <<schema, legacy>>
      BY <1>3 DEF Stamp, Goes, Done, v
    <2>2. /\ current'[p] = v /\ opener'[p] = IF v >= Latest THEN "open" ELSE "apply"
          /\ \A q \in Proc \ {p} : current'[q] = current[q] /\ opener'[q] = opener[q]
      BY <2>1 DEF MigrationInv, MigrationShape
    <2>3. MigrationShape'
      BY <1>1, <2>1, LatestIsNumber DEF MigrationInv, MigrationShape, Where
    <2>4. v >= Latest => schema = Latest
      BY <1>1, LatestIsNumber
    <2>5. StampedIsApplied'
      BY <1>1, <2>1 DEF MigrationInv, StampedIsApplied
    <2>6. OpenerBehind'
      BY <1>1, <2>1, <2>2, <2>4, LatestIsNumber DEF MigrationInv, OpenerBehind
    <2>7. QED
      BY <2>3, <2>5, <2>6 DEF MigrationInv
  <1>4. QED
    BY <1>2, <1>3

(* Every other step of a process leaves the tables alone. *)
LEMMA AroundMigration ==
  ASSUME NEW p \in Proc,
         \/ Start(p) \/ Opened(p) \/ BootFails(p) \/ Skip(p) \/ Copy(p) \/ Place(p)
         \/ PruneFile(p) \/ Maintained(p) \/ Crash(p)
         \/ p \in Server /\ \/ WriteRecord(p) \/ Register(p) \/ Serve(p) \/ Update(p)
                            \/ Exit(p) \/ Exec(p)
         \/ p \in Tool /\ \/ ReloadCmd(p) \/ ProbeDrop(p) \/ Inspected(p) \/ Surveyed(p)
                          \/ Remove(p) \/ Signal(p)
                          \/ \E s \in Server : ProbeAlive(p, s) \/ ProbeTake(p, s)
  PROVE  /\ UNCHANGED tables
         /\ \/ UNCHANGED opener
            \/ \E q : Goes(q, "out") \/ Goes(q, "check")
  <1>1. CASE \/ Opened(p) \/ Skip(p) \/ Copy(p) \/ PruneFile(p) \/ Maintained(p)
             \/ WriteRecord(p) \/ Register(p) \/ Serve(p) \/ Update(p)
             \/ ReloadCmd(p) \/ ProbeDrop(p)
             \/ \E s \in Server : ProbeAlive(p, s) \/ ProbeTake(p, s)
    BY <1>1 DEF Opened, Skip, Copy, PruneFile, Maintained, WriteRecord, Register, Serve, Update,
                ReloadCmd, ProbeDrop, ProbeAlive, ProbeTake, shelfVars, tables
  <1>2. CASE Start(p) \/ BootFails(p) \/ Place(p) \/ Crash(p)
    BY <1>2 DEF Start, BootFails, Place, Crash, Ended, Enter, Leave, tables
  <1>3. CASE Exit(p) \/ Exec(p)
    BY <1>3 DEF Exit, Exec, tables
  <1>4. CASE Inspected(p) \/ Surveyed(p) \/ Remove(p)
    BY <1>4 DEF Inspected, Surveyed, Remove, tables
  <1>5. CASE Signal(p)
    BY <1>5 DEF Signal, shelfVars, tables
  <1>6. QED
    BY <1>1, <1>2, <1>3, <1>4, <1>5

(* While the tables were never taken back, ... *)
ForwardInv == regressed \/ MigrationInv

LEMMA NextMigration == ForwardInv /\ [HomeNext]_homeVars => ForwardInv'
  <1> SUFFICES ASSUME ForwardInv, [HomeNext]_homeVars PROVE ForwardInv'
    OBVIOUS
  <1>1. CASE UNCHANGED tables /\ (UNCHANGED opener \/ \E q : Goes(q, "out") \/ Goes(q, "check"))
    BY <1>1, MovesMigration DEF ForwardInv, Goes, tables
  <1>2. CASE Tick \/ UNCHANGED homeVars
    BY <1>1, <1>2 DEF Tick, homeVars, shelfVars
  <1>3. ASSUME NEW p \in Proc, Boot(p) PROVE ForwardInv'
    <2>1. CASE Enter(p)
      BY <1>1, <2>1 DEF Enter
    <2>2. CASE regressed \/ regressed'
      BY <1>3, <2>2, RegressStays DEF Boot, ForwardInv
    <2>3. CASE ~regressed /\ ~regressed' /\ ~Enter(p)
      <3>1. MigrationInv /\ Opening(p)
        BY <1>3, <2>3 DEF ForwardInv, Boot
      <3>2. QED
        BY <2>3, <3>1, CollapseMigration, ReadMigration, ApplyMigration, StampMigration
           DEF Opening, ForwardInv
    <2>4. QED
      BY <2>1, <2>2, <2>3
  <1>4. CASE HomeNext /\ ~Tick /\ ~(\E p \in Proc : Boot(p))
    BY <1>1, <1>4, AroundMigration, ProcsAre DEF HomeNext
  <1>5. QED
    BY <1>2, <1>3, <1>4

(* store/lib.rs:148-173.  Any number of processes, dying anywhere, open one
   shelf, whichever migrations rebuild tables: who got it open works on the
   newest tables, until an opener that slept through two migrations of others
   takes the tables back. *)
THEOREM OpenedIsCurrentHolds == HomeSpec => []OpenedIsCurrent
  <1>1. HomeInit => ForwardInv
    BY InitMigration DEF ForwardInv
  <1>2. ForwardInv => OpenedIsCurrent
    BY DEF ForwardInv, MigrationInv, OpenerBehind, OpenedIsCurrent
  <1>3. QED
    BY <1>1, <1>2, NextMigration, PTL DEF HomeSpec
=============================================================================
