------------------------------ MODULE Follower ------------------------------
(***************************************************************************)
(* `kum audit follow` (cli/admin.rs, export.rs) beside the processes that  *)
(* append to the ledger: a backlog, then every event as it lands.  The     *)
(* backlog is chosen by timestamp, the stream by rowid, the order in which *)
(* rows land, whatever their ids; the backlog and the stream's cursor are  *)
(* two reads.                                                              *)
(***************************************************************************)
EXTENDS Witness

CONSTANT N        \* how many events the backlog shows

ASSUME NAssumption == N \in Nat

VARIABLES
  rowid,      \* SQLite's rowid of each row, 0 where there is none
  at,         \* events.at
  follower,   \* "off", "backlog" (shown, cursor not seeded) or "streaming"
  cursor,     \* the highest rowid streamed
  shown,      \* ids printed
  reprinted,  \* history: an id was printed twice
  missed      \* history: ids too old for the backlog, or landed after it and
              \*   before the cursor was seeded

allvars == <<vars, rowid, at, follower, cursor, shown, reprinted, missed>>
following == <<follower, cursor, shown, reprinted>>

FollowInit ==
  /\ Init
  /\ rowid = [id \in Id |-> IF id \in Rows THEN 1 + Cardinality(Before(id)) ELSE 0]
  /\ at = [id \in Id |-> 0]
  /\ follower = "off"
  /\ cursor = 0
  /\ shown = {}
  /\ reprinted = FALSE
  /\ missed = {}

-----------------------------------------------------------------------------
(* ORDER BY at DESC, id DESC. *)
Newer(i, j) == at[i] > at[j] \/ (at[i] = at[j] /\ i > j)

(* tail: LIMIT N. *)
Newest == {i \in Rows : Cardinality({j \in Rows : Newer(j, i)}) < N}

(* audit_follow: the backlog. *)
ShowBacklog ==
  /\ follower = "off"
  /\ follower' = "backlog"
  /\ shown' = Newest
  /\ missed' = Rows \ Newest
  /\ UNCHANGED <<vars, rowid, at, cursor, reprinted>>

(* max_rowid: COALESCE(MAX(rowid), 0). *)
MaxRowid == Cardinality(Rows)

SeedCursor ==
  /\ follower = "backlog"
  /\ follower' = "streaming"
  /\ cursor' = MaxRowid
  /\ UNCHANGED <<vars, rowid, at, shown, reprinted, missed>>

(* Mutant of EventsAfter: the stream goes by id, as the chain does. *)
EventsAfterById(cur) ==
  {i \in Rows : rowid[i] > cur /\ \A j \in Rows : rowid[j] <= cur => j < i}

(* events_after: WHERE rowid > ?. *)
EventsAfter(cur) == {i \in Rows : rowid[i] > cur}

(* One poll: a fresh snapshot, and the cursor moved past each row printed.  A
   poll that fails changes nothing. *)
Poll ==
  LET new == EventsAfter(cursor)
  IN  /\ follower = "streaming"
      /\ new # {}
      /\ shown' = shown \cup new
      /\ reprinted' = (reprinted \/ new \cap shown # {})
      /\ cursor' \in {rowid[i] : i \in new} /\ \A i \in new : rowid[i] <= cursor'
      /\ UNCHANGED <<vars, rowid, at, follower, missed>>

(* Ctrl-C. *)
StopFollowing ==
  /\ follower # "off"
  /\ follower' = "off"
  /\ cursor' = 0
  /\ shown' = {}
  /\ reprinted' = FALSE
  /\ missed' = {}
  /\ UNCHANGED <<vars, rowid, at>>

(* A step of the ledger's processes: a row it adds lands after all others. *)
LedgerStep ==
  /\ Next
  /\ IF Rows' = Rows
     THEN UNCHANGED <<rowid, at, missed>>
     ELSE \E id \in Rows' \ Rows :
            /\ rowid' = [rowid EXCEPT ![id] = MaxRowid + 1]
            /\ at' = [at EXCEPT ![id] = now]
            /\ missed' = IF follower = "backlog" THEN missed \cup {id} ELSE missed
  /\ UNCHANGED following

FollowNext ==
  LedgerStep \/ ShowBacklog \/ SeedCursor \/ Poll \/ StopFollowing

FollowSpec == FollowInit /\ [][FollowNext]_allvars

-----------------------------------------------------------------------------
(* "Seed the cursor at the current head so the backlog is not reprinted", and
   "stream witnessed events as they land" (audit_follow): however late a row's
   id or timestamp makes it look, what landed once streaming began is printed
   once the cursor is past it, and nothing is printed twice. *)
FollowTellsEachEventOnce ==
  follower = "streaming" =>
    /\ ~reprinted
    /\ {i \in Rows : rowid[i] <= cursor} \subseteq shown \cup missed
=============================================================================
