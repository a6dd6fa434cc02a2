------------------------------ MODULE Handoff -------------------------------
(***************************************************************************)
(* The handoff shelf (crates/kumbarium-handoff): the table `handoffs` of   *)
(* one SQLite file, shared by every `kum` process.  A variable below is a  *)
(* column, a function from row ids to values; ids are taken in insertion   *)
(* order, as the UUIDv7 ids and the rowids are.                            *)
(*                                                                         *)
(* write_handoff and approve run inside BEGIN IMMEDIATE, reject is one     *)
(* UPDATE: each is one step.  drop_standing is a SELECT and an UPDATE with *)
(* no transaction around them: two steps of the `kum handoff drop`         *)
(* process, which can also die between them.                               *)
(***************************************************************************)
EXTENDS Integers, FiniteSets

CONSTANTS
  MaxRows,      \* bound: how many briefings are ever written
  Namespace,    \* registered namespaces
  Agent,        \* agents writing through handoff_write
  Cli,          \* the author every `kum handoff` write is recorded under
  Quarantined,  \* the agents whose writes the approvals policy makes pending
  Human,        \* concurrent `kum handoff drop` processes
  None          \* SQL NULL, and "no row"

Author == Agent \cup {Cli}

ASSUME MaxRowsAssumption == MaxRows \in Nat
ASSUME QuarantinedAssumption == Quarantined \subseteq Agent
ASSUME NoneAssumption == None \notin Int /\ None \notin Namespace \cup Author

Id == 1..MaxRows

VARIABLES
  rows,           \* how many rows the table holds: their ids are 1..rows
  namespace,      \* columns of the table
  agent_id,
  status,
  superseded_by,
  dropping        \* what each drop process has read and not yet written

handoffvars == <<rows, namespace, agent_id, status, superseded_by, dropping>>

Status == {"absent", "live", "pending", "rejected", "dropped"}

(* The table as seen by the queries. *)
Rows == 1..rows

(* status = 'live' AND superseded_by IS NULL on one namespace. *)
IsHead(i, ns, st) ==
  /\ i \in Rows
  /\ namespace[i] = ns
  /\ status[i] = st
  /\ superseded_by[i] = None

Heads(ns) == {i \in Rows : IsHead(i, ns, "live")}

PendingHeads(ns, agent) ==
  {i \in Rows : IsHead(i, ns, "pending") /\ agent_id[i] = agent}

(* query_row: the first row the query yields, or None. *)
FirstRow(S) == IF S = {} THEN None ELSE CHOOSE i \in S : \A j \in S : i <= j

HandoffInit ==
  /\ rows = 0
  /\ namespace = [i \in Id |-> None]
  /\ agent_id = [i \in Id |-> None]
  /\ status = [i \in Id |-> "absent"]
  /\ superseded_by = [i \in Id |-> None]
  /\ dropping = [p \in Human |-> None]

-----------------------------------------------------------------------------
(* What the policy makes of a write: the writer never chooses. *)
TaskWriteStatus(agent) == IF agent \in Quarantined THEN "pending" ELSE "live"

(* The head a write of this status supersedes. *)
Prior(ns, agent, st) ==
  FirstRow(IF st = "live" THEN Heads(ns) ELSE PendingHeads(ns, agent))

Supersede(old, new) ==
  superseded_by' = IF old = None
                   THEN superseded_by
                   ELSE [superseded_by EXCEPT ![old] = new]

WriteHandoff(ns, agent, st) ==
  LET id == rows + 1
  IN  /\ rows < MaxRows
      /\ rows' = id
      /\ namespace' = [namespace EXCEPT ![id] = ns]
      /\ agent_id' = [agent_id EXCEPT ![id] = agent]
      /\ status' = [status EXCEPT ![id] = st]
      /\ Supersede(Prior(ns, agent, st), id)
      /\ UNCHANGED dropping

HandoffWrite(ns, agent) == WriteHandoff(ns, agent, TaskWriteStatus(agent))

(* `kum handoff <ns> <note>`: the human's own writes are live. *)
HandoffCmd(ns) == WriteHandoff(ns, Cli, "live")

(* Mutant of Approvable: a dropped briefing can be approved back. *)
ApprovableDropped(id) ==
  status[id] \in {"pending", "dropped"} /\ superseded_by[id] = None

Approvable(id) == status[id] = "pending" /\ superseded_by[id] = None

(* The desk promotes a pending head over whatever stands. *)
Approve(id) ==
  /\ id \in Rows
  /\ Approvable(id)
  /\ Supersede(FirstRow(Heads(namespace[id])), id)
  /\ status' = [status EXCEPT ![id] = "live"]
  /\ UNCHANGED <<rows, namespace, agent_id, dropping>>

(* UPDATE ... WHERE id = ? AND status = 'pending'. *)
Reject(id) ==
  /\ id \in Rows
  /\ status[id] = "pending"
  /\ status' = [status EXCEPT ![id] = "rejected"]
  /\ UNCHANGED <<rows, namespace, agent_id, superseded_by, dropping>>

(* `kum approve` / `kum reject` once the id resolves to a briefing. *)
JudgeHandoff(id) == Approve(id) \/ Reject(id)

(* drop_standing, first half: `standing` is read. *)
DropRead(p, ns) ==
  /\ dropping[p] = None
  /\ Heads(ns) # {}
  /\ dropping' = [dropping EXCEPT ![p] = FirstRow(Heads(ns))]
  /\ UNCHANGED <<rows, namespace, agent_id, status, superseded_by>>

(* Mutant of DropWrite: the UPDATE names the namespace's head, not the row. *)
DropWriteWhoeverStands(p) ==
  /\ dropping[p] # None
  /\ status' = [i \in Id |-> IF i \in Heads(namespace[dropping[p]])
                             THEN "dropped" ELSE status[i]]
  /\ dropping' = [dropping EXCEPT ![p] = None]
  /\ UNCHANGED <<rows, namespace, agent_id, superseded_by>>

(* drop_standing, second half: UPDATE ... SET status = 'dropped' WHERE id = ?,
   with nothing left of the conditions the SELECT checked. *)
DropWrite(p) ==
  /\ dropping[p] # None
  /\ status' = [status EXCEPT ![dropping[p]] = "dropped"]
  /\ dropping' = [dropping EXCEPT ![p] = None]
  /\ UNCHANGED <<rows, namespace, agent_id, superseded_by>>

(* The process dies, or the UPDATE fails, between the halves. *)
DropDies(p) ==
  /\ dropping[p] # None
  /\ dropping' = [dropping EXCEPT ![p] = None]
  /\ UNCHANGED <<rows, namespace, agent_id, status, superseded_by>>

(* `kum handoff drop <ns>`. *)
HandoffDropCmd(p) ==
  \/ \E ns \in Namespace : DropRead(p, ns)
  \/ DropWrite(p)
  \/ DropDies(p)

HandoffNext ==
  \/ \E ns \in Namespace :
       \/ \E agent \in Agent : HandoffWrite(ns, agent)
       \/ HandoffCmd(ns)
  \/ \E id \in Id : JudgeHandoff(id)
  \/ \E p \in Human : HandoffDropCmd(p)

HandoffSpec == HandoffInit /\ [][HandoffNext]_handoffvars

-----------------------------------------------------------------------------
(* Every column holds what its declaration allows, and rows above the
   count are empty (handoffs, CREATE TABLE). *)
HandoffTypeOK ==
  /\ rows \in 0..MaxRows
  /\ namespace \in [Id -> Namespace \cup {None}]
  /\ agent_id \in [Id -> Author \cup {None}]
  /\ status \in [Id -> Status]
  /\ superseded_by \in [Id -> Id \cup {None}]
  /\ dropping \in [Human -> Id \cup {None}]
  /\ \A i \in Id : i \in Rows <=> status[i] # "absent"
  /\ \A i \in Id \ Rows : superseded_by[i] = None
  /\ \A i \in Rows : namespace[i] \in Namespace /\ agent_id[i] \in Author

(* One standing briefing per namespace, whatever writers, the desk and
   drops do to each other ("one live head per namespace by construction"):
   `standing` reads one row without ordering, so a second live head would
   make what sessions are served arbitrary. *)
OneLiveHead ==
  \A ns \in Namespace : \A i, j \in Heads(ns) : i = j

(* A writer's revision of an unjudged briefing replaces it at the desk: the
   queue never holds two open versions by one writer for one namespace. *)
OnePendingHead ==
  \A ns \in Namespace, agent \in Author :
    \A i, j \in PendingHeads(ns, agent) : i = j

(* A briefing that was in circulation is only ever displaced by one that was
   in circulation too: an unjudged write, or one the desk declined, never
   hides a live briefing ("supersedes nothing live"). *)
Circulated(i) == status[i] \in {"live", "dropped"}

QuarantineNeverDisplaces ==
  \A i \in Rows :
    Circulated(i) /\ superseded_by[i] # None => Circulated(superseded_by[i])

(* A drop clears only the note its own process read as standing: a briefing
   left between the SELECT and the UPDATE is not swept away with it. *)
DropSparesNewBriefings ==
  [][\A ns \in Namespace :
       Heads(ns) # {} /\ Heads(ns)' = {} =>
         \E p \in Human : dropping[p] \in Heads(ns)]_handoffvars

(* The shelf as its readers see it: what `standing` returns per namespace,
   and which rows have ever stood. *)
Standing == [ns \in Namespace |-> FirstRow(Heads(ns))]
Posted == {i \in Id : Circulated(i)}

Board == INSTANCE Bulletin WITH
  Note <- Id,
  NoNote <- None,
  standing <- Standing,
  posted <- Posted

(* Every step of the table is one note going up over another, one coming
   down, or nothing a reader could see; no note ever returns. *)
ImplementsBulletin == Board!Spec
=============================================================================
