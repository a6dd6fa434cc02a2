------------------------------- MODULE Docket -------------------------------
(***************************************************************************)
(* The docket (crates/kumbarium-docket): the table `tasks`, one row per    *)
(* version of a matter, shared by every `kum` process.  Variables are      *)
(* columns; ids are taken in insertion order.  Severity, goal, wording and *)
(* shelf are what an edit changes and no rule reads: left out.             *)
(*                                                                         *)
(* supersede_task runs inside BEGIN IMMEDIATE, file_task, approve and      *)
(* reject are one statement: each is one step.  set_state follows the      *)
(* chain, checks the head and then updates it with no transaction around   *)
(* the three: a read step and a write step, others in between.             *)
(***************************************************************************)
EXTENDS Integers, FiniteSets

CONSTANTS
  MaxRows,      \* bound: how many task rows are ever written
  Agent,        \* writers: MCP sessions by their agent, and the CLI
  Quarantined,  \* those whose filings the approvals policy makes pending
  Judge,        \* processes that may be inside set_state at once
  None          \* SQL NULL, and "no row"

ASSUME MaxRowsAssumption == MaxRows \in Nat
ASSUME QuarantinedAssumption == Quarantined \subseteq Agent
ASSUME NoneAssumption == None \notin Int /\ None \notin Agent

Id == 1..MaxRows

Status == {"absent", "live", "pending", "rejected"}
TaskState == {"open", "done", "dropped"}

VARIABLES
  rows,           \* how many rows the table holds: ids 1..rows
  agent_id,       \* columns of tasks
  state,
  status,
  superseded_by,
  judging,        \* the head each judge has checked and not yet updated
  matter,         \* history: the first version of the matter a row states
  approved        \* history: the rows the desk approved

vars == <<rows, agent_id, state, status, superseded_by, judging, matter, approved>>

Rows == 1..rows

IsHead(i) == i \in Rows /\ superseded_by[i] = None

(* h is met on the walk from i along superseded_by: it is in every set of
   rows that holds i and, with a row, its successor. *)
Closed(S) == \A j \in S : superseded_by[j] \in S \cup {None}
Reaches(i, h) == \A S \in SUBSET Rows : i \in S /\ Closed(S) => h \in S

(* head_of: the row with no successor the walk from i ends at. *)
IsHeadOf(i, h) == i \in Rows /\ IsHead(h) /\ Reaches(i, h)

Init ==
  /\ rows = 0
  /\ agent_id = [i \in Id |-> None]
  /\ state = [i \in Id |-> "open"]
  /\ status = [i \in Id |-> "absent"]
  /\ superseded_by = [i \in Id |-> None]
  /\ judging = [j \in Judge |-> None]
  /\ matter = [i \in Id |-> None]
  /\ approved = {}

-----------------------------------------------------------------------------
TaskWriteStatus(a) == IF a \in Quarantined THEN "pending" ELSE "live"

Insert(a, st, about) ==
  LET id == rows + 1
  IN  /\ rows < MaxRows
      /\ rows' = id
      /\ agent_id' = [agent_id EXCEPT ![id] = a]
      /\ status' = [status EXCEPT ![id] = st]
      /\ matter' = [matter EXCEPT ![id] = about]

(* The task_file tool, `kum task`. *)
FileTask(a) ==
  /\ Insert(a, TaskWriteStatus(a), rows + 1)
  /\ UNCHANGED <<state, superseded_by, judging, approved>>

(* A pending head stays pending, whoever edits it. *)
RegradeStatus(a, head) == status[head]

Editable(head) == state[head] = "open"

(* supersede_task: any id of the chain is forwarded to the head, and a new
   open version takes its place. *)
SupersedeTask(a, id) ==
  \E head \in Rows :
    /\ IsHeadOf(id, head)
    /\ Editable(head)
    /\ Insert(a, RegradeStatus(a, head), matter[head])
    /\ superseded_by' = [superseded_by EXCEPT ![head] = rows + 1]
    /\ UNCHANGED <<state, judging, approved>>

(* The task_update tool with severity, goal or content; `kum task grade`,
   `kum task reword`, `kum move` on a task. *)
TaskEdit(a, id) == SupersedeTask(a, id)

(* set_state, first half: the chain is followed, the head is checked. *)
JudgeRead(j, id) ==
  /\ judging[j] = None
  /\ \E head \in Rows :
       /\ IsHeadOf(id, head)
       /\ state[head] = "open"
       /\ judging' = [judging EXCEPT ![j] = head]
  /\ UNCHANGED <<rows, agent_id, state, status, superseded_by, matter, approved>>

(* set_state, second half: UPDATE ... WHERE id = ?, nothing rechecked. *)
JudgeWrite(j) ==
  /\ judging[j] # None
  /\ \E to \in {"done", "dropped"} : state' = [state EXCEPT ![judging[j]] = to]
  /\ judging' = [judging EXCEPT ![j] = None]
  /\ UNCHANGED <<rows, agent_id, status, superseded_by, matter, approved>>

JudgeDies(j) ==
  /\ judging[j] # None
  /\ judging' = [judging EXCEPT ![j] = None]
  /\ UNCHANGED <<rows, agent_id, state, status, superseded_by, matter, approved>>

(* The task_update tool with a state; `kum task done`, `kum task drop`. *)
TaskJudge(j) == (\E id \in Id : JudgeRead(j, id)) \/ JudgeWrite(j) \/ JudgeDies(j)

(* Mutant of SetStatus: the desk may judge a row again. *)
SetStatusUnguarded(id, to) ==
  /\ id \in Rows
  /\ status' = [status EXCEPT ![id] = to]
  /\ UNCHANGED <<rows, agent_id, state, superseded_by, judging, matter>>

(* UPDATE ... WHERE id = ? AND status = 'pending'; ids are not forwarded. *)
SetStatus(id, to) ==
  /\ id \in Rows
  /\ status[id] = "pending"
  /\ status' = [status EXCEPT ![id] = to]
  /\ UNCHANGED <<rows, agent_id, state, superseded_by, judging, matter>>

(* `kum approve` / `kum reject` once the id resolves to a task. *)
DeskJudges(id) ==
  \/ SetStatus(id, "live") /\ approved' = approved \cup {id}
  \/ SetStatus(id, "rejected") /\ UNCHANGED approved

Next ==
  \/ \E a \in Agent : FileTask(a) \/ \E id \in Id : TaskEdit(a, id)
  \/ \E j \in Judge : TaskJudge(j)
  \/ \E id \in Id : DeskJudges(id)

Spec == Init /\ [][Next]_vars

-----------------------------------------------------------------------------
(* tasks_in: state = 'open' AND status = 'live' AND superseded_by IS NULL. *)
Listed(i) == IsHead(i) /\ state[i] = "open" /\ status[i] = "live"

(* Columns hold what their declarations allow, rows above the count are
   empty, and a pointer leads to a row the table holds (the foreign key). *)
TypeOK ==
  /\ rows \in 0..MaxRows
  /\ agent_id \in [Id -> Agent \cup {None}]
  /\ state \in [Id -> TaskState]
  /\ status \in [Id -> Status]
  /\ superseded_by \in [Id -> Id \cup {None}]
  /\ judging \in [Judge -> Id \cup {None}]
  /\ matter \in [Id -> Id \cup {None}]
  /\ approved \subseteq Id
  /\ \A i \in Id : i \in Rows <=> status[i] # "absent"
  /\ \A i \in Id \ Rows : superseded_by[i] = None /\ state[i] = "open"
  /\ \A i \in Rows : superseded_by[i] \in Rows \cup {None} /\ matter[i] \in Rows

(* "the matter is its head" (D-051): however many writers regrade the same
   stale id at once, a matter has one head, so it is listed once and every
   id of it leads there. *)
OneHead ==
  \A i, h \in Rows : IsHead(h) /\ matter[i] = matter[h] => IsHeadOf(i, h)

(* An edit, by anyone, of a matter an untrusted agent filed never puts it on
   the docket: some version of it was approved at the desk first. *)
FiledUnjudgedNeverListed ==
  \A i \in Rows :
    Listed(i) /\ agent_id[matter[i]] \in Quarantined =>
      \E k \in approved : matter[k] = matter[i]

(* A matter judged done or dropped while it was the head stays off the
   docket: no edit or late judgment opens it again. *)
ClosedStaysClosed ==
  [][\A i \in Rows : IsHead(i) /\ state[i] # "open" =>
       superseded_by'[i] = None /\ state'[i] # "open"]_vars

(* Each matter as the docket's readers see it, from its head. *)
HeadOfMatter(m) == CHOOSE h \in Rows : matter[h] = m /\ IsHead(h)

LifecycleOf(m) ==
  LET h == HeadOfMatter(m)
  IN  IF ~\E i \in Rows : matter[i] = m THEN "unfiled"
      ELSE IF state[h] # "open" THEN "closed"
      ELSE CASE status[h] = "live" -> "owed"
             [] status[h] = "pending" -> "waiting"
             [] OTHER -> "declined"

Board == INSTANCE Matters WITH
  Matter <- Id,
  lifecycle <- [m \in Id |-> LifecycleOf(m)]

(* Rows, versions and races add up to matters that are filed once, approved
   once, closed once: the abstract docket. *)
ImplementsMatters == Board!Spec
=============================================================================
