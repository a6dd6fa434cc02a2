----------------------------- MODULE Collection -----------------------------
(***************************************************************************)
(* The memory shelf (crates/kumbarium-store): the tables `entries` and     *)
(* `entry_links`, shared by every `kum` process.  Variables are columns,   *)
(* functions from row ids; ids are taken in insertion order.  Namespaces,  *)
(* kinds, tags, confidence and confirmation stamps are left out: no rule   *)
(* below reads them.                                                       *)
(*                                                                         *)
(* One store call is one step (a BEGIN IMMEDIATE transaction, or a single  *)
(* UPDATE whose preceding SELECT the statement's own effect makes          *)
(* harmless).  A tool call that stores oversized content is NOT one step:  *)
(* store_split makes one store call per part and one per edge, other       *)
(* processes run in between, and the process can die there.                *)
(***************************************************************************)
EXTENDS Integers, FiniteSets, Sequences

CONSTANTS
  MaxRows,        \* bound: how many entries are ever written
  MaxHandLinks,   \* bound: how many edges the link verbs may add to the table
  NewParts,       \* bound: parts a fresh write may split into
  RevisionParts,  \* bound: parts a superseding write may split into
  Session,        \* processes that write: MCP sessions and the CLI
  Quarantined,    \* those whose writes the approvals policy makes pending
  None            \* SQL NULL, and "no row"

ASSUME BoundsAssumption == MaxRows \in Nat /\ MaxHandLinks \in Nat
ASSUME PartsAssumption == NewParts \cup RevisionParts \subseteq Nat \ {0}
ASSUME QuarantinedAssumption == Quarantined \subseteq Session
ASSUME NoneAssumption == None \notin Int /\ None \notin Session

Id == 1..MaxRows

Status == {"absent", "live", "pending", "rejected", "forgotten"}

\* The relations the link verbs draw by hand here.
HandRel == {"relates_to"}
Rel == HandRel \cup {"continues"}

VARIABLES
  rows,           \* how many entries were ever inserted: ids 1..rows
  agent_id,       \* columns of entries; "forgotten" marks a deleted row
  status,
  superseded_by,
  retired,
  links,          \* entry_links: <<from, to, rel>>
  writing,        \* the store_split each session is inside of
  fact,           \* history: the first version of the fact a row states
  approved        \* history: the rows the desk approved

vars ==
  <<rows, agent_id, status, superseded_by, retired, links, writing, fact,
    approved>>

Exists(i) == i \in 1..rows /\ status[i] # "forgotten"

Entries == {i \in Id : Exists(i)}

(* A session between tool calls, and one inside store_split: the parts
   stored so far, how many are left, and whether the last one still lacks
   its edge to the one before. *)
Idle == [ids |-> <<>>, left |-> 0, loose |-> FALSE]

Init ==
  /\ rows = 0
  /\ agent_id = [i \in Id |-> None]
  /\ status = [i \in Id |-> "absent"]
  /\ superseded_by = [i \in Id |-> None]
  /\ retired = [i \in Id |-> FALSE]
  /\ links = {}
  /\ writing = [s \in Session |-> Idle]
  /\ fact = [i \in Id |-> None]
  /\ approved = {}

-----------------------------------------------------------------------------
(* What the policy makes of a write. *)
WriteStatus(s) == IF s \in Quarantined THEN "pending" ELSE "live"

InsertEntry(s, st, about) ==
  LET id == rows + 1
  IN  /\ rows < MaxRows
      /\ rows' = id
      /\ agent_id' = [agent_id EXCEPT ![id] = s]
      /\ status' = [status EXCEPT ![id] = st]
      /\ fact' = [fact EXCEPT ![id] = about]

(* store_split after its first part of n. *)
FirstPart(s, n) ==
  writing' = [writing EXCEPT ![s] =
                IF n = 1 THEN Idle
                ELSE [ids |-> <<rows + 1>>, left |-> n - 1, loose |-> FALSE]]

(* The remember tool: a fresh entry, the first part when oversized. *)
Remember(s, n) ==
  /\ writing[s] = Idle
  /\ InsertEntry(s, WriteStatus(s), rows + 1)
  /\ FirstPart(s, n)
  /\ UNCHANGED <<superseded_by, retired, links, approved>>

(* Mutant of RevisionStatus: the revision takes the old row's status. *)
RevisionStatusOfOld(s, old) == status[old]

(* Mutant of RevisionStatus: the revision takes its writer's status. *)
RevisionStatusOfWriter(s, old) == WriteStatus(s)

(* Revising a quarantined fact keeps the chain head pending. *)
RevisionStatus(s, old) ==
  IF status[old] = "pending" THEN "pending" ELSE WriteStatus(s)

Supersedable(old) == Exists(old) /\ superseded_by[old] = None

(* The replacement takes the old version's place in the link graph. *)
MoveEdges(old, new) ==
  {<<IF e[1] = old THEN new ELSE e[1],
     IF e[2] = old THEN new ELSE e[2], e[3]>> : e \in links}

(* Mutant of Supersede: the old version is never marked superseded. *)
SupersedeBeside(s, old, n) ==
  /\ writing[s] = Idle
  /\ Supersedable(old)
  /\ InsertEntry(s, RevisionStatus(s, old), fact[old])
  /\ links' = MoveEdges(old, rows + 1)
  /\ FirstPart(s, n)
  /\ UNCHANGED <<superseded_by, retired, approved>>

(* store::supersede inside the supersede tool, `kum revert` or `kum move`:
   the first part replaces `old`, later parts are stored as fresh ones. *)
Supersede(s, old, n) ==
  /\ writing[s] = Idle
  /\ Supersedable(old)
  /\ InsertEntry(s, RevisionStatus(s, old), fact[old])
  /\ links' = MoveEdges(old, rows + 1)
  /\ superseded_by' = [superseded_by EXCEPT ![old] = rows + 1]
  /\ FirstPart(s, n)
  /\ UNCHANGED <<retired, approved>>

(* store_split's next part: a plain remember with the writer's status. *)
StorePart(s) ==
  LET w == writing[s]
  IN  /\ w.left > 0
      /\ ~w.loose
      /\ InsertEntry(s, WriteStatus(s), rows + 1)
      /\ writing' = [writing EXCEPT ![s] =
           [ids |-> Append(w.ids, rows + 1), left |-> w.left - 1, loose |-> TRUE]]
      /\ UNCHANGED <<superseded_by, retired, links, approved>>

(* links.rs link: both ends must exist, an edge already there is kept. *)
Linkable(from, to) == from # to /\ Exists(from) /\ Exists(to)

(* store_split's edge from the part just stored to the one before it, by
   the ids it remembers. *)
LinkPart(s) ==
  LET w == writing[s]
      n == Len(w.ids)
  IN  /\ w.loose
      /\ Linkable(w.ids[n], w.ids[n - 1])
      /\ links' = links \cup {<<w.ids[n], w.ids[n - 1], "continues">>}
      /\ writing' = [writing EXCEPT ![s] =
           IF w.left = 0 THEN Idle ELSE [w EXCEPT !.loose = FALSE]]
      /\ UNCHANGED <<rows, agent_id, status, superseded_by, retired, fact,
                     approved>>

(* A store call fails (an end of the edge was forgotten, the disk is full)
   or the process dies: what was stored stays stored. *)
SplitStops(s) ==
  /\ writing[s] # Idle
  /\ writing' = [writing EXCEPT ![s] = Idle]
  /\ UNCHANGED <<rows, agent_id, status, superseded_by, retired, links, fact,
                 approved>>

StoreSplit(s) == StorePart(s) \/ LinkPart(s) \/ SplitStops(s)

(* The link tool, remember's `links` argument, `kum link`. *)
Link(from, to, rel) ==
  /\ Linkable(from, to)
  /\ Cardinality({e \in links : e[3] \in HandRel}) < MaxHandLinks
  /\ links' = links \cup {<<from, to, rel>>}
  /\ UNCHANGED <<rows, agent_id, status, superseded_by, retired, writing, fact,
                 approved>>

(* UPDATE ... WHERE id = ? AND status = 'pending'. *)
SetStatus(id, to) ==
  /\ Exists(id)
  /\ status[id] = "pending"
  /\ status' = [status EXCEPT ![id] = to]
  /\ UNCHANGED <<rows, agent_id, superseded_by, retired, links, writing, fact>>

(* `kum approve` / `kum reject` on an entry. *)
Judge(id) ==
  \/ SetStatus(id, "live") /\ approved' = approved \cup {id}
  \/ SetStatus(id, "rejected") /\ UNCHANGED approved

(* `kum retire` / `kum unretire`: the check before the UPDATE sees a value
   the UPDATE would change; run late, the UPDATE repeats what is there. *)
Retire(id) ==
  /\ Exists(id)
  /\ retired' = [retired EXCEPT ![id] = ~retired[id]]
  /\ UNCHANGED <<rows, agent_id, status, superseded_by, links, writing, fact,
                 approved>>

(* `kum forget`: the row goes, what pointed at it is unlinked. *)
Forget(id) ==
  /\ Exists(id)
  /\ superseded_by' = [i \in Id |-> IF superseded_by[i] = id THEN None
                                    ELSE superseded_by[i]]
  /\ links' = {e \in links : e[1] # id /\ e[2] # id}
  /\ status' = [status EXCEPT ![id] = "forgotten"]
  /\ UNCHANGED <<rows, agent_id, retired, writing, fact, approved>>

Next ==
  \/ \E s \in Session :
       \/ \E n \in NewParts : Remember(s, n)
       \/ \E n \in RevisionParts, old \in Id : Supersede(s, old, n)
       \/ StoreSplit(s)
  \/ \E id \in Id : Judge(id) \/ Retire(id) \/ Forget(id)
  \/ \E from, to \in Id, rel \in HandRel : Link(from, to, rel)

Spec == Init /\ [][Next]_vars

-----------------------------------------------------------------------------
(* What the surfaces read. *)

(* recall, list and grep: superseded_by IS NULL AND retired_at IS NULL AND
   status = 'live'. *)
Circulates(i) ==
  Exists(i) /\ superseded_by[i] = None /\ ~retired[i] /\ status[i] = "live"

(* predecessor_of: one row whose superseded_by is i, or None. *)
PredecessorOf(i) ==
  LET S == {j \in Entries : superseded_by[j] = i}
  IN  IF S = {} THEN None ELSE CHOOSE j \in S : \A k \in S : j <= k

(* version_history: back through predecessor_of, then forward through
   superseded_by; oldest first. *)
VersionHistory(i) ==
  LET Back[n \in 0..MaxRows] ==
        IF n = 0 THEN <<i>>
        ELSE LET h == Back[n-1] IN
             IF PredecessorOf(h[1]) = None THEN h ELSE <<PredecessorOf(h[1])>> \o h
      Forth[n \in 0..MaxRows] ==
        IF n = 0 THEN Back[MaxRows]
        ELSE LET h == Forth[n-1] IN
             IF superseded_by[h[Len(h)]] = None THEN h
             ELSE Append(h, superseded_by[h[Len(h)]])
  IN  Forth[MaxRows]

(* The edges continues_chain looks for on each side of a part. *)
EarlierParts(i) == {j \in Entries : <<i, j, "continues">> \in links}
LaterParts(i) == {j \in Entries : <<j, i, "continues">> \in links}

-----------------------------------------------------------------------------
(* Columns hold what their declarations allow, edges join rows the table
   holds (the foreign keys of entry_links), and a session remembers only
   parts it has stored. *)
TypeOK ==
  /\ rows \in 0..MaxRows
  /\ agent_id \in [Id -> Session \cup {None}]
  /\ status \in [Id -> Status]
  /\ superseded_by \in [Id -> Id \cup {None}]
  /\ retired \in [Id -> BOOLEAN]
  /\ links \subseteq Entries \X Entries \X Rel
  /\ fact \in [Id -> Id \cup {None}]
  /\ approved \subseteq Id
  /\ \A s \in Session :
       /\ writing[s].ids \in Seq(1..rows)
       /\ writing[s].left \in Nat
       /\ writing[s].loose \in BOOLEAN
  /\ \A i \in Id : i \in 1..rows <=> status[i] # "absent"
  /\ \A i \in Entries : superseded_by[i] \in Entries \cup {None}

(* "untrusted writers' facts land pending, invisible to every recall, until a
   human judges them" (README.md:98): by whatever mix of splits, revisions,
   retirements and deletions, a row a quarantined session wrote is served
   only after the desk approved that very row. *)
UnjudgedStaysOut ==
  \A i \in Id : Circulates(i) /\ agent_id[i] \in Quarantined => i \in approved

(* Sessions revising one fact at once never leave two versions of it in
   circulation ("two live heads for one fact is the contradiction disease",
   D-028); only deleting a version out of the middle of a chain can. *)
Whole(f) == \A i \in 1..rows : fact[i] = f => Exists(i)

OneVersionServed ==
  \A i, j \in Id :
    Circulates(i) /\ Circulates(j) /\ fact[i] = fact[j] /\ Whole(fact[i]) => i = j

(* No revision is lost: from whichever version the reader enters a fact none
   of whose versions was forgotten, version_history numbers all of them, each
   once and oldest first, and each but the last is superseded by the next. *)
HistoryReadsBack ==
  \A i \in Entries : Whole(fact[i]) =>
    LET h == VersionHistory(i) IN
    /\ {h[k] : k \in DOMAIN h} = {j \in Entries : fact[j] = fact[i]}
    /\ \A k \in 1..(Len(h) - 1) : h[k] < h[k + 1] /\ superseded_by[h[k]] = h[k + 1]

(* Two people at the desk judge a row once: what was approved is not later
   rejected, what was rejected never returns. *)
JudgedOnce ==
  [][\A i \in Id : status[i] \in {"live", "rejected"} =>
       status'[i] \in {status[i], "forgotten"}]_vars
=============================================================================
