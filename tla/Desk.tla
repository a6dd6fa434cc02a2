-------------------------------- MODULE Desk --------------------------------
(***************************************************************************)
(* The desk over the docket: the verbs of `kum` that file, edit, judge and *)
(* show matters (crates/kumbarium/src/cli/docket.rs, cli/desk.rs), and the *)
(* rotation matter that `kum secret set --expires` keeps on the docket     *)
(* (cli/secret.rs).  The rows and what a write does to them are Docket's.  *)
(*                                                                         *)
(* A verb is a process of its own.  What is left out: goals, severities    *)
(* and wording (edits that no search reads), the order and the layout of   *)
(* what is shown.  One secret, its matter's shelf and one other shelf; the *)
(* shelf is kept for rotation matters only, as only sync's search reads it.*)
(***************************************************************************)
EXTENDS Docket, Sequences

CONSTANT Cli     \* the name the CLI writes rows and events under

ASSUME CliAssumption == Cli \in Agent \ Quarantined

VARIABLES
  tied,        \* first versions filed with the source secret:<ns>/<name>
  away,        \* rows of tied matters that are on the other shelf
  watching,    \* what each sync found on the docket and has not yet acted on
  relocated,   \* history: a rotation matter was moved off its shelf
  overlapped   \* history: two syncs of the secret were under way at once

deskvars == <<tied, away, watching, relocated, overlapped>>
allvars == <<vars, deskvars>>

Tied(i) == matter[i] \in tied

Idle == [busy |-> FALSE, found |-> None]

DeskInit ==
  /\ Init
  /\ tied = {} /\ away = {}
  /\ watching = [j \in Judge |-> Idle]
  /\ relocated = FALSE /\ overlapped = FALSE

-----------------------------------------------------------------------------
(* What the verbs that only read show. *)

(* `kum tasks`, without --all. *)
Timeline == {i \in Rows : Listed(i)}

(* The task_list tool of a session at the secret's shelf, `kum tasks <ns>`. *)
TaskList == {i \in Timeline : i \notin away}

(* `kum roadmap`: the open matters, shelf by shelf. *)
Roadmap == {TaskList, Timeline \ TaskList}

(* Mutant of Inbox: every pending row, the superseded ones too. *)
InboxOfRows == {i \in Rows : status[i] = "pending"}

(* `kum inbox`, the docket's part. *)
Inbox == {i \in Rows : status[i] = "pending" /\ IsHead(i)}

(* `kum review <id>`: an id that is not pending is refused.  The row is not
   asked to be a head. *)
Reviewable(i) == i \in Rows /\ status[i] = "pending"

(* The row before i, or None: the query takes one of those that point at i. *)
Before(i) == IF \E p \in Rows : superseded_by[p] = i
             THEN CHOOSE p \in Rows : superseded_by[p] = i
             ELSE None

(* Mutant of History: the walk starts at the id given and never goes back. *)
HistoryForward(i) ==
  LET Fore[j \in Rows] ==
        IF superseded_by[j] = None THEN <<j>> ELSE <<j>> \o Fore[superseded_by[j]]
  IN  Fore[i]

(* `kum task history <id>`: back to the first version, then on to the head. *)
History(i) ==
  LET Back[j \in Rows] == IF Before(j) = None THEN <<>>
                          ELSE Back[Before(j)] \o <<Before(j)>>
      Fore[j \in Rows] == IF superseded_by[j] = None THEN <<j>>
                          ELSE <<j>> \o Fore[superseded_by[j]]
  IN  Back[i] \o Fore[i]

(* The goal chains a janitor pass reads creep off. *)
GoalChains == {History(i) : i \in Timeline}

-----------------------------------------------------------------------------
(* `kum task`, and the task_file tool of a session. *)
TaskFileCmd(a) == FileTask(a) /\ UNCHANGED deskvars

(* A version of a rotation matter stands where the one before it stood. *)
StaysPut(id) ==
  \E head \in Rows :
    /\ IsHeadOf(id, head)
    /\ away' = away \cup {r \in {rows + 1} : head \in away}

(* `kum task grade <id>`. *)
TaskGradeCmd(a, id) ==
  /\ TaskEdit(a, id) /\ StaysPut(id)
  /\ UNCHANGED <<tied, watching, relocated, overlapped>>

(* `kum task reword <id>`: to the docket the same edit. *)
TaskRewordCmd(a, id) == TaskGradeCmd(a, id)

(* `kum move <id> <shelf>`: whether it is there already is asked of the row
   the id names; what moves is the head. *)
MoveTaskCmd(id, off) ==
  /\ id \in Rows
  /\ Tied(id)
  /\ (id \in away) # off
  /\ SupersedeTask(Cli, id)
  /\ away' = IF off THEN away \cup {rows + 1} ELSE away
  /\ relocated' = TRUE
  /\ UNCHANGED <<tied, watching, overlapped>>

(* `kum task done`, `kum task drop`. *)
TaskJudgeCmd(j) ==
  /\ ~watching[j].busy
  /\ TaskJudge(j)
  /\ UNCHANGED deskvars

(* `kum approve`, `kum reject` on a task. *)
JudgeTask(id) == DeskJudges(id) /\ UNCHANGED deskvars

(* The rotation matter sync finds: open, live, head, on the secret's shelf,
   with the secret's source. *)
RotationMatters == {i \in TaskList : Tied(i)}

(* Mutant of OpenRotationMatter: the source is looked up under another
   spelling than the one it was filed with. *)
OpenRotationMatterBlind(i) == i = None

(* open_rotation_matter: one of them, or None. *)
OpenRotationMatter(i) ==
  IF RotationMatters = {} THEN i = None ELSE i \in RotationMatters

(* `kum secret set --expires`, the value sealed: the docket is searched. *)
SyncRead(j) ==
  /\ ~watching[j].busy /\ judging[j] = None
  /\ \E i \in Rows \cup {None} :
       /\ OpenRotationMatter(i)
       /\ watching' = [watching EXCEPT ![j] = [busy |-> TRUE, found |-> i]]
  /\ overlapped' = (overlapped \/ \E k \in Judge \ {j} : watching[k].busy)
  /\ UNCHANGED <<vars, tied, away, relocated>>

(* None stands: one is filed.  One stands with another goal: it is regraded,
   which fails when it was judged since.  With the same goal: nothing. *)
SyncRotationMatter(j) ==
  LET i == watching[j].found IN
  /\ watching[j].busy
  /\ \/ /\ i = None
        /\ FileTask(Cli)
        /\ tied' = tied \cup {rows + 1}
        /\ UNCHANGED away
     \/ /\ i # None
        /\ SupersedeTask(Cli, i) /\ StaysPut(i)
        /\ UNCHANGED tied
     \/ /\ i # None
        /\ UNCHANGED <<vars, tied, away>>
  /\ watching' = [watching EXCEPT ![j] = Idle]
  /\ UNCHANGED <<relocated, overlapped>>

DeskNext ==
  \/ \E a \in Agent : TaskFileCmd(a) \/ \E id \in Id : TaskGradeCmd(a, id)
  \/ \E id \in Id, off \in BOOLEAN : MoveTaskCmd(id, off)
  \/ \E j \in Judge : TaskJudgeCmd(j) \/ SyncRead(j) \/ SyncRotationMatter(j)
  \/ \E id \in Id : JudgeTask(id)

DeskSpec == DeskInit /\ [][DeskNext]_allvars

-----------------------------------------------------------------------------
(* Wherever the reader enters a matter, at a version the opening frame once
   gave out or at its head, `kum task history` shows all of it, each version
   once and in the order they were written. *)
HistoryIsWhole ==
  \A i \in Rows :
    LET h == History(i) IN
    /\ {h[n] : n \in DOMAIN h} = {k \in Rows : matter[k] = matter[i]}
    /\ \A n \in 1..(Len(h) - 1) : h[n] < h[n + 1]

(* A matter that is still open has one place: the timeline, or the inbox
   (where the desk can review it), or, declined, neither; never two entries
   and never both. *)
OpenMattersHaveOnePlace ==
  \A m \in {matter[i] : i \in Rows} :
    LET open  == {i \in Rows : matter[i] = m /\ IsHead(i) /\ state[i] = "open"}
        shown == {i \in (UNION Roadmap) \cup Inbox : matter[i] = m}
    IN  /\ Cardinality(shown) <= 1
        /\ Timeline \cap Inbox = {}
        /\ \A i \in open : status[i] # "rejected" => i \in shown
        /\ \A i \in shown \cap Inbox : Reviewable(i)

(* "Exactly one open rotation matter per secret" (D-038), however often the
   expiry moves and the matter is edited or judged in between, provided that
   no two syncs of the secret overlapped and that nobody moved the matter off
   the secret's shelf: the search and the filing are not one transaction, and
   the search looks on one shelf only. *)
OneRotationMatter ==
  ~relocated /\ ~overlapped => Cardinality(RotationMatters) <= 1
=============================================================================
