---------------------------- MODULE DocketProofs ----------------------------
(***************************************************************************)
(* Proofs about the docket and the desk over it, for any number of rows,   *)
(* writers, judgments and verbs under way: the type invariant, one head    *)
(* per matter, no unjudged filing on the docket, no closed matter coming   *)
(* back, that the table implements the life of a matter its readers were   *)
(* promised; and, under the desk's verbs, all of that, one place for each  *)
(* open matter, and one rotation matter for a secret.                      *)
(***************************************************************************)
EXTENDS Desk, Walks, FiniteSetTheorems, TLAPS

(* A judgment in flight holds a row the table has, and so does the desk's
   record: neither can name a row that is yet to be written. *)
HeldRows == (\A j \in Judge : judging[j] # None => judging[j] \in Rows) /\ approved \subseteq Rows

(* Every matter can be judged: one of its versions has no successor. *)
SomeHead == \A i \in Rows : \E h \in Rows : IsHead(h) /\ matter[h] = matter[i]

(* Once any version of an untrusted filing is live, the desk approved one:
   what FiledUnjudgedNeverListed says of heads, said of every version,
   because the next version copies its predecessor's status. *)
LiveOnlyApproved ==
  \A i \in Rows :
    status[i] = "live" /\ agent_id[matter[i]] \in Quarantined =>
      \E k \in approved : matter[k] = matter[i]

IInv == TypeOK /\ HeldRows /\ OneHead /\ SomeHead /\ LiveOnlyApproved

-----------------------------------------------------------------------------
(* NULL is not a row id. *)
LEMMA NoneIsNoId == None \notin Id
  BY NoneAssumption DEF Id

(* The rows are ids, and the next row is an id the table does not hold. *)
LEMMA RowsAreIds ==
  ASSUME TypeOK
  PROVE  /\ Rows \subseteq Id /\ rows + 1 \notin Rows
         /\ rows < MaxRows => rows + 1 \in Id /\ 1..(rows + 1) = Rows \cup {rows + 1}
  BY MaxRowsAssumption DEF TypeOK, Rows, Id

(* A row with no successor is where every walk from it ends, so it heads
   its chain alone. *)
LEMMA HeadReachesItself ==
  ASSUME NEW i \in Rows, NEW h \in Rows, IsHead(i), IsHeadOf(i, h)
  PROVE  i = h
  <1>1. Closed({i})
    BY DEF IsHead, Closed
  <1>2. h \in {i}
    BY <1>1 DEF IsHeadOf, Reaches
  <1>3. QED
    BY <1>2

(* The empty docket satisfies the inductive invariant. *)
LEMMA InitIInv == Init => IInv
  BY MaxRowsAssumption
  DEF Init, IInv, TypeOK, HeldRows, OneHead, SomeHead, LiveOnlyApproved, Rows,
      Id, Status, TaskState

(* The columns after a row is inserted that supersedes `old`, or nothing. *)
LEMMA InsertTypes ==
  ASSUME IInv, NEW a \in Agent, NEW st \in {"live", "pending", "rejected"},
         NEW about \in Rows \cup {rows + 1}, Insert(a, st, about),
         NEW old \in Rows \cup {None},
         superseded_by' = IF old = None THEN superseded_by
                          ELSE [superseded_by EXCEPT ![old] = rows + 1],
         UNCHANGED <<state, judging, approved>>
  PROVE  /\ rows + 1 \in Id /\ rows + 1 \notin Rows /\ Rows \subseteq Id
         /\ Rows' = Rows \cup {rows + 1}
         /\ \A i \in Rows : /\ matter'[i] = matter[i] /\ status'[i] = status[i]
                            /\ agent_id'[i] = agent_id[i]
                            /\ superseded_by'[i] = IF i = old THEN rows + 1
                                                   ELSE superseded_by[i]
         /\ matter'[rows + 1] = about /\ status'[rows + 1] = st
         /\ agent_id'[rows + 1] = a /\ superseded_by'[rows + 1] = None
         /\ state[rows + 1] = "open"
         /\ TypeOK'
         /\ HeldRows'
  <1> DEFINE id == rows + 1
  <1>1. /\ id \in Id /\ id \notin Rows /\ Rows \subseteq Id
        /\ Rows' = Rows \cup {id} /\ rows' \in 0..MaxRows
    BY RowsAreIds, MaxRowsAssumption DEF IInv, Insert, Rows, Id, TypeOK
  <1>2. /\ \A i \in Id \ {id} : /\ matter'[i] = matter[i] /\ status'[i] = status[i]
                                /\ agent_id'[i] = agent_id[i]
        /\ matter'[id] = about /\ status'[id] = st /\ agent_id'[id] = a
        /\ state[id] = "open" /\ superseded_by[id] = None
    BY <1>1 DEF Insert, IInv, TypeOK
  <1>3. /\ \A i \in Id : superseded_by'[i] = IF i = old THEN id ELSE superseded_by[i]
        /\ superseded_by' \in [Id -> Id \cup {None}]
    BY <1>1, NoneIsNoId DEF IInv, TypeOK
  <1>4. /\ agent_id' \in [Id -> Agent \cup {None}]
        /\ matter' \in [Id -> Id \cup {None}]
        /\ status' \in [Id -> Status]
    BY <1>1 DEF Insert, IInv, TypeOK, Status
  <1>5. /\ \A i \in Id : i \in Rows' <=> status'[i] # "absent"
        /\ \A i \in Id \ Rows' : superseded_by'[i] = None /\ state[i] = "open"
    BY <1>1, <1>2, <1>3 DEF IInv, TypeOK
  <1>6. \A i \in Rows' : superseded_by'[i] \in Rows' \cup {None} /\ matter'[i] \in Rows'
    BY <1>1, <1>2, <1>3, NoneIsNoId DEF IInv, TypeOK
  <1>7. TypeOK'
    BY <1>1, <1>3, <1>4, <1>5, <1>6 DEF IInv, TypeOK
  <1>8. HeldRows'
    BY <1>1 DEF IInv, HeldRows
  <1>9. QED
    BY <1>1, <1>2, <1>3, <1>7, <1>8, NoneIsNoId

(* Walks that stay in the old table are not disturbed by an insert: what is
   closed under the new pointers is, within the old rows, closed under the
   old ones. *)
LEMMA OldWalks ==
  ASSUME IInv, NEW id, NEW old \in Rows \cup {None}, id \notin Rows,
         Rows' = Rows \cup {id},
         old # None => superseded_by[old] = None,
         \A i \in Rows : superseded_by'[i] = IF i = old THEN id ELSE superseded_by[i],
         NEW i \in Rows, NEW h \in Rows, IsHeadOf(i, h),
         NEW S \in SUBSET (Rows'), i \in S, Closed(S)'
  PROVE  h \in S
  <1> DEFINE R == S \cap Rows
  <1>1. \A j \in R : superseded_by[j] \in R \cup {None}
    <2> SUFFICES ASSUME NEW j \in R PROVE superseded_by[j] \in R \cup {None}
      OBVIOUS
    <2>1. CASE j = old
      BY <2>1, NoneIsNoId, RowsAreIds DEF IInv
    <2>2. CASE j # old
      BY <2>2 DEF Closed, IInv, TypeOK
    <2>3. QED
      BY <2>1, <2>2
  <1>2. R \in SUBSET Rows /\ i \in R /\ Closed(R)
    BY <1>1 DEF Closed
  <1>3. QED
    BY <1>2 DEF IsHeadOf, Reaches

(* A fresh filing is a matter of its own. *)
LEMMA FileIInv ==
  ASSUME IInv, NEW a \in Agent, FileTask(a)
  PROVE  IInv'
  <1> DEFINE id == rows + 1
             st == TaskWriteStatus(a)
  <1>1. st \in {"live", "pending", "rejected"} /\ Insert(a, st, id)
    BY DEF FileTask, TaskWriteStatus
  <1>2. superseded_by' = superseded_by /\ UNCHANGED <<state, judging, approved>>
    BY DEF FileTask
  <1>3. /\ id \in Id /\ id \notin Rows /\ Rows \subseteq Id /\ Rows' = Rows \cup {id}
        /\ \A i \in Rows : /\ matter'[i] = matter[i] /\ status'[i] = status[i]
                           /\ agent_id'[i] = agent_id[i]
                           /\ superseded_by'[i] = superseded_by[i]
        /\ matter'[id] = id /\ status'[id] = st /\ agent_id'[id] = a
        /\ superseded_by'[id] = None
        /\ TypeOK' /\ HeldRows'
    <2>1. None \in Rows \cup {None} /\ id \in Rows \cup {rows + 1}
      OBVIOUS
    <2>2. \A i \in Rows : i # None
      BY RowsAreIds, NoneIsNoId DEF IInv
    <2>3. QED
      BY <1>1, <1>2, <2>1, <2>2, InsertTypes
  <1>4. \A i \in Rows : matter[i] \in Rows
    BY DEF IInv, TypeOK
  <1>5. OneHead'
    <2> SUFFICES ASSUME NEW i \in Rows', NEW h \in Rows', IsHead(h)', matter'[i] = matter'[h]
                 PROVE  IsHeadOf(i, h)'
      BY DEF OneHead
    <2>1. CASE i = id
      <3>1. h = id
        BY <2>1, <1>3, <1>4
      <3>2. QED
        BY <2>1, <3>1 DEF IsHeadOf, Reaches
    <2>2. CASE i \in Rows
      <3>1. h \in Rows
        BY <2>2, <1>3, <1>4
      <3>2. IsHeadOf(i, h)
        BY <2>2, <3>1, <1>3 DEF IInv, OneHead, IsHead
      <3>3. ASSUME NEW S \in SUBSET (Rows'), i \in S, Closed(S)'
            PROVE  h \in S
        <4>1. None \in Rows \cup {None} /\ \A k \in Rows : k # None
          BY RowsAreIds, NoneIsNoId DEF IInv
        <4>2. QED
          BY <1>3, <2>2, <3>1, <3>2, <3>3, <4>1, OldWalks
      <3>4. QED
        BY <3>3 DEF IsHeadOf, Reaches
    <2>3. QED
      BY <1>3, <2>1, <2>2
  <1>6. SomeHead'
    BY <1>3 DEF IInv, SomeHead, IsHead
  <1>7. LiveOnlyApproved'
    <2>1. \A i \in Rows : agent_id'[matter'[i]] = agent_id[matter[i]]
      BY <1>3, <1>4
    <2>2. approved' = approved /\ approved \subseteq Rows
      BY <1>2 DEF IInv, HeldRows
    <2>3. \A i \in Rows :
            status'[i] = "live" /\ agent_id'[matter'[i]] \in Quarantined =>
              \E k \in approved' : matter'[k] = matter'[i]
      BY <1>3, <2>1, <2>2 DEF IInv, LiveOnlyApproved
    <2>4. status'[id] = "live" => agent_id'[matter'[id]] \notin Quarantined
      BY <1>3 DEF TaskWriteStatus
    <2>5. QED
      BY <1>3, <2>3, <2>4 DEF LiveOnlyApproved
  <1>8. QED
    BY <1>3, <1>5, <1>6, <1>7 DEF IInv
(* An edit by id: the head the walk ends at gets a successor, and the matter
   a new head. *)
LEMMA EditIInv ==
  ASSUME IInv, NEW a \in Agent, NEW given \in Id, TaskEdit(a, given)
  PROVE  IInv'
  <1> DEFINE id == rows + 1
  <1>1. PICK head \in Rows :
          /\ IsHeadOf(given, head) /\ Editable(head)
          /\ Insert(a, status[head], matter[head])
          /\ superseded_by' = [superseded_by EXCEPT ![head] = id]
          /\ UNCHANGED <<state, judging, approved>>
    BY DEF TaskEdit, SupersedeTask, RegradeStatus
  <1>2. /\ status[head] \in {"live", "pending", "rejected"}
        /\ matter[head] \in Rows
        /\ superseded_by[head] = None
        /\ head # None
    BY <1>1, RowsAreIds, NoneIsNoId DEF IInv, TypeOK, Status, IsHeadOf, IsHead
  <1>3. /\ id \in Id /\ id \notin Rows /\ Rows \subseteq Id /\ Rows' = Rows \cup {id}
        /\ \A i \in Rows : /\ matter'[i] = matter[i] /\ status'[i] = status[i]
                           /\ agent_id'[i] = agent_id[i]
                           /\ superseded_by'[i] = IF i = head THEN id
                                                  ELSE superseded_by[i]
        /\ matter'[id] = matter[head] /\ status'[id] = status[head]
        /\ superseded_by'[id] = None
        /\ TypeOK' /\ HeldRows'
    <2>1. /\ head \in Rows \cup {None} /\ matter[head] \in Rows \cup {rows + 1}
          /\ superseded_by' = IF head = None THEN superseded_by
                              ELSE [superseded_by EXCEPT ![head] = rows + 1]
      BY <1>1, <1>2
    <2>2. Insert(a, status[head], matter[head]) /\ UNCHANGED <<state, judging, approved>>
      BY <1>1
    <2>3. /\ rows + 1 \in Id /\ rows + 1 \notin Rows /\ Rows \subseteq Id
          /\ Rows' = Rows \cup {rows + 1}
          /\ \A i \in Rows : /\ matter'[i] = matter[i] /\ status'[i] = status[i]
                             /\ agent_id'[i] = agent_id[i]
                             /\ superseded_by'[i] = IF i = head THEN rows + 1
                                                    ELSE superseded_by[i]
          /\ matter'[rows + 1] = matter[head] /\ status'[rows + 1] = status[head]
          /\ agent_id'[rows + 1] = a /\ superseded_by'[rows + 1] = None
          /\ state[rows + 1] = "open"
          /\ TypeOK'
          /\ HeldRows'
      BY <1>2, <2>1, <2>2, InsertTypes, Zenon
    <2>4. QED
      BY <2>3
  <1>4. \A i \in Rows : matter[i] \in Rows
    BY DEF IInv, TypeOK
  <1>5. ASSUME NEW i \in Rows, NEW h \in Rows, IsHeadOf(i, h),
               NEW S \in SUBSET (Rows'), i \in S, Closed(S)'
        PROVE  h \in S
    BY <1>2, <1>3, <1>5, OldWalks
  <1>6. OneHead'
    <2> SUFFICES ASSUME NEW i \in Rows', NEW h \in Rows', IsHead(h)', matter'[i] = matter'[h],
                        NEW S \in SUBSET (Rows'), i \in S, Closed(S)'
                 PROVE  h \in S
      BY DEF OneHead, IsHeadOf, Reaches
    <2>1. IsHead(head)
      BY <1>1 DEF IsHeadOf
    <2>2. CASE h = id /\ i = id
      BY <2>2
    <2>3. CASE h = id /\ i \in Rows
      <3>1. IsHeadOf(i, head)
        BY <2>1, <2>3, <1>1, <1>3 DEF IInv, OneHead
      <3>2. head \in S
        BY <3>1, <2>3, <1>1, <1>5
      <3>3. superseded_by'[head] \in S \cup {None}
        BY <3>2 DEF Closed
      <3>4. QED
        BY <3>3, <2>3, <1>1, <1>3, NoneIsNoId
    <2>4. CASE h \in Rows
      <3>1. h # head /\ IsHead(h)
        BY <2>4, <1>1, <1>3, NoneIsNoId DEF IsHead
      <3>2. i \in Rows
        <4>1. ASSUME i = id PROVE FALSE
          <5>1. IsHeadOf(head, h)
            BY <4>1, <2>4, <3>1, <1>1, <1>3 DEF IInv, OneHead
          <5>2. QED
            BY <5>1, <2>1, <2>4, <3>1, <1>1, HeadReachesItself
        <4>2. QED
          BY <4>1, <1>3
      <3>3. IsHeadOf(i, h)
        BY <2>4, <3>1, <3>2, <1>3 DEF IInv, OneHead
      <3>4. QED
        BY <2>4, <3>2, <3>3, <1>5
    <2>5. QED
      BY <1>3, <2>2, <2>3, <2>4
  <1>7. SomeHead'
    <2> SUFFICES ASSUME NEW i \in Rows'
                 PROVE  \E h \in Rows' : superseded_by'[h] = None /\ matter'[h] = matter'[i]
      BY DEF SomeHead, IsHead
    <2>1. PICK k \in Rows : matter'[k] = matter'[i]
      BY <1>1, <1>3
    <2>2. PICK h \in Rows : IsHead(h) /\ matter[h] = matter[k]
      BY DEF IInv, SomeHead
    <2>3. CASE h = head
      <3>1. matter'[id] = matter'[i] /\ superseded_by'[id] = None
        BY <2>1, <2>2, <2>3, <1>3
      <3>2. QED
        BY <3>1, <1>3
    <2>4. CASE h # head
      <3>1. matter'[h] = matter'[i] /\ superseded_by'[h] = None
        BY <2>1, <2>2, <2>4, <1>3 DEF IsHead
      <3>2. QED
        BY <3>1, <1>3
    <2>5. QED
      BY <2>3, <2>4
  <1>8. LiveOnlyApproved'
    <2> SUFFICES ASSUME NEW i \in Rows', status'[i] = "live",
                        agent_id'[matter'[i]] \in Quarantined
                 PROVE  \E k \in approved' : matter'[k] = matter'[i]
      BY DEF LiveOnlyApproved
    <2>1. PICK j \in Rows : matter'[i] = matter[j] /\ status[j] = "live"
      BY <1>1, <1>3
    <2>2. agent_id'[matter'[i]] = agent_id[matter[j]]
      BY <2>1, <1>3, <1>4
    <2>3. PICK k \in approved : matter[k] = matter[j]
      BY <2>1, <2>2 DEF IInv, LiveOnlyApproved
    <2>4. k \in Rows /\ k \in approved'
      BY <1>1 DEF IInv, HeldRows
    <2>5. QED
      BY <2>1, <2>3, <2>4, <1>3
  <1>9. QED
    BY <1>3, <1>6, <1>7, <1>8 DEF IInv

(* A step that leaves the rows, their matters and their pointers alone
   leaves every chain and every head where it was. *)
LEMMA ChainsStay ==
  ASSUME IInv, UNCHANGED <<rows, superseded_by, matter>>
  PROVE  OneHead' /\ SomeHead'
  BY DEF IInv, OneHead, SomeHead, IsHeadOf, IsHead, Reaches, Closed, Rows

(* set_state, in both halves, and dying between them. *)
LEMMA JudgeIInv ==
  ASSUME IInv, NEW j \in Judge, TaskJudge(j)
  PROVE  IInv'
  <1>1. UNCHANGED <<rows, agent_id, status, superseded_by, matter, approved>>
    BY DEF TaskJudge, JudgeRead, JudgeWrite, JudgeDies
  <1>2. OneHead' /\ SomeHead'
    BY <1>1, ChainsStay
  <1>3. LiveOnlyApproved'
    BY <1>1 DEF IInv, LiveOnlyApproved, Rows
  <1>4. Rows' = Rows /\ Rows \subseteq Id
    BY <1>1, RowsAreIds DEF IInv, Rows
  <1>5. TypeOK' /\ HeldRows'
    <2>1. CASE \E id \in Id : JudgeRead(j, id)
      <3>1. PICK head \in Rows : judging' = [judging EXCEPT ![j] = head] /\ state' = state
        BY <2>1 DEF JudgeRead
      <3>2. QED
        BY <3>1, <1>1, <1>4 DEF IInv, TypeOK, HeldRows
    <2>2. CASE JudgeWrite(j)
      <3>1. PICK to \in {"done", "dropped"} : state' = [state EXCEPT ![judging[j]] = to]
        BY <2>2 DEF JudgeWrite
      <3>2. judging' = [judging EXCEPT ![j] = None] /\ judging[j] \in Rows
        BY <2>2 DEF JudgeWrite, IInv, HeldRows
      <3>3. QED
        BY <3>1, <3>2, <1>1, <1>4 DEF IInv, TypeOK, HeldRows, TaskState
    <2>3. CASE JudgeDies(j)
      BY <2>3, <1>1, <1>4 DEF JudgeDies, IInv, TypeOK, HeldRows
    <2>4. QED
      BY <2>1, <2>2, <2>3 DEF TaskJudge
  <1>6. QED
    BY <1>2, <1>3, <1>5 DEF IInv

(* The desk's judgment of one row. *)
LEMMA DeskIInv ==
  ASSUME IInv, NEW id \in Id, DeskJudges(id)
  PROVE  IInv'
  <1>1. /\ UNCHANGED <<rows, agent_id, state, superseded_by, judging, matter>>
        /\ id \in Rows /\ status[id] = "pending"
        /\ \/ status' = [status EXCEPT ![id] = "live"] /\ approved' = approved \cup {id}
           \/ status' = [status EXCEPT ![id] = "rejected"] /\ approved' = approved
    BY DEF DeskJudges, SetStatus
  <1>2. OneHead' /\ SomeHead'
    BY <1>1, ChainsStay
  <1>3. Rows' = Rows /\ Rows \subseteq Id
    BY <1>1, RowsAreIds DEF IInv, Rows
  <1>4. TypeOK' /\ HeldRows'
    BY <1>1, <1>3 DEF IInv, TypeOK, HeldRows, Status
  <1>5. LiveOnlyApproved'
    <2> SUFFICES ASSUME NEW i \in Rows, status'[i] = "live",
                        agent_id[matter[i]] \in Quarantined
                 PROVE  \E k \in approved' : matter[k] = matter[i]
      BY <1>1, <1>3 DEF LiveOnlyApproved
    <2>1. CASE i = id
      <3>1. id \in approved'
        BY <2>1, <1>1, <1>3 DEF IInv, TypeOK
      <3>2. QED
        BY <3>1, <2>1
    <2>2. CASE i # id
      BY <2>2, <1>1, <1>3 DEF IInv, TypeOK, LiveOnlyApproved
    <2>3. QED
      BY <2>1, <2>2
  <1>6. QED
    BY <1>2, <1>4, <1>5 DEF IInv

(* Every step of every process preserves the inductive invariant. *)
LEMMA NextIInv == IInv /\ [Next]_vars => IInv'
  <1> SUFFICES ASSUME IInv, [Next]_vars PROVE IInv'
    OBVIOUS
  <1>1. CASE \E a \in Agent : FileTask(a) \/ \E id \in Id : TaskEdit(a, id)
    BY <1>1, FileIInv, EditIInv
  <1>2. CASE \E j \in Judge : TaskJudge(j)
    BY <1>2, JudgeIInv
  <1>3. CASE \E id \in Id : DeskJudges(id)
    BY <1>3, DeskIInv
  <1>4. CASE UNCHANGED vars
    <2>1. OneHead' /\ SomeHead'
      BY <1>4, ChainsStay DEF vars
    <2>2. QED
      BY <1>4, <2>1 DEF vars, IInv, TypeOK, HeldRows, LiveOnlyApproved, Rows
  <1>5. QED
    BY <1>1, <1>2, <1>3, <1>4 DEF Next

(* The inductive invariant holds in every reachable state: chains keep within
   a matter, each with its one head, and judgments in flight hold real rows. *)
THEOREM Invariance == Spec => []IInv
  BY InitIInv, NextIInv, PTL DEF Spec

(* The columns of `tasks` keep their types and no pointer dangles, for any
   number of rows, writers and judgments in flight. *)
THEOREM TypeCorrect == Spec => []TypeOK
  BY Invariance, PTL DEF IInv

(* D-051: however many writers edit a stale id, a matter has one head and
   every id of it leads there. *)
THEOREM OneHeadHolds == Spec => []OneHead
  BY Invariance, PTL DEF IInv

(* What an untrusted agent filed reaches the docket only through the desk,
   whoever edits it on the way. *)
THEOREM FiledUnjudgedHolds == Spec => []FiledUnjudgedNeverListed
  <1>1. IInv => FiledUnjudgedNeverListed
    BY DEF IInv, LiveOnlyApproved, FiledUnjudgedNeverListed, Listed
  <1>2. QED
    BY <1>1, Invariance, PTL

(* A judged head is out of reach: an edit needs an open head, and a late
   judgment only ever writes done or dropped. *)
LEMMA StepKeepsClosed ==
  ASSUME IInv, [Next]_vars, NEW i \in Rows, IsHead(i), state[i] # "open"
  PROVE  superseded_by'[i] = None /\ state'[i] # "open"
  <1>1. superseded_by[i] = None /\ i \in Id
    BY RowsAreIds DEF IInv, IsHead
  <1>2. ASSUME NEW a \in Agent, FileTask(a)
        PROVE  superseded_by' = superseded_by /\ state' = state
    BY <1>2 DEF FileTask
  <1>3. ASSUME NEW a \in Agent, NEW id \in Id, TaskEdit(a, id)
        PROVE  superseded_by'[i] = None /\ state' = state
    <2>1. PICK head \in Rows :
            /\ state[head] = "open" /\ state' = state
            /\ superseded_by' = [superseded_by EXCEPT ![head] = rows + 1]
      BY <1>3 DEF TaskEdit, SupersedeTask, Editable
    <2>2. QED
      BY <2>1, <1>1 DEF IInv, TypeOK
  <1>4. ASSUME NEW j \in Judge, TaskJudge(j)
        PROVE  superseded_by' = superseded_by /\ state'[i] # "open"
    <2>1. superseded_by' = superseded_by
      BY <1>4 DEF TaskJudge, JudgeRead, JudgeWrite, JudgeDies
    <2>2. state'[i] # "open"
      <3>1. CASE JudgeWrite(j)
        BY <3>1, <1>1 DEF JudgeWrite, IInv, TypeOK
      <3>2. CASE state' = state
        BY <3>2
      <3>3. QED
        BY <1>4, <3>1, <3>2 DEF TaskJudge, JudgeRead, JudgeDies
    <2>3. QED
      BY <2>1, <2>2
  <1>5. ASSUME NEW id \in Id, DeskJudges(id)
        PROVE  superseded_by' = superseded_by /\ state' = state
    BY <1>5 DEF DeskJudges, SetStatus
  <1>6. QED
    BY <1>1, <1>2, <1>3, <1>4, <1>5 DEF Next, vars

(* A matter judged done or dropped never returns to the docket. *)
THEOREM ClosedStaysClosedHolds == Spec => ClosedStaysClosed
  <1>1. IInv /\ [Next]_vars =>
          [\A i \in Rows : IsHead(i) /\ state[i] # "open" =>
             superseded_by'[i] = None /\ state'[i] # "open"]_vars
    BY StepKeepsClosed
  <1>2. QED
    BY <1>1, Invariance, PTL DEF Spec, ClosedStaysClosed
-----------------------------------------------------------------------------
(* Refinement.  A matter is read off its head; what a step does to one head  *)
(* decides which step of the abstract docket it is.                           *)

(* What a reader makes of a head. *)
Seen(h) ==
  IF state[h] # "open" THEN "closed"
  ELSE CASE status[h] = "live" -> "owed"
         [] status[h] = "pending" -> "waiting"
         [] OTHER -> "declined"

HeadsAreSeen == \A h \in Rows : IsHead(h) => LifecycleOf(matter[h]) = Seen(h)

UnfiledIsSeen == \A m \in Id : (\A i \in Rows : matter[i] # m) => LifecycleOf(m) = "unfiled"

(* With one head to a matter, the mapping's choice is that head. *)
LEMMA Reading == IInv => HeadsAreSeen /\ UnfiledIsSeen
  <1> SUFFICES ASSUME IInv PROVE HeadsAreSeen /\ UnfiledIsSeen
    OBVIOUS
  <1>1. ASSUME NEW h \in Rows, IsHead(h)
        PROVE  LifecycleOf(matter[h]) = Seen(h)
    <2>1. HeadOfMatter(matter[h]) \in Rows
          /\ matter[HeadOfMatter(matter[h])] = matter[h]
          /\ IsHead(HeadOfMatter(matter[h]))
      BY <1>1 DEF HeadOfMatter
    <2>2. IsHeadOf(h, HeadOfMatter(matter[h]))
      BY <1>1, <2>1 DEF IInv, OneHead
    <2>3. HeadOfMatter(matter[h]) = h
      BY <1>1, <2>1, <2>2, HeadReachesItself
    <2>4. QED
      BY <1>1, <2>3 DEF LifecycleOf, Seen
  <1>2. UnfiledIsSeen
    BY DEF UnfiledIsSeen, LifecycleOf
  <1>3. QED
    BY <1>1, <1>2 DEF HeadsAreSeen

(* The same after a step. *)
LEMMA ReadingNext == ASSUME IInv' PROVE (HeadsAreSeen /\ UnfiledIsSeen)'
  <1>1. (IInv => HeadsAreSeen /\ UnfiledIsSeen)'
    BY Reading, PTL
  <1>2. QED
    BY <1>1

(* A head that stays a head, with its state and status, keeps its matter's
   life where it was. *)
LEMMA HeadKept ==
  ASSUME IInv, IInv', NEW h \in Rows, h \in Rows', superseded_by[h] = None,
         superseded_by'[h] = None, matter'[h] = matter[h],
         state'[h] = state[h], status'[h] = status[h],
         NEW m \in Id, m = matter[h]
  PROVE  LifecycleOf(m)' = LifecycleOf(m)
  <1>1. LifecycleOf(m) = Seen(h)
    BY Reading DEF HeadsAreSeen, IsHead
  <1>2. LifecycleOf(m)' = Seen(h)'
    BY ReadingNext DEF HeadsAreSeen, IsHead
  <1>3. QED
    BY <1>1, <1>2 DEF Seen

(* One matter moves, the others stay. *)
LEMMA Moves ==
  ASSUME NEW m \in Id, NEW from, NEW to, LifecycleOf(m) \in from, LifecycleOf(m)' = to,
         \A n \in Id \ {m} : LifecycleOf(n)' = LifecycleOf(n)
  PROVE  Board!Becomes(m, from, to)
  BY DEF Board!Becomes

(* No matter moves. *)
LEMMA Stutters ==
  ASSUME \A m \in Id : LifecycleOf(m)' = LifecycleOf(m)
  PROVE  UNCHANGED [m \in Id |-> LifecycleOf(m)]
  OBVIOUS

(* Matters none of whose heads the step touches stay where they are: the
   step wrote at most the row w, a row it inserted or a head of another. *)
LEMMA OthersStay ==
  ASSUME IInv, IInv', NEW w, NEW m \in Id,
         \A i \in Rows \ {w} :
           /\ i \in Rows' /\ matter'[i] = matter[i]
           /\ state'[i] = state[i] /\ status'[i] = status[i]
           /\ superseded_by[i] = None => superseded_by'[i] = None,
         \A i \in Rows' : matter'[i] = m => i \in Rows,
         w \in Rows => matter'[w] = matter[w] /\ w \in Rows',
         w \in Rows /\ matter[w] = m => superseded_by[w] # None
  PROVE  LifecycleOf(m)' = LifecycleOf(m)
  <1>1. CASE \E i \in Rows : matter[i] = m
    <2>1. PICK h \in Rows : IsHead(h) /\ matter[h] = m
      BY <1>1 DEF IInv, SomeHead
    <2>2. superseded_by[h] = None /\ h # w
      BY <2>1 DEF IsHead
    <2>3. QED
      BY <2>1, <2>2, HeadKept
  <1>2. CASE \A i \in Rows : matter[i] # m
    <2>1. LifecycleOf(m) = "unfiled"
      BY <1>2, Reading DEF UnfiledIsSeen
    <2>2. \A i \in Rows' : matter'[i] # m
      BY <1>2
    <2>3. LifecycleOf(m)' = "unfiled"
      BY <2>2, ReadingNext DEF UnfiledIsSeen
    <2>4. QED
      BY <2>1, <2>3
  <1>3. QED
    BY <1>1, <1>2

(* A filing starts the life of a matter nobody filed before. *)
LEMMA FileImplements ==
  ASSUME IInv, IInv', NEW a \in Agent, FileTask(a)
  PROVE  Board!Next
  <1>1. PICK id : id = rows + 1
    OBVIOUS
  <1>2. /\ id \in Id /\ id \notin Rows /\ Rows \subseteq Id /\ Rows' = Rows \cup {id}
        /\ \A i \in Id \ {id} : /\ matter'[i] = matter[i] /\ status'[i] = status[i]
        /\ matter'[id] = id /\ status'[id] = TaskWriteStatus(a)
        /\ superseded_by' = superseded_by /\ state' = state
        /\ superseded_by[id] = None /\ state[id] = "open"
    BY <1>1, RowsAreIds, MaxRowsAssumption DEF FileTask, Insert, IInv, TypeOK, Rows, Id
  <1>3. \A i \in Rows : matter[i] \in Rows
    BY DEF IInv, TypeOK
  <1>4. LifecycleOf(id) = "unfiled"
    BY <1>2, <1>3, Reading DEF UnfiledIsSeen
  <1>5. LifecycleOf(id)' = Seen(id)'
    BY <1>2, ReadingNext DEF HeadsAreSeen, IsHead
  <1>6. LifecycleOf(id)' = "owed" \/ LifecycleOf(id)' = "waiting"
    BY <1>2, <1>5 DEF Seen, TaskWriteStatus
  <1>7. ASSUME NEW n \in Id \ {id} PROVE LifecycleOf(n)' = LifecycleOf(n)
    BY <1>2, <1>7, OthersStay
  <1>8. Board!File(id)
    BY <1>2, <1>4, <1>6, <1>7, Moves DEF Board!File
  <1>9. QED
    BY <1>2, <1>8 DEF Board!Next

(* An edit is not seen: the new head is open, as the old one was, and has its
   status. *)
LEMMA EditImplements ==
  ASSUME IInv, IInv', NEW a \in Agent, NEW given \in Id, TaskEdit(a, given)
  PROVE  UNCHANGED [m \in Id |-> LifecycleOf(m)]
  <1>1. PICK head \in Rows :
          /\ IsHead(head) /\ state[head] = "open"
          /\ Insert(a, status[head], matter[head])
          /\ superseded_by' = [superseded_by EXCEPT ![head] = rows + 1]
          /\ state' = state
    BY DEF TaskEdit, SupersedeTask, RegradeStatus, Editable, IsHeadOf
  <1>2. PICK id : id = rows + 1
    OBVIOUS
  <1>3. /\ id \in Id /\ id \notin Rows /\ Rows \subseteq Id /\ Rows' = Rows \cup {id}
        /\ \A i \in Id \ {id} : /\ matter'[i] = matter[i] /\ status'[i] = status[i]
        /\ matter'[id] = matter[head] /\ status'[id] = status[head]
        /\ superseded_by[id] = None /\ state[id] = "open"
    BY <1>1, <1>2, RowsAreIds, MaxRowsAssumption DEF Insert, IInv, TypeOK, Rows, Id
  <1>4. /\ \A i \in Id \ {head} : superseded_by'[i] = superseded_by[i]
        /\ superseded_by[head] = None
    BY <1>1 DEF IInv, TypeOK, IsHead
  <1>5. ASSUME NEW m \in Id, m # matter[head] PROVE LifecycleOf(m)' = LifecycleOf(m)
    <2>1. \A i \in Rows' : matter'[i] = m => i \in Rows
      BY <1>3, <1>5
    <2>2. CASE \E i \in Rows : matter[i] = m
      <3>1. PICK h \in Rows : IsHead(h) /\ matter[h] = m
        BY <2>2 DEF IInv, SomeHead
      <3>2. /\ h # head /\ h # id /\ h \in Id /\ superseded_by[h] = None
            /\ superseded_by'[h] = None /\ h \in Rows'
            /\ matter'[h] = matter[h] /\ state'[h] = state[h] /\ status'[h] = status[h]
        BY <3>1, <1>1, <1>3, <1>4, <1>5 DEF IsHead
      <3>3. QED
        BY <3>1, <3>2, HeadKept
    <2>3. CASE \A i \in Rows : matter[i] # m
      <3>1. LifecycleOf(m) = "unfiled"
        BY <2>3, Reading DEF UnfiledIsSeen
      <3>2. LifecycleOf(m)' = "unfiled"
        BY <2>1, <2>3, <1>3, ReadingNext DEF UnfiledIsSeen
      <3>3. QED
        BY <3>1, <3>2
    <2>4. QED
      BY <2>2, <2>3
  <1>6. ASSUME NEW m \in Id, m = matter[head] PROVE LifecycleOf(m)' = LifecycleOf(m)
    <2>1. LifecycleOf(m) = Seen(head)
      BY <1>1, <1>6, Reading DEF HeadsAreSeen
    <2>2. id \in Rows' /\ superseded_by'[id] = None /\ matter'[id] = m
      BY <1>1, <1>3, <1>4, <1>6
    <2>3. LifecycleOf(m)' = Seen(id)'
      BY <2>2, ReadingNext DEF HeadsAreSeen, IsHead
    <2>4. QED
      BY <2>1, <2>3, <1>1, <1>3 DEF Seen
  <1>7. QED
    BY <1>5, <1>6, Stutters

(* set_state closes the matter if the row it checked is still the head, and
   is not seen otherwise: a judgment on a replaced version changes no matter. *)
LEMMA JudgeImplements ==
  ASSUME IInv, IInv', NEW j \in Judge, JudgeWrite(j)
  PROVE  [Board!Next]_([m \in Id |-> LifecycleOf(m)])
  <1>1. PICK d \in Rows : d = judging[j]
    BY DEF JudgeWrite, IInv, HeldRows
  <1>2. PICK to \in {"done", "dropped"} : state' = [state EXCEPT ![d] = to]
    BY <1>1 DEF JudgeWrite
  <1>3. /\ Rows \subseteq Id /\ Rows' = Rows /\ matter' = matter /\ status' = status
        /\ superseded_by' = superseded_by
        /\ state'[d] = to /\ \A i \in Id \ {d} : state'[i] = state[i]
    BY <1>1, <1>2, RowsAreIds DEF JudgeWrite, Rows, IInv, TypeOK
  <1>4. PICK m \in Id : m = matter[d]
    BY <1>1, <1>3 DEF IInv, TypeOK
  <1>5. ASSUME NEW n \in Id, n # m \/ superseded_by[d] # None
        PROVE  LifecycleOf(n)' = LifecycleOf(n)
    BY <1>1, <1>3, <1>4, <1>5, OthersStay
  <1>6. CASE superseded_by[d] # None
    BY <1>5, <1>6, Stutters
  <1>7. CASE superseded_by[d] = None
    <2>1. LifecycleOf(m) = Seen(d)
      BY <1>4, <1>7, Reading DEF HeadsAreSeen, IsHead
    <2>2. LifecycleOf(m)' = Seen(d)'
      BY <1>3, <1>4, <1>7, ReadingNext DEF HeadsAreSeen, IsHead
    <2>3. LifecycleOf(m)' = "closed"
      BY <2>2, <1>3 DEF Seen
    <2>4. CASE state[d] = "open"
      <3>1. LifecycleOf(m) \in {"waiting", "owed", "declined"}
        BY <2>1, <2>4 DEF Seen
      <3>2. Board!Close(m)
        BY <3>1, <2>3, <1>5, Moves DEF Board!Close
      <3>3. QED
        BY <3>2 DEF Board!Next
    <2>5. CASE state[d] # "open"
      <3>1. LifecycleOf(m) = "closed"
        BY <2>1, <2>5 DEF Seen
      <3>2. QED
        BY <3>1, <2>3, <1>5, Stutters
    <2>6. QED
      BY <2>4, <2>5
  <1>8. QED
    BY <1>6, <1>7

(* The desk decides an open waiting matter, or a version nobody reads. *)
LEMMA DeskImplements ==
  ASSUME IInv, IInv', NEW id \in Id, DeskJudges(id)
  PROVE  [Board!Next]_([m \in Id |-> LifecycleOf(m)])
  <1>1. PICK to \in {"live", "rejected"} : status' = [status EXCEPT ![id] = to]
    BY DEF DeskJudges, SetStatus
  <1>2. /\ id \in Rows /\ status[id] = "pending"
        /\ Rows \subseteq Id /\ Rows' = Rows /\ matter' = matter /\ state' = state
        /\ superseded_by' = superseded_by
        /\ status'[id] = to /\ \A i \in Id \ {id} : status'[i] = status[i]
    BY <1>1, RowsAreIds DEF DeskJudges, SetStatus, Rows, IInv, TypeOK
  <1>3. PICK m \in Id : m = matter[id]
    BY <1>2 DEF IInv, TypeOK
  <1>4. ASSUME NEW n \in Id, n # m \/ superseded_by[id] # None
        PROVE  LifecycleOf(n)' = LifecycleOf(n)
    BY <1>2, <1>3, <1>4, OthersStay
  <1>5. CASE superseded_by[id] # None
    BY <1>4, <1>5, Stutters
  <1>6. CASE superseded_by[id] = None
    <2>1. LifecycleOf(m) = Seen(id)
      BY <1>2, <1>3, <1>6, Reading DEF HeadsAreSeen, IsHead
    <2>2. LifecycleOf(m)' = Seen(id)'
      BY <1>2, <1>3, <1>6, ReadingNext DEF HeadsAreSeen, IsHead
    <2>3. CASE state[id] = "open"
      <3>1. /\ LifecycleOf(m) = "waiting"
            /\ LifecycleOf(m)' = IF to = "live" THEN "owed" ELSE "declined"
        BY <2>1, <2>2, <2>3, <1>2 DEF Seen
      <3>2. Board!Approve(m) \/ Board!Decline(m)
        BY <3>1, <1>4, Moves DEF Board!Approve, Board!Decline
      <3>3. QED
        BY <3>2 DEF Board!Next
    <2>4. CASE state[id] # "open"
      <3>1. LifecycleOf(m)' = LifecycleOf(m)
        BY <2>1, <2>2, <2>4, <1>2 DEF Seen
      <3>2. QED
        BY <3>1, <1>4, Stutters
    <2>5. QED
      BY <2>3, <2>4
  <1>7. QED
    BY <1>5, <1>6

(* Every step of the table is a step of the abstract docket or a stutter. *)
LEMMA StepImplements ==
  IInv /\ IInv' /\ [Next]_vars => [Board!Next]_([m \in Id |-> LifecycleOf(m)])
  <1> SUFFICES ASSUME IInv, IInv', [Next]_vars
               PROVE  [Board!Next]_([m \in Id |-> LifecycleOf(m)])
    OBVIOUS
  <1>1. CASE \E a \in Agent : FileTask(a) \/ \E id \in Id : TaskEdit(a, id)
    BY <1>1, FileImplements, EditImplements
  <1>2. ASSUME UNCHANGED <<rows, state, status, superseded_by, matter>>
        PROVE  UNCHANGED [m \in Id |-> LifecycleOf(m)]
    BY <1>2 DEF LifecycleOf, HeadOfMatter, IsHead, Rows
  <1>3. ASSUME NEW j \in Judge, TaskJudge(j)
        PROVE  [Board!Next]_([m \in Id |-> LifecycleOf(m)])
    <2>1. CASE JudgeWrite(j)
      BY <2>1, JudgeImplements
    <2>2. CASE JudgeDies(j) \/ \E id \in Id : JudgeRead(j, id)
      BY <2>2, <1>2 DEF JudgeDies, JudgeRead
    <2>3. QED
      BY <1>3, <2>1, <2>2 DEF TaskJudge
  <1>4. CASE \E id \in Id : DeskJudges(id)
    BY <1>4, DeskImplements
  <1>5. CASE UNCHANGED vars
    BY <1>5, <1>2 DEF vars
  <1>6. QED
    BY <1>1, <1>3, <1>4, <1>5 DEF Next

(* An empty table is a docket nobody filed on. *)
LEMMA InitImplements == Init => Board!Init
  BY DEF Init, Board!Init, LifecycleOf, Rows

(* The table implements the docket its readers were promised: a matter is
   filed once, decided once, closed once, and never comes back. *)
THEOREM Refinement == Spec => ImplementsMatters
  <1>1. Spec => []IInv
    BY Invariance
  <1>2. QED
    BY <1>1, InitImplements, StepImplements, PTL DEF Spec, ImplementsMatters, Board!Spec

-----------------------------------------------------------------------------
(* The desk over the docket. *)

(* What the desk adds to the docket names rows the docket holds. *)
DeskRows == tied \subseteq Rows /\ away \subseteq Rows

(* A rotation matter is filed by the CLI, which the desk never judges, and an
   edit keeps the status of what it edits. *)
TiedLive == \A i \in Rows : Tied(i) => status[i] = "live"

(* While no rotation matter was moved none is off the secret's shelf. *)
Home == ~relocated => away = {}

(* Two syncs under way are an overlap. *)
Alone == ~overlapped => \A j, k \in Judge : watching[j].busy /\ watching[k].busy => j = k

(* A sync that found nothing is still right when it files. *)
StillNone ==
  ~relocated /\ ~overlapped =>
    \A j \in Judge : watching[j].busy /\ watching[j].found = None => RotationMatters = {}

OneRotation == ~relocated /\ ~overlapped => \A a, b \in RotationMatters : a = b

DeskTypes ==
  /\ relocated \in BOOLEAN /\ overlapped \in BOOLEAN
  /\ watching \in [Judge -> [busy : BOOLEAN, found : Id \cup {None}]]

DInv ==
  /\ DeskTypes /\ DeskRows /\ TiedLive /\ Home /\ Alone
  /\ StillNone /\ OneRotation

-----------------------------------------------------------------------------
(* What the search reads of a row. *)
LEMMA WhatSyncSees ==
  \A i : i \in RotationMatters <=>
    /\ i \in Rows /\ superseded_by[i] = None
    /\ state[i] = "open" /\ status[i] = "live"
    /\ i \notin away /\ matter[i] \in tied
  BY DEF RotationMatters, TaskList, Timeline, Listed, IsHead, Tied

(* The same after a step. *)
LEMMA WhatSyncSeesNext ==
  \A i : i \in RotationMatters' <=>
    /\ i \in Rows' /\ superseded_by'[i] = None
    /\ state'[i] = "open" /\ status'[i] = "live"
    /\ i \notin away' /\ matter'[i] \in tied'
  BY DEF RotationMatters, TaskList, Timeline, Listed, IsHead, Tied

(* A verb of the desk does to the rows what a step of the docket does. *)
LEMMA DeskStepsDocket == IInv /\ [DeskNext]_allvars => [Next]_vars
  <1> SUFFICES ASSUME IInv, [DeskNext]_allvars PROVE [Next]_vars
    OBVIOUS
  <1>1. ASSUME NEW a \in Agent, TaskFileCmd(a) PROVE Next
    BY <1>1 DEF TaskFileCmd, Next
  <1>2. ASSUME NEW a \in Agent, NEW id \in Id, TaskGradeCmd(a, id) PROVE Next
    BY <1>2 DEF TaskGradeCmd, Next
  <1>3. Cli \in Agent
    BY CliAssumption
  <1>4. ASSUME NEW id, SupersedeTask(Cli, id) PROVE Next
    <2>1. id \in Id
      BY <1>4, RowsAreIds DEF IInv, SupersedeTask, IsHeadOf
    <2>2. QED
      BY <1>3, <1>4, <2>1 DEF Next, TaskEdit
  <1>5. ASSUME NEW j \in Judge, TaskJudgeCmd(j) PROVE Next
    BY <1>5 DEF TaskJudgeCmd, Next
  <1>6. ASSUME NEW j \in Judge, SyncRotationMatter(j) PROVE [Next]_vars
    BY <1>3, <1>4, <1>6 DEF SyncRotationMatter, Next
  <1>7. ASSUME NEW id \in Id, JudgeTask(id) PROVE Next
    BY <1>7 DEF JudgeTask, Next
  <1>8. QED
    BY <1>1, <1>2, <1>4, <1>5, <1>6, <1>7
    DEF DeskNext, MoveTaskCmd, SyncRead, allvars

(* The docket's inductive invariant holds under the desk. *)
THEOREM DeskInvariance == DeskSpec => []IInv
  <1>1. DeskInit => IInv
    BY InitIInv DEF DeskInit
  <1>2. IInv /\ [DeskNext]_allvars => IInv'
    BY DeskStepsDocket, NextIInv
  <1>3. QED
    BY <1>1, <1>2, PTL DEF DeskSpec

(* The desk's verbs, kum task, kum move, kum approve and a rotation's sync
   among them, are behaviours of the docket. *)
THEOREM DeskIsADocket == DeskSpec => Spec
  <1>1. DeskInit => Init
    BY DEF DeskInit
  <1>2. QED
    BY <1>1, DeskInvariance, DeskStepsDocket, PTL DEF DeskSpec, Spec

(* So under the desk's verbs, and the sync of a rotation matter, matters are
   still filed once, decided once and closed once. *)
THEOREM DeskImplementsMatters == DeskSpec => ImplementsMatters
  BY DeskIsADocket, Refinement, PTL

-----------------------------------------------------------------------------
(* Sets of which no two members differ. *)
LEMMA AtMostOne ==
  ASSUME NEW S, \A a, b \in S : a = b
  PROVE  Cardinality(S) <= 1
  <1>1. CASE S = {}
    BY <1>1, FS_EmptySet
  <1>2. ASSUME NEW x \in S PROVE Cardinality(S) <= 1
    <2>1. S = {x}
      BY <1>2
    <2>2. Cardinality({x}) = 1
      BY FS_Singleton
    <2>3. QED
      BY <2>1, <2>2
  <1>3. QED
    BY <1>1, <1>2

(* A matter that is still open has one place, the timeline or the inbox, and
   what the inbox shows can be reviewed (`kum tasks`, `kum roadmap`,
   `kum inbox`, `kum review`). *)
THEOREM OnePlaceHolds == DeskSpec => []OpenMattersHaveOnePlace
  <1>1. IInv => OpenMattersHaveOnePlace
    <2> SUFFICES ASSUME IInv, NEW m \in {matter[i] : i \in Rows}
                 PROVE  LET open  == {i \in Rows : matter[i] = m /\ IsHead(i) /\ state[i] = "open"}
                            shown == {i \in (UNION Roadmap) \cup Inbox : matter[i] = m}
                        IN  /\ Cardinality(shown) <= 1
                            /\ Timeline \cap Inbox = {}
                            /\ \A i \in open : status[i] # "rejected" => i \in shown
                            /\ \A i \in shown \cap Inbox : Reviewable(i)
      BY DEF OpenMattersHaveOnePlace
    <2> DEFINE open  == {i \in Rows : matter[i] = m /\ IsHead(i) /\ state[i] = "open"}
               shown == {i \in (UNION Roadmap) \cup Inbox : matter[i] = m}
    <2>1. UNION Roadmap = Timeline
      BY DEF Roadmap, TaskList
    <2>2. \A i \in shown : i \in Rows /\ IsHead(i) /\ matter[i] = m
      BY <2>1 DEF Timeline, Inbox, Listed
    <2>3. \A a, b \in shown : a = b
      BY <2>2, HeadReachesItself DEF IInv, OneHead
    <2>4. Cardinality(shown) <= 1
      BY <2>3, AtMostOne
    <2>5. Timeline \cap Inbox = {}
      BY DEF Timeline, Inbox, Listed
    <2>6. ASSUME NEW i \in open, status[i] # "rejected"
          PROVE  i \in shown
      <3>1. status[i] \in {"live", "pending"}
        BY <2>6, RowsAreIds DEF IInv, TypeOK, Status
      <3>2. i \in Timeline \cup Inbox
        BY <3>1 DEF Timeline, Inbox, Listed
      <3>3. QED
        BY <2>1, <3>2
    <2>7. \A i \in shown \cap Inbox : Reviewable(i)
      BY DEF Inbox, Reviewable
    <2>8. QED
      BY <2>4, <2>5, <2>6, <2>7
  <1>2. QED
    BY <1>1, DeskInvariance, PTL

-----------------------------------------------------------------------------
(* The rotation matter. *)

LEMMA InitDInv == DeskInit => DInv
  <1> SUFFICES ASSUME DeskInit PROVE DInv
    OBVIOUS
  <1>1. Rows = {} /\ RotationMatters = {}
    BY DEF DeskInit, Init, Rows, RotationMatters, TaskList, Timeline
  <1>2. DeskTypes /\ Alone
    BY DEF DeskInit, DeskTypes, Alone, Idle
  <1>3. DeskRows /\ TiedLive /\ Home /\ StillNone /\ OneRotation
    BY <1>1 DEF DeskInit, DeskRows, TiedLive, Home, StillNone, OneRotation
  <1>4. QED
    BY <1>2, <1>3 DEF DInv

(* A row that is inserted: the rest of the table stays. *)
LEMMA Inserted ==
  ASSUME IInv, NEW a, NEW st, NEW about, Insert(a, st, about)
  PROVE  /\ rows + 1 \in Id /\ rows + 1 \notin Rows /\ Rows' = Rows \cup {rows + 1}
         /\ \A i \in Rows : matter'[i] = matter[i] /\ status'[i] = status[i]
         /\ matter'[rows + 1] = about /\ status'[rows + 1] = st
  BY RowsAreIds, MaxRowsAssumption DEF Insert, IInv, TypeOK, Rows, Id

(* A filing by the CLI or an agent, tied to the secret or not. *)
LEMMA FileRotation ==
  ASSUME IInv, DeskRows, TiedLive, NEW a \in Agent, FileTask(a),
         \/ tied' = tied
         \/ tied' = tied \cup {rows + 1} /\ a = Cli,
         away' = away
  PROVE  /\ DeskRows' /\ TiedLive'
         /\ tied' = tied => RotationMatters' = RotationMatters
         /\ RotationMatters' \subseteq RotationMatters \cup {rows + 1}
  <1> DEFINE id == rows + 1
  <1>1. /\ id \in Id /\ id \notin Rows /\ Rows' = Rows \cup {id}
        /\ \A i \in Rows : matter'[i] = matter[i] /\ status'[i] = status[i]
        /\ matter'[id] = id /\ status'[id] = TaskWriteStatus(a)
    BY Inserted DEF FileTask
  <1>2. superseded_by' = superseded_by /\ state' = state
    BY DEF FileTask
  <1>3. \A i \in Rows : matter[i] \in Rows /\ matter[i] # id
    BY <1>1 DEF IInv, TypeOK
  <1>4. DeskRows'
    BY <1>1 DEF DeskRows
  <1>5. TiedLive'
    <2>1. \A i \in Rows : matter'[i] \in tied' => status'[i] = "live"
      BY <1>1, <1>3 DEF TiedLive, Tied
    <2>2. matter'[id] \in tied' => status'[id] = "live"
      BY <1>1, CliAssumption DEF DeskRows, TaskWriteStatus
    <2>3. QED
      BY <1>1, <2>1, <2>2 DEF TiedLive, Tied
  <1>6. \A i \in Rows : i \in RotationMatters' <=> i \in RotationMatters
    BY <1>1, <1>2, <1>3, WhatSyncSees, WhatSyncSeesNext
  <1>7. tied' = tied => id \notin RotationMatters'
    BY <1>1, WhatSyncSeesNext DEF DeskRows
  <1>8. RotationMatters \subseteq Rows /\ RotationMatters' \subseteq Rows'
    BY WhatSyncSees, WhatSyncSeesNext
  <1>9. QED
    BY <1>1, <1>4, <1>5, <1>6, <1>7, <1>8

(* An edit puts the new version in the place of the one it edits. *)
LEMMA EditRotation ==
  ASSUME IInv, DeskRows, TiedLive, NEW a \in Agent, NEW given, SupersedeTask(a, given),
         tied' = tied, away' \subseteq away \cup {rows + 1}
  PROVE  /\ DeskRows' /\ TiedLive'
         /\ away = {} /\ away' = {} =>
              /\ RotationMatters = {} => RotationMatters' = {}
              /\ (\A x, y \in RotationMatters : x = y) =>
                   \A x, y \in RotationMatters' : x = y
  <1> DEFINE id == rows + 1
  <1>1. PICK head \in Rows :
          /\ IsHead(head) /\ state[head] = "open"
          /\ Insert(a, status[head], matter[head])
          /\ superseded_by' = [superseded_by EXCEPT ![head] = id]
          /\ state' = state
    BY DEF SupersedeTask, RegradeStatus, Editable, IsHeadOf
  <1>2. /\ id \in Id /\ id \notin Rows /\ Rows' = Rows \cup {id}
        /\ \A i \in Rows : matter'[i] = matter[i] /\ status'[i] = status[i]
        /\ matter'[id] = matter[head] /\ status'[id] = status[head]
    BY <1>1, Inserted
  <1>3. DeskRows'
    BY <1>2 DEF DeskRows
  <1>4. TiedLive'
    BY <1>1, <1>2 DEF TiedLive, Tied
  <1>5. /\ superseded_by'[head] # None
        /\ \A i \in Rows \ {head} : superseded_by'[i] = superseded_by[i]
    BY <1>1, <1>2, RowsAreIds, NoneIsNoId DEF IInv, TypeOK
  <1>6. \A i \in Rows : i \in RotationMatters' => i # head /\ (away' = away => i \in RotationMatters)
    BY <1>1, <1>2, <1>5, WhatSyncSees, WhatSyncSeesNext
  <1>7. id \in RotationMatters' /\ away = {} => head \in RotationMatters
    BY <1>1, <1>2, WhatSyncSees, WhatSyncSeesNext DEF IsHead, TiedLive, Tied
  <1>8. RotationMatters' \subseteq Rows \cup {id}
    BY <1>2, WhatSyncSeesNext
  <1>9. ASSUME away = {}, away' = {}, RotationMatters = {}
        PROVE  RotationMatters' = {}
    BY <1>6, <1>7, <1>8, <1>9
  <1>10. ASSUME away = {}, away' = {}, \A x, y \in RotationMatters : x = y,
                NEW x \in RotationMatters', NEW y \in RotationMatters'
         PROVE  x = y
    BY <1>6, <1>7, <1>8, <1>10
  <1>11. QED
    BY <1>3, <1>4, <1>9, <1>10

(* A judgment, by the owner or at the desk, adds no rotation matter. *)
LEMMA JudgeRotation ==
  ASSUME IInv, DeskRows, TiedLive,
         (\E j \in Judge : TaskJudge(j)) \/ (\E id \in Id : DeskJudges(id)) \/ UNCHANGED vars,
         tied' = tied, away' = away
  PROVE  DeskRows' /\ TiedLive' /\ RotationMatters' \subseteq RotationMatters
  <1>1. UNCHANGED <<rows, superseded_by, matter>>
    BY DEF TaskJudge, JudgeRead, JudgeWrite, JudgeDies, DeskJudges, SetStatus, vars
  <1>2. Rows' = Rows /\ Rows \subseteq Id
    BY <1>1, RowsAreIds DEF Rows, IInv
  <1>3. \A i \in Rows : state'[i] = "open" => state[i] = "open"
    <2>1. CASE state' = state
      BY <2>1
    <2>2. ASSUME NEW j \in Judge, JudgeWrite(j)
          PROVE  \A i \in Rows : state'[i] = "open" => state[i] = "open"
      BY <2>2, <1>2 DEF JudgeWrite, IInv, TypeOK
    <2>3. QED
      BY <2>1, <2>2 DEF TaskJudge, JudgeRead, JudgeDies, DeskJudges, SetStatus, vars
  <1>4. \A i \in Rows : status'[i] = status[i] \/ status[i] = "pending"
    <2>1. CASE status' = status
      BY <2>1
    <2>2. ASSUME NEW id \in Id, DeskJudges(id)
          PROVE  \A i \in Rows : status'[i] = status[i] \/ status[i] = "pending"
      BY <2>2, <1>2 DEF DeskJudges, SetStatus, IInv, TypeOK
    <2>3. QED
      BY <2>1, <2>2 DEF TaskJudge, JudgeRead, JudgeWrite, JudgeDies, vars
  <1>5. DeskRows' /\ TiedLive'
    BY <1>1, <1>2, <1>4 DEF DeskRows, TiedLive, Tied
  <1>6. \A i \in RotationMatters' : i \in RotationMatters
    BY <1>1, <1>2, <1>3, <1>4, WhatSyncSees, WhatSyncSeesNext DEF TiedLive, Tied
  <1>7. QED
    BY <1>5, <1>6

(* A verb other than a sync: it adds no rotation matter to none, and where
   there was one it leaves one. *)
OneStays ==
  /\ RotationMatters = {} => RotationMatters' = {}
  /\ (\A x, y \in RotationMatters : x = y) => \A x, y \in RotationMatters' : x = y

LEMMA OthersDInv ==
  ASSUME DInv, DeskRows', TiedLive', away = {} /\ away' = {} => OneStays,
         UNCHANGED <<watching, overlapped>>, relocated' \in BOOLEAN,
         ~relocated' => ~relocated /\ away' = away
  PROVE  DInv'
  <1>1. DeskTypes' /\ Home' /\ Alone'
    BY DEF DInv, DeskTypes, Home, Alone
  <1>2. ~relocated' /\ ~overlapped' => OneStays /\ ~relocated /\ ~overlapped
    BY DEF DInv, Home
  <1>3. StillNone' /\ OneRotation'
    BY <1>2 DEF DInv, StillNone, OneRotation, OneStays
  <1>4. QED
    BY <1>1, <1>3 DEF DInv

(* A version of a rotation matter stands where the one before it stood. *)
LEMMA StaysPutAway ==
  ASSUME NEW id, StaysPut(id), DeskRows
  PROVE  away' \subseteq away \cup {rows + 1} /\ (away = {} => away' = {})
  BY DEF StaysPut, DeskRows

(* A sync begins: with what the search says now. *)
LEMMA SyncReadDInv ==
  ASSUME IInv, DInv, NEW j \in Judge, SyncRead(j)
  PROVE  DInv'
  <1>1. PICK i \in Rows \cup {None} :
          /\ OpenRotationMatter(i)
          /\ watching' = [watching EXCEPT ![j] = [busy |-> TRUE, found |-> i]]
    BY DEF SyncRead
  <1>2. /\ ~watching[j].busy /\ UNCHANGED <<vars, tied, away, relocated>>
        /\ overlapped' = (overlapped \/ \E k \in Judge \ {j} : watching[k].busy)
    BY DEF SyncRead
  <1>3. DeskRows' /\ TiedLive' /\ Home' /\ RotationMatters' = RotationMatters
    BY <1>2 DEF DInv, DeskRows, TiedLive, Home, Rows, Tied, vars, RotationMatters, TaskList,
                Timeline, Listed, IsHead
  <1>4. i \in Id \cup {None}
    BY RowsAreIds DEF IInv
  <1>5. DeskTypes'
    BY <1>1, <1>2, <1>4 DEF DInv, DeskTypes
  <1>6. Alone'
    BY <1>1, <1>2 DEF DInv, DeskTypes, Alone
  <1>7. i = None => RotationMatters = {}
    BY <1>1, NoneIsNoId, RowsAreIds, WhatSyncSees DEF OpenRotationMatter, IInv
  <1>8. StillNone' /\ OneRotation'
    BY <1>1, <1>2, <1>3, <1>7 DEF DInv, DeskTypes, StillNone, OneRotation
  <1>9. QED
    BY <1>3, <1>5, <1>6, <1>8 DEF DInv

(* A sync acts on what it found: it files only where there is still none, and
   is then the only one under way. *)
LEMMA SyncDInv ==
  ASSUME IInv, DInv, NEW j \in Judge, SyncRotationMatter(j)
  PROVE  DInv'
  <1> DEFINE i == watching[j].found
  <1>1. /\ watching[j].busy /\ watching' = [watching EXCEPT ![j] = Idle]
        /\ UNCHANGED <<relocated, overlapped>>
    BY DEF SyncRotationMatter
  <1>2. DeskTypes' /\ Alone'
    BY <1>1 DEF DInv, DeskTypes, Alone, Idle
  <1>3. \A k \in Judge : watching'[k].busy => k # j /\ watching'[k] = watching[k]
    BY <1>1 DEF DInv, DeskTypes, Idle
  <1>4. ~overlapped => \A k \in Judge : ~watching'[k].busy
    BY <1>1, <1>3 DEF DInv, Alone
  <1>5. StillNone'
    BY <1>1, <1>4 DEF StillNone
  <1>6. DeskRows' /\ TiedLive' /\ Home' /\ OneRotation'
    <2>1. CASE /\ i = None /\ FileTask(Cli)
               /\ tied' = tied \cup {rows + 1} /\ away' = away
      <3>1. DeskRows' /\ TiedLive' /\ RotationMatters' \subseteq RotationMatters \cup {rows + 1}
        BY <2>1, CliAssumption, FileRotation DEF DInv
      <3>2. ~relocated /\ ~overlapped => RotationMatters = {}
        BY <1>1, <2>1 DEF DInv, StillNone
      <3>3. QED
        BY <1>1, <2>1, <3>1, <3>2 DEF DInv, Home, OneRotation
    <2>2. CASE SupersedeTask(Cli, i) /\ StaysPut(i) /\ tied' = tied
      <3>1. away' \subseteq away \cup {rows + 1} /\ (away = {} => away' = {})
        BY <2>2, StaysPutAway DEF DInv
      <3>2. DeskRows' /\ TiedLive' /\ (away = {} /\ away' = {} => OneStays)
        BY <2>2, <3>1, CliAssumption, EditRotation DEF DInv, OneStays
      <3>3. QED
        BY <1>1, <3>1, <3>2 DEF DInv, Home, OneRotation, OneStays
    <2>3. CASE UNCHANGED <<vars, tied, away>>
      <3>1. DeskRows' /\ TiedLive' /\ RotationMatters' \subseteq RotationMatters
        BY <2>3, JudgeRotation DEF DInv
      <3>2. QED
        BY <1>1, <2>3, <3>1 DEF DInv, Home, OneRotation
    <2>4. QED
      BY <2>1, <2>2, <2>3 DEF SyncRotationMatter
  <1>7. QED
    BY <1>2, <1>5, <1>6 DEF DInv

LEMMA NextDInv == IInv /\ DInv /\ [DeskNext]_allvars => DInv'
  <1> SUFFICES ASSUME IInv, DInv, [DeskNext]_allvars PROVE DInv'
    OBVIOUS
  <1> USE DEF OneStays
  <1>0. DeskRows /\ TiedLive /\ relocated \in BOOLEAN /\ Cli \in Agent
    BY CliAssumption DEF DInv, DeskTypes
  <1>1. ASSUME NEW a \in Agent, TaskFileCmd(a) PROVE DInv'
    <2>1. FileTask(a) /\ UNCHANGED deskvars
      BY <1>1 DEF TaskFileCmd
    <2>2. DeskRows' /\ TiedLive' /\ OneStays
      BY <1>0, <2>1, FileRotation DEF deskvars
    <2>3. QED
      BY <1>0, <2>1, <2>2, OthersDInv DEF deskvars
  <1>2. ASSUME NEW a \in Agent, NEW id \in Id, TaskGradeCmd(a, id) PROVE DInv'
    <2>1. /\ SupersedeTask(a, id) /\ StaysPut(id)
          /\ UNCHANGED <<tied, watching, relocated, overlapped>>
      BY <1>2 DEF TaskGradeCmd, TaskEdit
    <2>2. away' \subseteq away \cup {rows + 1} /\ (away = {} => away' = {})
      BY <1>0, <2>1, StaysPutAway
    <2>3. DeskRows' /\ TiedLive' /\ (away = {} /\ away' = {} => OneStays)
      BY <1>0, <2>1, <2>2, EditRotation
    <2>4. ~relocated => away' = away
      BY <2>2 DEF DInv, Home
    <2>5. QED
      BY <1>0, <2>1, <2>3, <2>4, OthersDInv
  <1>3. ASSUME NEW id \in Id, NEW off \in BOOLEAN, MoveTaskCmd(id, off) PROVE DInv'
    <2>1. /\ SupersedeTask(Cli, id) /\ away' \subseteq away \cup {rows + 1} /\ relocated' = TRUE
          /\ UNCHANGED <<tied, watching, overlapped>>
      BY <1>3 DEF MoveTaskCmd
    <2>2. DeskRows' /\ TiedLive' /\ (away = {} /\ away' = {} => OneStays)
      BY <1>0, <2>1, EditRotation
    <2>3. QED
      BY <2>1, <2>2, OthersDInv
  <1>4. ASSUME UNCHANGED deskvars,
               (\E j \in Judge : TaskJudge(j)) \/ (\E id \in Id : DeskJudges(id)) \/ UNCHANGED vars
        PROVE  DInv'
    <2>1. DeskRows' /\ TiedLive' /\ RotationMatters' \subseteq RotationMatters
      BY <1>0, <1>4, JudgeRotation DEF deskvars
    <2>2. QED
      BY <1>0, <1>4, <2>1, OthersDInv DEF deskvars
  <1>5. ASSUME NEW j \in Judge, TaskJudgeCmd(j) \/ SyncRead(j) \/ SyncRotationMatter(j)
        PROVE  DInv'
    BY <1>4, <1>5, SyncReadDInv, SyncDInv DEF TaskJudgeCmd
  <1>6. ASSUME NEW id \in Id, JudgeTask(id) PROVE DInv'
    BY <1>4, <1>6 DEF JudgeTask
  <1>7. QED
    BY <1>1, <1>2, <1>3, <1>4, <1>5, <1>6 DEF DeskNext, allvars

(* A secret has one open rotation matter however its expiry is set, its
   matter edited and judged, unless two syncs overlapped or the matter was
   moved off the secret's shelf (sync_rotation_matter, open_rotation_matter). *)
THEOREM OneRotationMatterHolds == DeskSpec => []OneRotationMatter
  <1>1. DeskSpec => []DInv
    BY DeskInvariance, InitDInv, NextDInv, PTL DEF DeskSpec
  <1>2. DInv => OneRotationMatter
    BY AtMostOne DEF DInv, OneRotation, OneRotationMatter
  <1>3. QED
    BY <1>1, <1>2, PTL

-----------------------------------------------------------------------------
(* What the history walks collect. *)

(* The versions of a matter in the order they were written: each leads to the
   next. *)
InLine ==
  \A i \in Rows :
    /\ superseded_by[i] # None =>
         matter[superseded_by[i]] = matter[i] /\ i < superseded_by[i]
    /\ \A k \in Rows : matter[k] = matter[i] /\ i < k =>
         superseded_by[i] # None /\ superseded_by[i] <= k

LEMMA RowsAreNumbers == ASSUME TypeOK PROVE rows \in Nat /\ \A i \in Rows : i \in Nat /\ i <= rows
  BY MaxRowsAssumption DEF TypeOK, Rows

LEMMA FileInLine == ASSUME IInv, InLine, NEW a \in Agent, FileTask(a) PROVE InLine'
  <1> DEFINE id == rows + 1
  <1>1. /\ Rows' = Rows \cup {id} /\ id \notin Rows
        /\ \A i \in Rows : matter'[i] = matter[i] /\ superseded_by'[i] = superseded_by[i]
        /\ matter'[id] = id /\ superseded_by'[id] = None
    <2>1. /\ TaskWriteStatus(a) \in {"live", "pending", "rejected"}
          /\ Insert(a, TaskWriteStatus(a), id)
          /\ superseded_by' = superseded_by /\ UNCHANGED <<state, judging, approved>>
      BY DEF FileTask, TaskWriteStatus
    <2>2. None \in Rows \cup {None} /\ id \in Rows \cup {rows + 1} /\ \A i \in Rows : i # None
      BY RowsAreIds, NoneIsNoId DEF IInv
    <2>3. QED
      BY <2>1, <2>2, InsertTypes
  <1>2. \A i \in Rows : matter[i] \in Rows /\ superseded_by[i] \in Rows \cup {None}
    BY DEF IInv, TypeOK
  <1>3. ASSUME NEW i \in Rows', NEW k \in Rows', matter'[k] = matter'[i], i < k
        PROVE  i \in Rows /\ k \in Rows
    <2>1. ~(id < id)
      BY RowsAreNumbers DEF IInv
    <2>2. QED
      BY <1>1, <1>2, <1>3, <2>1
  <1>4. QED
    BY <1>1, <1>2, <1>3 DEF InLine

LEMMA EditInLine ==
  ASSUME IInv, InLine, NEW a \in Agent, NEW given \in Id, TaskEdit(a, given)
  PROVE  InLine'
  <1> DEFINE id == rows + 1
  <1>1. PICK head \in Rows :
          /\ IsHeadOf(given, head) /\ Editable(head)
          /\ Insert(a, status[head], matter[head])
          /\ superseded_by' = [superseded_by EXCEPT ![head] = id]
          /\ UNCHANGED <<state, judging, approved>>
    BY DEF TaskEdit, SupersedeTask, RegradeStatus
  <1>2. /\ status[head] \in {"live", "pending", "rejected"}
        /\ matter[head] \in Rows /\ superseded_by[head] = None /\ head # None
    BY <1>1, RowsAreIds, NoneIsNoId DEF IInv, TypeOK, Status, IsHeadOf, IsHead
  <1>3. /\ id \in Id /\ id \notin Rows /\ Rows' = Rows \cup {id}
        /\ \A i \in Rows : /\ matter'[i] = matter[i]
                           /\ superseded_by'[i] = IF i = head THEN id ELSE superseded_by[i]
        /\ matter'[id] = matter[head] /\ superseded_by'[id] = None
    <2>1. /\ head \in Rows \cup {None} /\ matter[head] \in Rows \cup {rows + 1}
          /\ superseded_by' = IF head = None THEN superseded_by
                              ELSE [superseded_by EXCEPT ![head] = rows + 1]
      BY <1>1, <1>2
    <2>2. Insert(a, status[head], matter[head]) /\ UNCHANGED <<state, judging, approved>>
      BY <1>1
    <2>3. /\ rows + 1 \in Id /\ rows + 1 \notin Rows /\ Rows \subseteq Id
          /\ Rows' = Rows \cup {rows + 1}
          /\ \A i \in Rows : /\ matter'[i] = matter[i] /\ status'[i] = status[i]
                             /\ agent_id'[i] = agent_id[i]
                             /\ superseded_by'[i] = IF i = head THEN rows + 1
                                                    ELSE superseded_by[i]
          /\ matter'[rows + 1] = matter[head] /\ status'[rows + 1] = status[head]
          /\ agent_id'[rows + 1] = a /\ superseded_by'[rows + 1] = None
          /\ state[rows + 1] = "open"
          /\ TypeOK'
          /\ HeldRows'
      BY <1>2, <2>1, <2>2, InsertTypes, Zenon
    <2>4. QED
      BY <2>3
  <1>4. id # None /\ id \in Int /\ \A i \in Rows : i \in Int /\ i < id
    BY <1>3, NoneIsNoId, RowsAreNumbers DEF IInv
  <1>5. \A i \in Rows : superseded_by[i] \in Rows \cup {None}
    BY DEF IInv, TypeOK
  <1>6. ASSUME NEW i \in Rows, matter[i] = matter[head], i # head
        PROVE  superseded_by[i] # None
    <2>1. ASSUME superseded_by[i] = None PROVE FALSE
      <3>1. IsHead(i) /\ IsHead(head)
        BY <1>2, <2>1 DEF IsHead
      <3>2. IsHeadOf(i, head)
        BY <1>6, <3>1 DEF IInv, OneHead
      <3>3. QED
        BY <1>6, <3>1, <3>2, HeadReachesItself
    <2>2. QED
      BY <2>1
  <1>7. ASSUME NEW i \in Rows'
        PROVE  superseded_by'[i] # None =>
                 matter'[superseded_by'[i]] = matter'[i] /\ i < superseded_by'[i]
    <2>1. CASE i = id
      BY <1>3, <2>1
    <2>2. CASE i = head
      BY <1>2, <1>3, <1>4, <2>2
    <2>3. CASE i \in Rows /\ i # head
      BY <1>3, <1>5, <2>3 DEF InLine
    <2>4. QED
      BY <1>3, <2>1, <2>2, <2>3
  <1>8. ASSUME NEW i \in Rows', NEW k \in Rows', matter'[k] = matter'[i], i < k
        PROVE  superseded_by'[i] # None /\ superseded_by'[i] <= k
    <2>1. i \in Rows
      <3>1. ASSUME i = id PROVE FALSE
        <4>1. k <= id
          BY <1>3, <1>4
        <4>2. k \in Int
          BY <1>3, <1>4
        <4>3. QED
          BY <1>4, <1>8, <3>1, <4>1, <4>2
      <3>2. QED
        BY <1>3, <3>1
    <2>2. CASE i = head
      <3>1. k \notin Rows
        BY <1>2, <1>3, <1>8, <2>2 DEF InLine
      <3>2. QED
        BY <1>3, <1>4, <2>2, <3>1
    <2>3. CASE i # head /\ k \in Rows
      BY <1>3, <1>8, <2>1, <2>3 DEF InLine
    <2>4. CASE i # head /\ k = id
      <3>1. superseded_by[i] # None
        BY <1>3, <1>6, <1>8, <2>1, <2>4
      <3>2. superseded_by[i] \in Rows
        BY <1>5, <2>1, <3>1
      <3>3. superseded_by[i] <= id
        BY <1>4, <3>2
      <3>4. QED
        BY <1>3, <2>1, <2>4, <3>1, <3>3
    <2>5. QED
      BY <1>3, <2>2, <2>3, <2>4
  <1>9. QED
    BY <1>7, <1>8 DEF InLine

LEMMA NextInLine == IInv /\ InLine /\ [Next]_vars => InLine'
  <1> SUFFICES ASSUME IInv, InLine, [Next]_vars PROVE InLine'
    OBVIOUS
  <1>1. CASE UNCHANGED <<rows, superseded_by, matter>>
    BY <1>1 DEF InLine, Rows
  <1>2. QED
    BY <1>1, FileInLine, EditInLine
    DEF Next, TaskJudge, JudgeRead, JudgeWrite, JudgeDies, DeskJudges, SetStatus, vars

(* Under the desk's verbs the versions of a matter stay in line
   (supersede_task). *)
THEOREM DeskInLine == DeskSpec => [](IInv /\ InLine)
  <1>1. DeskInit => InLine
    BY DEF DeskInit, Init, InLine, Rows
  <1>2. IInv /\ InLine /\ [DeskNext]_allvars => InLine'
    BY DeskStepsDocket, NextInLine
  <1>3. DeskSpec => []InLine
    BY <1>1, <1>2, DeskInvariance, PTL DEF DeskSpec
  <1>4. QED
    BY <1>3, DeskInvariance, PTL

-----------------------------------------------------------------------------
(* A walk tells a set of rows: each once, in the order they were written. *)
Tells(s, X) ==
  /\ s \in Seq(Rows)
  /\ {s[n] : n \in 1..Len(s)} = X
  /\ \A m, n \in 1..Len(s) : m < n => s[m] < s[n]

LEMMA TellsNothing == Tells(<<>>, {})
  <1>1. <<>> \in Seq(Rows) /\ Len(<<>>) = 0
    OBVIOUS
  <1>2. 1..0 = {}
    OBVIOUS
  <1>3. QED
    BY <1>1, <1>2 DEF Tells

(* A sequence of one row. *)
LEMMA SequenceOfOne ==
  ASSUME NEW i \in Rows
  PROVE  \E s : s = <<i>> /\ s \in Seq(Rows) /\ Len(s) = 1 /\ s[1] = i
  <1>1. \A y : DOMAIN <<y>> = {1} /\ <<y>>[1] = y /\ Len(<<y>>) = 1
    OBVIOUS
  <1>2. PICK s : s = <<i>>
    OBVIOUS
  <1>3. s \in Seq(Rows) /\ Len(s) = 1 /\ s[1] = i
    BY <1>1, <1>2
  <1>4. QED
    BY <1>2, <1>3

LEMMA TellsOne == ASSUME NEW i \in Rows PROVE Tells(<<i>>, {i})
  <1>1. PICK s : s = <<i>> /\ s \in Seq(Rows) /\ Len(s) = 1 /\ s[1] = i
    BY SequenceOfOne
  <1>2. Tells(s, {i})
    BY <1>1 DEF Tells
  <1>3. QED
    BY <1>1, <1>2

LEMMA TellsBoth ==
  ASSUME NEW s, NEW t, NEW X, NEW Y, Tells(s, X), Tells(t, Y),
         \A x \in X, y \in Y : x < y
  PROVE  Tells(s \o t, X \cup Y)
  <1> DEFINE h == s \o t
  <1>1. s \in Seq(Rows) /\ t \in Seq(Rows)
    BY DEF Tells
  <1>2. /\ h \in Seq(Rows) /\ Len(h) = Len(s) + Len(t) /\ Len(s) \in Nat /\ Len(t) \in Nat
        /\ \A n \in 1..Len(s) : h[n] = s[n]
        /\ \A n \in 1..Len(t) : h[Len(s) + n] = t[n]
    BY <1>1
  <1> HIDE DEF h
  <1>3. \A n \in 1..Len(h) : n \in 1..Len(s) \/ (n - Len(s) \in 1..Len(t) /\ h[n] = t[n - Len(s)])
    <2> SUFFICES ASSUME NEW n \in 1..Len(h), n \notin 1..Len(s)
                 PROVE  n - Len(s) \in 1..Len(t) /\ h[n] = t[n - Len(s)]
      OBVIOUS
    <2>1. n - Len(s) \in 1..Len(t) /\ Len(s) + (n - Len(s)) = n
      BY <1>2
    <2>2. QED
      BY <1>2, <2>1
  <1>4. \A n \in 1..Len(s) : s[n] \in X
    BY DEF Tells
  <1>5. \A n \in 1..Len(t) : t[n] \in Y
    BY DEF Tells
  <1>6. \A n \in 1..Len(s) : n \in 1..Len(h)
    BY <1>2
  <1>7. \A n \in 1..Len(t) : Len(s) + n \in 1..Len(h)
    BY <1>2
  <1>8. {h[n] : n \in 1..Len(h)} = X \cup Y
    <2>1. \A n \in 1..Len(h) : h[n] \in X \cup Y
      BY <1>2, <1>3, <1>4, <1>5
    <2>2. \A x \in X : \E n \in 1..Len(h) : h[n] = x
      <3> SUFFICES ASSUME NEW x \in X PROVE \E n \in 1..Len(h) : h[n] = x
        OBVIOUS
      <3>1. PICK n \in 1..Len(s) : s[n] = x
        BY DEF Tells
      <3>2. QED
        BY <1>2, <1>6, <3>1
    <2>3. \A y \in Y : \E n \in 1..Len(h) : h[n] = y
      <3> SUFFICES ASSUME NEW y \in Y PROVE \E n \in 1..Len(h) : h[n] = y
        OBVIOUS
      <3>1. PICK n \in 1..Len(t) : t[n] = y
        BY DEF Tells
      <3>2. QED
        BY <1>2, <1>7, <3>1
    <2>4. QED
      BY <2>1, <2>2, <2>3
  <1>9. ASSUME NEW m \in 1..Len(h), NEW n \in 1..Len(h), m < n PROVE h[m] < h[n]
    <2>1. CASE m \in 1..Len(s) /\ n \in 1..Len(s)
      BY <1>2, <1>9, <2>1 DEF Tells
    <2>2. CASE m \in 1..Len(s) /\ n \notin 1..Len(s)
      <3>1. h[m] \in X /\ h[n] \in Y
        BY <1>2, <1>3, <1>4, <1>5, <2>2
      <3>2. QED
        BY <3>1
    <2>3. CASE m \notin 1..Len(s)
      <3>1. n \notin 1..Len(s)
        BY <1>2, <1>9, <2>3
      <3>2. /\ m - Len(s) \in 1..Len(t) /\ n - Len(s) \in 1..Len(t)
            /\ h[m] = t[m - Len(s)] /\ h[n] = t[n - Len(s)]
        BY <1>3, <2>3, <3>1
      <3>3. m - Len(s) < n - Len(s)
        BY <1>2, <1>9
      <3>4. QED
        BY <3>2, <3>3 DEF Tells
    <2>4. QED
      BY <2>1, <2>2, <2>3
  <1>10. Tells(h, X \cup Y)
    BY <1>2, <1>8, <1>9 DEF Tells
  <1>11. QED
    BY <1>10 DEF h

-----------------------------------------------------------------------------
(* The version before is the one nearest below. *)
Same(i) == {k \in Rows : matter[k] = matter[i]}

LEMMA TheOneBefore ==
  ASSUME TypeOK, InLine, NEW i \in Rows
  PROVE  /\ Before(i) = None => \A k \in Same(i) : i <= k
         /\ Before(i) # None =>
              /\ Before(i) \in Rows /\ matter[Before(i)] = matter[i] /\ Before(i) < i
              /\ \A k \in Same(i) : k < i => k <= Before(i)
  <1> USE RowsAreNumbers
  <1>1. \A p \in Rows : superseded_by[p] = i => p < i /\ matter[p] = matter[i] /\ i # None
    BY RowsAreIds, NoneIsNoId DEF InLine
  <1>2. CASE \E p \in Rows : superseded_by[p] = i
    <2>1. PICK p \in Rows : p = Before(i) /\ superseded_by[p] = i
      BY <1>2, Zenon DEF Before
    <2>2. p < i /\ matter[p] = matter[i]
      BY <1>1, <2>1
    <2>3. ASSUME NEW k \in Same(i), k < i PROVE k <= p
      <3>1. k \in Rows /\ matter[k] = matter[i] /\ k \in Int /\ p \in Int /\ i \in Int
        BY DEF Same
      <3>2. ASSUME p < k PROVE FALSE
        <4>1. i <= k
          BY <2>1, <2>2, <3>1, <3>2 DEF InLine
        <4>2. QED
          BY <2>3, <3>1, <4>1
      <3>3. QED
        BY <3>1, <3>2
    <2>4. p # None
      BY <2>1, RowsAreIds, NoneIsNoId
    <2>5. QED
      BY <2>1, <2>2, <2>3, <2>4
  <1>3. CASE ~\E p \in Rows : superseded_by[p] = i
    <2>1. Before(i) = None
      BY <1>3, Zenon DEF Before
    <2>2. ASSUME NEW k0 \in Same(i), k0 < i PROVE FALSE
      <3> DEFINE S == {d \in Nat : \E k \in Same(i) : k < i /\ i - k = d}
                 T == {n \in Nat : \A d \in S : n < d}
      <3>1. \A k \in Rows : k \in Nat /\ k <= rows
        OBVIOUS
      <3>2. 0 \in T
        BY <3>1 DEF Same
      <3>3. ASSUME NEW n \in Nat, n \in T PROVE n + 1 \in T
        <4> SUFFICES ASSUME NEW d \in S, ~(n + 1 < d) PROVE FALSE
          OBVIOUS
        <4>1. d = n + 1
          BY <3>3
        <4>2. PICK k \in Same(i) : k < i /\ i - k = d
          OBVIOUS
        <4>3. k \in Rows /\ matter[k] = matter[i] /\ k \in Nat /\ i \in Nat
          BY <3>1 DEF Same
        <4>4. superseded_by[k] # None /\ superseded_by[k] <= i
          BY <4>2, <4>3 DEF InLine
        <4>5. /\ superseded_by[k] \in Rows /\ matter[superseded_by[k]] = matter[i]
              /\ k < superseded_by[k] /\ superseded_by[k] \in Nat
          BY <4>3, <4>4, <3>1 DEF InLine, TypeOK
        <4>6. superseded_by[k] # i
          BY <1>3, <4>3
        <4>7. superseded_by[k] < i
          BY <4>3, <4>4, <4>5, <4>6
        <4>8. i - superseded_by[k] \in S
          BY <4>3, <4>5, <4>7 DEF Same
        <4>9. i - superseded_by[k] < d
          BY <4>2, <4>3, <4>5
        <4>10. n < i - superseded_by[k]
          BY <3>3, <4>8
        <4>11. QED
          BY <4>1, <4>3, <4>5, <4>9, <4>10
      <3> HIDE DEF T
      <3>4. \A n \in Nat : n \in T
        BY <3>2, <3>3, SetInduction
      <3>5. PICK x \in Nat : x \in S
        <4>1. k0 \in Nat /\ i \in Nat /\ i - k0 \in S
          BY <2>2, <3>1 DEF Same
        <4>2. QED
          BY <4>1
      <3> HIDE DEF S
      <3>6. x \in T
        BY <3>4
      <3>7. x < x
        BY <3>5, <3>6 DEF T
      <3>8. QED
        BY <3>7
    <2>3. \A k \in Same(i) : i <= k
      <3> SUFFICES ASSUME NEW k \in Same(i) PROVE i <= k
        OBVIOUS
      <3>1. k \in Int /\ i \in Int
        BY DEF Same
      <3>2. QED
        BY <2>2, <3>1
    <2>4. QED
      BY <2>1, <2>3
  <1>4. QED
    BY <1>2, <1>3

-----------------------------------------------------------------------------
(* The two walks of `kum task history`. *)
Earlier(i) == {k \in Same(i) : k < i}
Later(i) == {k \in Same(i) : i <= k}

(* A walk back tells what came earlier, a walk on what is not earlier. *)
BacksUp(B) ==
  \A j \in Rows : B[j] = IF Before(j) = None THEN <<>> ELSE B[Before(j)] \o <<Before(j)>>

GoesOn(F) ==
  \A j \in Rows :
    F[j] = IF superseded_by[j] = None THEN <<j>> ELSE <<j>> \o F[superseded_by[j]]

LEMMA BackTells ==
  ASSUME TypeOK, InLine, NEW B, BacksUp(B)
  PROVE  \A j \in Rows : Tells(B[j], Earlier(j))
  <1> DEFINE m == [j \in Rows |-> j]
             p == [j \in Rows |-> Before(j)]
             G == {j \in Rows : Tells(B[j], Earlier(j))}
  <1> USE RowsAreNumbers
  <1>1. m \in [Rows -> 0..rows]
    OBVIOUS
  <1>2. ASSUME NEW j \in Rows, p[j] = None PROVE j \in G
    <2>1. Earlier(j) = {}
      <3>1. \A k \in Same(j) : j <= k
        BY <1>2, TheOneBefore
      <3>2. \A k \in Same(j) : ~(k < j)
        BY <3>1 DEF Same
      <3>3. QED
        BY <3>2 DEF Earlier
    <2>2. B[j] = <<>>
      BY <1>2 DEF BacksUp
    <2>3. QED
      BY <2>1, <2>2, TellsNothing
  <1>3. ASSUME NEW j \in Rows, p[j] # None
        PROVE  p[j] \in Rows /\ m[p[j]] < m[j] /\ (p[j] \in G => j \in G)
    <2>1. PICK b \in Rows : b = Before(j) /\ b = p[j]
      BY <1>3, TheOneBefore
    <2>2. /\ matter[b] = matter[j] /\ b < j
          /\ \A k \in Same(j) : k < j => k <= b
      BY <1>3, <2>1, TheOneBefore
    <2>3. Earlier(j) = Earlier(b) \cup {b}
      <3>1. b \in Earlier(j) /\ \A k \in Rows : k \in Int
        BY <2>2 DEF Earlier, Same
      <3>2. \A k \in Same(j) : k < j <=> (k < b \/ k = b)
        BY <2>2, <3>1 DEF Same
      <3>3. Same(b) = Same(j)
        BY <2>2 DEF Same
      <3>4. QED
        BY <3>1, <3>2, <3>3 DEF Earlier
    <2>4. ASSUME b \in G PROVE j \in G
      <3>1. Tells(B[b], Earlier(b)) /\ Tells(<<b>>, {b})
        BY <2>4, TellsOne
      <3>2. \A x \in Earlier(b), y \in {b} : x < y
        BY DEF Earlier
      <3>3. Tells(B[b] \o <<b>>, Earlier(b) \cup {b})
        BY <3>1, <3>2, TellsBoth
      <3>4. B[j] = B[b] \o <<b>>
        BY <1>3, <2>1 DEF BacksUp
      <3>5. QED
        BY <2>3, <3>3, <3>4
    <2>5. QED
      BY <2>1, <2>2, <2>4
  <1> HIDE DEF m, p, G
  <1>4. Rows \subseteq G
    BY <1>1, <1>2, <1>3, WalkInduction
  <1>5. QED
    BY <1>4 DEF G

LEMMA OnTells ==
  ASSUME TypeOK, InLine, NEW F, GoesOn(F)
  PROVE  \A j \in Rows : Tells(F[j], Later(j))
  <1> DEFINE m == [j \in Rows |-> rows - j]
             G == {j \in Rows : Tells(F[j], Later(j))}
  <1> USE RowsAreNumbers
  <1>1. m \in [Rows -> 0..rows]
    OBVIOUS
  <1>2. ASSUME NEW j \in Rows, superseded_by[j] = None PROVE j \in G
    <2>1. Later(j) = {j}
      <3>1. \A k \in Same(j) : ~(j < k) /\ k \in Int
        BY <1>2 DEF InLine, Same
      <3>2. \A k \in Same(j) : j <= k <=> k = j
        BY <3>1
      <3>3. QED
        BY <3>2 DEF Later, Same
    <2>2. F[j] = <<j>>
      BY <1>2 DEF GoesOn
    <2>3. QED
      BY <2>1, <2>2, TellsOne
  <1>3. ASSUME NEW j \in Rows, superseded_by[j] # None
        PROVE  superseded_by[j] \in Rows /\ m[superseded_by[j]] < m[j]
               /\ (superseded_by[j] \in G => j \in G)
    <2>1. PICK s \in Rows : s = superseded_by[j]
      BY <1>3 DEF TypeOK
    <2>2. /\ matter[s] = matter[j] /\ j < s
          /\ \A k \in Same(j) : j < k => s <= k
      BY <1>3, <2>1 DEF InLine, Same
    <2>3. Later(j) = {j} \cup Later(s)
      <3>1. \A k \in Rows : k \in Int
        OBVIOUS
      <3>2. \A k \in Same(j) : j <= k <=> (k = j \/ s <= k)
        BY <2>2, <3>1 DEF Same
      <3>3. Same(s) = Same(j) /\ j \in Same(j)
        BY <2>2 DEF Same
      <3>4. QED
        BY <3>2, <3>3 DEF Later
    <2>4. ASSUME s \in G PROVE j \in G
      <3>1. Tells(F[s], Later(s)) /\ Tells(<<j>>, {j})
        BY <2>4, TellsOne
      <3>2. \A x \in {j}, y \in Later(s) : x < y
        BY <2>2 DEF Later, Same
      <3>3. Tells(<<j>> \o F[s], {j} \cup Later(s))
        BY <3>1, <3>2, TellsBoth
      <3>4. F[j] = <<j>> \o F[s]
        BY <1>3, <2>1 DEF GoesOn
      <3>5. QED
        BY <2>3, <3>3, <3>4
    <2>5. m[s] < m[j]
      BY <2>2
    <2>6. QED
      BY <2>1, <2>4, <2>5
  <1> HIDE DEF m, G
  <1>4. Rows \subseteq G
    BY <1>1, <1>2, <1>3, WalkInduction
  <1>5. QED
    BY <1>4 DEF G

(* The two functions the walks are written as exist. *)
LEMMA WalksBack == ASSUME TypeOK, InLine PROVE \E B : B \in [Rows -> Seq(Rows)] /\ BacksUp(B)
  <1> DEFINE m == [j \in Rows |-> j]
             p == [j \in Rows |-> Before(j)]
             base == [j \in Rows |-> <<>>]
             step == [x \in Rows \X Seq(Rows) |->
                        IF Before(x[1]) = None THEN <<>> ELSE x[2] \o <<Before(x[1])>>]
  <1> USE RowsAreNumbers
  <1>1. m \in [Rows -> 0..rows] /\ base \in [Rows -> Seq(Rows)]
    OBVIOUS
  <1>2. \A j \in Rows : p[j] # None => p[j] \in Rows /\ m[p[j]] < m[j]
    BY TheOneBefore
  <1>3. step \in [Rows \X Seq(Rows) -> Seq(Rows)]
    <2> SUFFICES ASSUME NEW j \in Rows, NEW v \in Seq(Rows), Before(j) # None
                 PROVE  v \o <<Before(j)>> \in Seq(Rows)
      OBVIOUS
    <2>1. Before(j) \in Rows
      BY TheOneBefore
    <2>2. QED
      BY <2>1
  <1>4. \A j \in Rows, v \in Seq(Rows) : p[j] # None => step[<<j, v>>] = v \o <<Before(j)>>
    OBVIOUS
  <1>5. \A j \in Rows : p[j] = Before(j) /\ base[j] = <<>>
    OBVIOUS
  <1> HIDE DEF m, p, base, step
  <1>6. PICK B \in [Rows -> Seq(Rows)] : Tabulates(B, Rows, p, None, base, step)
    BY <1>1, <1>2, <1>3, WalkTable
  <1>7. BacksUp(B)
    <2> SUFFICES ASSUME NEW j \in Rows
                 PROVE  B[j] = IF Before(j) = None THEN <<>> ELSE B[Before(j)] \o <<Before(j)>>
      BY DEF BacksUp
    <2>1. B[j] = IF p[j] = None THEN base[j] ELSE step[<<j, B[p[j]]>>]
      BY <1>6 DEF Tabulates
    <2>2. p[j] # None => B[p[j]] \in Seq(Rows)
      BY <1>2
    <2>3. QED
      BY <1>4, <1>5, <2>1, <2>2
  <1>8. QED
    BY <1>7

LEMMA WalksOn == ASSUME TypeOK, InLine PROVE \E F : F \in [Rows -> Seq(Rows)] /\ GoesOn(F)
  <1> DEFINE m == [j \in Rows |-> rows - j]
             base == [j \in Rows |-> <<j>>]
             step == [x \in Rows \X Seq(Rows) |-> <<x[1]>> \o x[2]]
  <1> USE RowsAreNumbers
  <1>1. m \in [Rows -> 0..rows] /\ base \in [Rows -> Seq(Rows)]
    OBVIOUS
  <1>2. \A j \in Rows : superseded_by[j] # None =>
          superseded_by[j] \in Rows /\ m[superseded_by[j]] < m[j]
    BY DEF InLine, TypeOK
  <1>3. step \in [Rows \X Seq(Rows) -> Seq(Rows)]
    OBVIOUS
  <1>4. \A j \in Rows, v \in Seq(Rows) : step[<<j, v>>] = <<j>> \o v
    OBVIOUS
  <1>5. \A j \in Rows : base[j] = <<j>>
    OBVIOUS
  <1> HIDE DEF m, base, step
  <1>6. PICK F \in [Rows -> Seq(Rows)] : Tabulates(F, Rows, superseded_by, None, base, step)
    BY <1>1, <1>2, <1>3, WalkTable
  <1>7. GoesOn(F)
    <2> SUFFICES ASSUME NEW j \in Rows
                 PROVE  F[j] = IF superseded_by[j] = None THEN <<j>>
                               ELSE <<j>> \o F[superseded_by[j]]
      BY DEF GoesOn
    <2>1. F[j] = IF superseded_by[j] = None THEN base[j]
                 ELSE step[<<j, F[superseded_by[j]]>>]
      BY <1>6 DEF Tabulates
    <2>2. superseded_by[j] # None => F[superseded_by[j]] \in Seq(Rows)
      BY <1>2
    <2>3. QED
      BY <1>4, <1>5, <2>1, <2>2
  <1>8. QED
    BY <1>7

(* So the history is the two walks, one after the other. *)
LEMMA HistoryIsTwoWalks ==
  ASSUME TypeOK, InLine
  PROVE  \E B, F : BacksUp(B) /\ GoesOn(F) /\ \A i \in Rows : History(i) = B[i] \o F[i]
  <1> DEFINE back == CHOOSE B : B = [j \in Rows |-> IF Before(j) = None THEN <<>>
                                                  ELSE B[Before(j)] \o <<Before(j)>>]
             fore == CHOOSE F : F = [j \in Rows |-> IF superseded_by[j] = None THEN <<j>>
                                                  ELSE <<j>> \o F[superseded_by[j]]]
  <1>1. \A i \in Rows : History(i) = back[i] \o fore[i]
    BY Zenon DEF History
  <1>2. \E B : B = [j \in Rows |-> IF Before(j) = None THEN <<>>
                                  ELSE B[Before(j)] \o <<Before(j)>>]
    <2>1. PICK B : B \in [Rows -> Seq(Rows)] /\ BacksUp(B)
      BY WalksBack
    <2>2. B = [j \in Rows |-> B[j]]
      BY <2>1
    <2>3. B = [j \in Rows |-> IF Before(j) = None THEN <<>> ELSE B[Before(j)] \o <<Before(j)>>]
      BY <2>1, <2>2 DEF BacksUp
    <2>4. QED
      BY <2>3
  <1>3. back = [j \in Rows |-> IF Before(j) = None THEN <<>>
                               ELSE back[Before(j)] \o <<Before(j)>>]
    BY <1>2, Zenon
  <1>4. \E F : F = [j \in Rows |-> IF superseded_by[j] = None THEN <<j>>
                                  ELSE <<j>> \o F[superseded_by[j]]]
    <2>1. PICK F : F \in [Rows -> Seq(Rows)] /\ GoesOn(F)
      BY WalksOn
    <2>2. F = [j \in Rows |-> F[j]]
      BY <2>1
    <2>3. F = [j \in Rows |-> IF superseded_by[j] = None THEN <<j>>
                              ELSE <<j>> \o F[superseded_by[j]]]
      BY <2>1, <2>2 DEF GoesOn
    <2>4. QED
      BY <2>3
  <1>5. fore = [j \in Rows |-> IF superseded_by[j] = None THEN <<j>>
                               ELSE <<j>> \o fore[superseded_by[j]]]
    BY <1>4, Zenon
  <1> HIDE DEF back, fore
  <1>6. BacksUp(back) /\ GoesOn(fore)
    <2>1. BacksUp(back)
      BY <1>3, Zenon DEF BacksUp
    <2>2. GoesOn(fore)
      BY <1>5, Zenon DEF GoesOn
    <2>3. QED
      BY <2>1, <2>2
  <1>7. QED
    BY <1>1, <1>6

(* `kum task history`, from any id of a matter: every version of it, each once
   and in the order they were written. *)
THEOREM HistoryIsWholeHolds == DeskSpec => []HistoryIsWhole
  <1>1. IInv /\ InLine => HistoryIsWhole
    <2> SUFFICES ASSUME IInv, InLine, NEW i \in Rows
                 PROVE  /\ {History(i)[n] : n \in DOMAIN History(i)} = Same(i)
                        /\ \A n \in 1..(Len(History(i)) - 1) : History(i)[n] < History(i)[n + 1]
      BY DEF HistoryIsWhole, Same
    <2>1. PICK B, F : BacksUp(B) /\ GoesOn(F) /\ History(i) = B[i] \o F[i]
      BY HistoryIsTwoWalks DEF IInv
    <2>2. Tells(B[i], Earlier(i)) /\ Tells(F[i], Later(i))
      BY <2>1, BackTells, OnTells DEF IInv
    <2>3. \A x \in Earlier(i), y \in Later(i) : x < y
      BY RowsAreNumbers DEF Earlier, Later, Same, IInv
    <2>4. Earlier(i) \cup Later(i) = Same(i)
      BY RowsAreNumbers DEF Earlier, Later, Same, IInv
    <2>5. PICK h : h = History(i) /\ Tells(h, Same(i))
      <3>1. Tells(B[i] \o F[i], Earlier(i) \cup Later(i))
        BY <2>2, <2>3, TellsBoth
      <3>2. QED
        BY <2>1, <2>4, <3>1
    <2>6. h \in Seq(Rows) /\ DOMAIN h = 1..Len(h) /\ Len(h) \in Nat
      BY <2>5 DEF Tells
    <2>7. \A n \in 1..(Len(h) - 1) : n \in 1..Len(h) /\ n + 1 \in 1..Len(h) /\ n < n + 1
      BY <2>6
    <2>8. QED
      BY <2>5, <2>6, <2>7 DEF Tells
  <1>2. QED
    BY <1>1, DeskInLine, PTL
=============================================================================
