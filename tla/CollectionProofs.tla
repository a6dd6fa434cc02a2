-------------------------- MODULE CollectionProofs --------------------------
(***************************************************************************)
(* Proofs about the memory shelf, for any number of rows, sessions, parts  *)
(* and import runs, on its own and under the human's verbs: nothing        *)
(* unjudged is served and it waits at the desk, judgments are final, no    *)
(* fact is served in two versions, the history of a fact reads all of them *)
(* back, an import is not repeated, and the list tells each entry once.    *)
(***************************************************************************)
EXTENDS Catalogue, Walks, FiniteSetTheorems, TLAPS

Rows == 1..rows

(* What the types need beside them: rows yet to come point nowhere, a split
   write in flight is a record of the parts it stored, and a row states a
   fact that some row stated first. *)
Shape ==
  /\ writing \in [Session -> [ids : Seq(Rows), left : Nat, loose : BOOLEAN]]
  /\ \A i \in Id \ Rows : superseded_by[i] = None
  /\ \A i \in Rows : fact[i] \in Rows

(* Of the rows an untrusted session wrote only approved ones are live, even
   those out of circulation: a later revision reads their status. *)
LiveOnlyApproved ==
  \A i \in Rows : status[i] = "live" /\ agent_id[i] \in Quarantined => i \in approved

(* A chain of versions states one fact. *)
ChainsKeepFact ==
  \A i \in Entries : superseded_by[i] # None => fact[superseded_by[i]] = fact[i]

(* While no version of a fact was deleted, one of them has no successor. *)
OneHead ==
  \A i, j \in Entries :
    /\ superseded_by[i] = None /\ superseded_by[j] = None
    /\ fact[i] = fact[j] /\ Whole(fact[i])
    => i = j

IInv == TypeOK /\ Shape /\ LiveOnlyApproved /\ ChainsKeepFact /\ OneHead

-----------------------------------------------------------------------------
(* NULL is not a row id. *)
LEMMA NoneIsNoId == None \notin Id
  BY NoneAssumption DEF Id

(* The rows are ids, deleted ones included, and entries are rows. *)
LEMMA RowsAreIds ==
  ASSUME TypeOK
  PROVE  Rows \subseteq Id /\ Entries \subseteq Rows /\ Entries = {i \in Rows : Exists(i)}
  BY BoundsAssumption DEF TypeOK, Rows, Id, Entries, Exists

(* The empty shelf satisfies the inductive invariant. *)
LEMMA InitIInv == Init => IInv
  <1> SUFFICES ASSUME Init PROVE IInv
    OBVIOUS
  <1>1. Rows = {} /\ Entries = {} /\ 0 \in 0..MaxRows
    BY BoundsAssumption DEF Init, Rows, Entries, Exists
  <1>2. writing \in [Session -> [ids : Seq(Rows), left : Nat, loose : BOOLEAN]]
    BY DEF Init, Idle
  <1>3. QED
    BY <1>1, <1>2 DEF Init, IInv, TypeOK, Shape, LiveOnlyApproved, ChainsKeepFact,
       OneHead, Rows, Id, Status, Rel, Idle

(* A sequence of rows is still one when there are more rows. *)
LEMMA SeqGrows ==
  ASSUME NEW S, NEW T, S \subseteq T
  PROVE  Seq(S) \subseteq Seq(T)
  OBVIOUS

(* store_split's record of a write in flight keeps its shape when the table
   grows by a row and one session's record is replaced by a good one. *)
LEMMA WritingGrows ==
  ASSUME Shape, NEW T, Rows \subseteq T, NEW s \in Session,
         NEW w \in [ids : Seq(T), left : Nat, loose : BOOLEAN]
  PROVE  [writing EXCEPT ![s] = w] \in [Session -> [ids : Seq(T), left : Nat, loose : BOOLEAN]]
  <1>1. Seq(Rows) \subseteq Seq(T)
    BY SeqGrows
  <1>2. QED
    BY <1>1 DEF Shape

(* What a stored entry changes in the columns, and that it is an entry. *)
LEMMA InsertFacts ==
  ASSUME IInv, NEW s \in Session, NEW st \in {"live", "pending"}, NEW id, id = rows + 1,
         NEW about \in Rows \cup {id}, InsertEntry(s, st, about)
  PROVE  /\ id \in Id /\ id \notin Rows /\ Rows \subseteq Id
         /\ Rows' = Rows \cup {id} /\ rows' \in 0..MaxRows
         /\ \A i \in Id \ {id} : /\ agent_id'[i] = agent_id[i] /\ status'[i] = status[i]
                                 /\ fact'[i] = fact[i]
         /\ agent_id'[id] = s /\ status'[id] = st /\ fact'[id] = about
         /\ superseded_by[id] = None
         /\ Entries' = Entries \cup {id} /\ Entries \subseteq Rows
         /\ agent_id' \in [Id -> Session \cup {None}]
         /\ status' \in [Id -> Status]
         /\ fact' \in [Id -> Id \cup {None}]
         /\ \A i \in Id : i \in Rows' <=> status'[i] # "absent"
  <1>1. /\ id \in Id /\ id \notin Rows /\ Rows \subseteq Id
        /\ Rows' = Rows \cup {id} /\ rows' \in 0..MaxRows
    BY RowsAreIds, BoundsAssumption DEF IInv, InsertEntry, Rows, Id, TypeOK
  <1>2. /\ \A i \in Id \ {id} : /\ agent_id'[i] = agent_id[i] /\ status'[i] = status[i]
                                /\ fact'[i] = fact[i]
        /\ agent_id'[id] = s /\ status'[id] = st /\ fact'[id] = about
        /\ superseded_by[id] = None
    BY <1>1 DEF InsertEntry, IInv, TypeOK, Shape
  <1>3. /\ agent_id' \in [Id -> Session \cup {None}]
        /\ status' \in [Id -> Status]
        /\ fact' \in [Id -> Id \cup {None}]
    BY <1>1 DEF InsertEntry, IInv, TypeOK, Status
  <1>4. \A i \in Id : i \in Rows' <=> status'[i] # "absent"
    BY <1>1, <1>2 DEF IInv, TypeOK, Rows
  <1>5. Entries \subseteq Rows
    BY RowsAreIds DEF IInv
  <1>6. ASSUME NEW i \in Id
        PROVE  Exists(i)' <=> Exists(i) \/ i = id
    BY <1>1, <1>2 DEF Exists, Rows
  <1>7. Entries' = Entries \cup {id}
    BY <1>1, <1>6 DEF Entries
  <1>8. QED
    BY <1>1, <1>2, <1>3, <1>4, <1>5, <1>7

(* Storing an entry, alone or in the place of `old`. *)
LEMMA InsertIInv ==
  ASSUME IInv, NEW s \in Session, NEW st \in {"live", "pending"}, NEW id, id = rows + 1,
         NEW about \in Rows \cup {id}, InsertEntry(s, st, about),
         NEW old \in Entries \cup {None},
         superseded_by' = IF old = None THEN superseded_by
                          ELSE [superseded_by EXCEPT ![old] = id],
         old = None => about = id,
         old # None => about = fact[old] /\ superseded_by[old] = None,
         st = "live" => s \notin Quarantined,
         writing' \in [Session -> [ids : Seq(Rows'), left : Nat, loose : BOOLEAN]],
         links' \subseteq Entries' \X Entries' \X Rel,
         UNCHANGED <<retired, approved>>
  PROVE  IInv'
  <1>1. /\ id \in Id /\ id \notin Rows /\ Rows \subseteq Id
        /\ Rows' = Rows \cup {id} /\ rows' \in 0..MaxRows
        /\ \A i \in Id \ {id} : /\ agent_id'[i] = agent_id[i] /\ status'[i] = status[i]
                                /\ fact'[i] = fact[i]
        /\ agent_id'[id] = s /\ status'[id] = st /\ fact'[id] = about
        /\ superseded_by[id] = None
        /\ Entries' = Entries \cup {id} /\ Entries \subseteq Rows
    BY InsertFacts
  <1>2. /\ agent_id' \in [Id -> Session \cup {None}]
        /\ status' \in [Id -> Status]
        /\ fact' \in [Id -> Id \cup {None}]
        /\ \A i \in Id : i \in Rows' <=> status'[i] # "absent"
    BY InsertFacts
  <1>3. /\ superseded_by' \in [Id -> Id \cup {None}]
        /\ \A i \in Id : superseded_by'[i] = IF i = old THEN id ELSE superseded_by[i]
    BY <1>1, NoneIsNoId DEF IInv, TypeOK
  <1>4. \A i \in Entries' : superseded_by'[i] \in Entries' \cup {None}
    BY <1>1, <1>3 DEF IInv, TypeOK
  <1>5. TypeOK'
    BY <1>1, <1>2, <1>3, <1>4 DEF IInv, TypeOK, Rows
  <1>6. Shape'
    <2>1. \A i \in Id \ Rows' : superseded_by'[i] = None
      BY <1>1, <1>3, NoneIsNoId DEF IInv, Shape
    <2>2. \A i \in Rows' : fact'[i] \in Rows'
      BY <1>1 DEF IInv, Shape
    <2>3. QED
      BY <2>1, <2>2 DEF Shape
  <1>7. LiveOnlyApproved'
    BY <1>1 DEF IInv, LiveOnlyApproved
  <1>8. ChainsKeepFact'
    <2> SUFFICES ASSUME NEW i \in Entries', superseded_by'[i] # None
                 PROVE  fact'[superseded_by'[i]] = fact'[i]
      BY DEF ChainsKeepFact
    <2>1. i \in Entries /\ i # id
      BY <1>1, <1>3, NoneIsNoId
    <2>2. CASE i = old
      BY <2>1, <2>2, <1>1, <1>3, NoneIsNoId
    <2>3. CASE i # old
      BY <2>1, <2>3, <1>1, <1>3 DEF IInv, TypeOK, ChainsKeepFact
    <2>4. QED
      BY <2>2, <2>3
  <1>9. OneHead'
    <2> SUFFICES ASSUME NEW i \in Entries', NEW j \in Entries',
                        superseded_by'[i] = None, superseded_by'[j] = None,
                        fact'[i] = fact'[j], Whole(fact[i])'
                 PROVE  i = j
      BY DEF OneHead
    <2>1. \A k \in Rows : fact[k] = fact'[i] => Exists(k)
      BY <1>1 DEF Whole, Exists, Rows
    <2>2. ASSUME NEW k \in Entries, k # old, superseded_by'[k] = None, fact'[k] = fact'[i]
          PROVE  /\ superseded_by[k] = None /\ fact[k] = fact'[i] /\ Whole(fact[k])
                 /\ old # None => fact[old] # fact[k]
      <3>1. superseded_by[k] = None /\ fact[k] = fact'[i] /\ Whole(fact[k])
        BY <2>1, <2>2, <1>1, <1>3 DEF Whole, Rows
      <3>2. old # None => fact[old] # fact[k]
        BY <3>1, <2>2 DEF IInv, OneHead
      <3>3. QED
        BY <3>1, <3>2
    <2>3. ASSUME NEW k \in Entries, superseded_by'[k] = None PROVE k # old
      BY <2>3, <1>1, <1>3, NoneIsNoId
    <2>4. ASSUME NEW k \in Entries, superseded_by'[k] = None, fact'[k] = fact'[i]
          PROVE  fact'[k] # about
      <3>1. k # old /\ fact[k] = fact'[k] /\ fact[k] \in Rows
        BY <2>3, <2>4, <1>1 DEF IInv, Shape
      <3>2. CASE old = None
        BY <3>1, <3>2, <1>1
      <3>3. CASE old # None
        BY <3>1, <3>3, <2>2, <2>4
      <3>4. QED
        BY <3>2, <3>3
    <2>5. CASE i = id \/ j = id
      BY <2>4, <2>5, <1>1
    <2>6. CASE i # id /\ j # id
      <3>1. i \in Entries /\ j \in Entries /\ i # old /\ j # old
        BY <2>3, <2>6, <1>1
      <3>2. /\ superseded_by[i] = None /\ superseded_by[j] = None
            /\ fact[i] = fact[j] /\ Whole(fact[i])
        BY <3>1, <2>2
      <3>3. QED
        BY <3>1, <3>2 DEF IInv, OneHead
    <2>7. QED
      BY <2>5, <2>6
  <1>10. QED
    BY <1>5, <1>6, <1>7, <1>8, <1>9 DEF IInv

(* The first part of a write leaves a session's record well formed. *)
LEMMA FirstPartShape ==
  ASSUME IInv, NEW s \in Session, NEW n \in Nat \ {0}, FirstPart(s, n),
         Rows' = Rows \cup {rows + 1}
  PROVE  writing' \in [Session -> [ids : Seq(Rows'), left : Nat, loose : BOOLEAN]]
  <1>1. Idle \in [ids : Seq(Rows'), left : Nat, loose : BOOLEAN]
    BY DEF Idle
  <1>2. [ids |-> <<rows + 1>>, left |-> n - 1, loose |-> FALSE]
          \in [ids : Seq(Rows'), left : Nat, loose : BOOLEAN]
    <2>1. <<rows + 1>> \in Seq(Rows') /\ n - 1 \in Nat
      OBVIOUS
    <2>2. QED
      BY <2>1
  <1>3. Rows \subseteq Rows' /\ Shape
    BY DEF IInv
  <1>4. QED
    BY <1>1, <1>2, <1>3, WritingGrows DEF FirstPart

(* remember, and the first part of an oversized one. *)
LEMMA RememberIInv ==
  ASSUME IInv, NEW s \in Session, NEW n \in Nat \ {0}, Remember(s, n)
  PROVE  IInv'
  <1>1. PICK id : id = rows + 1
    OBVIOUS
  <1>2. /\ WriteStatus(s) \in {"live", "pending"}
        /\ WriteStatus(s) = "live" => s \notin Quarantined
        /\ InsertEntry(s, WriteStatus(s), id)
        /\ id \in Rows \cup {id}
    BY <1>1 DEF Remember, WriteStatus
  <1>3. Rows' = Rows \cup {id} /\ Entries' = Entries \cup {id}
    BY <1>1, <1>2, InsertFacts
  <1>4. writing' \in [Session -> [ids : Seq(Rows'), left : Nat, loose : BOOLEAN]]
    <2>1. n \in Nat \ {0} /\ FirstPart(s, n) /\ Rows' = Rows \cup {rows + 1}
      BY <1>1, <1>3 DEF Remember
    <2>2. QED
      BY <2>1, FirstPartShape
  <1>5. links' \subseteq Entries' \X Entries' \X Rel
    BY <1>3 DEF Remember, IInv, TypeOK
  <1>6. superseded_by' = superseded_by /\ UNCHANGED <<retired, approved>>
    BY DEF Remember
  <1>7. QED
    <2>1. None \in Entries \cup {None}
      OBVIOUS
    <2>2. superseded_by' = IF None = None THEN superseded_by
                           ELSE [superseded_by EXCEPT ![None] = id]
      BY <1>6
    <2>3. (None = None => id = id) /\ (None # None => id = fact[None] /\ superseded_by[None] = None)
      OBVIOUS
    <2>4. QED
      BY <1>1, <1>2, <1>4, <1>5, <1>6, <2>1, <2>2, <2>3, InsertIInv

(* supersede: the edges follow the live version, the status does not follow
   a pending one out of the desk's queue. *)
LEMMA SupersedeIInv ==
  ASSUME IInv, NEW s \in Session, NEW n \in Nat \ {0}, NEW old \in Id,
         Supersede(s, old, n)
  PROVE  IInv'
  <1>1. PICK id : id = rows + 1
    OBVIOUS
  <1>2. /\ Exists(old) /\ superseded_by[old] = None /\ old # None
        /\ old \in Entries /\ fact[old] \in Rows
    BY NoneIsNoId, RowsAreIds DEF Supersede, Supersedable, Entries, IInv, Shape
  <1>3. PICK st : st = RevisionStatus(s, old)
    OBVIOUS
  <1>4. /\ st \in {"live", "pending"}
        /\ st = "live" => s \notin Quarantined
        /\ InsertEntry(s, st, fact[old])
        /\ fact[old] \in Rows \cup {id}
    BY <1>1, <1>2, <1>3 DEF Supersede, RevisionStatus, WriteStatus
  <1>5. Rows' = Rows \cup {id} /\ Entries' = Entries \cup {id}
    BY <1>1, <1>4, InsertFacts
  <1>6. writing' \in [Session -> [ids : Seq(Rows'), left : Nat, loose : BOOLEAN]]
    <2>1. n \in Nat \ {0} /\ FirstPart(s, n) /\ Rows' = Rows \cup {rows + 1}
      BY <1>1, <1>5 DEF Supersede
    <2>2. QED
      BY <2>1, FirstPartShape
  <1>7. links' \subseteq Entries' \X Entries' \X Rel
    <2>1. links' = {<<IF e[1] = old THEN id ELSE e[1],
                      IF e[2] = old THEN id ELSE e[2], e[3]>> : e \in links}
      BY <1>1 DEF Supersede, MoveEdges
    <2>2. links \subseteq Entries \X Entries \X Rel
      BY DEF IInv, TypeOK
    <2>3. QED
      BY <1>5, <2>1, <2>2
  <1>8. /\ superseded_by' = IF old = None THEN superseded_by
                            ELSE [superseded_by EXCEPT ![old] = id]
        /\ UNCHANGED <<retired, approved>>
    BY <1>1, <1>2 DEF Supersede
  <1>9. /\ old \in Entries \cup {None}
        /\ old = None => fact[old] = id
        /\ old # None => fact[old] = fact[old] /\ superseded_by[old] = None
    BY <1>2
  <1>10. QED
    BY <1>1, <1>4, <1>6, <1>7, <1>8, <1>9, InsertIInv, Zenon

(* store_split's next part, a fresh entry. *)
LEMMA StorePartIInv ==
  ASSUME IInv, NEW s \in Session, StorePart(s)
  PROVE  IInv'
  <1>1. PICK id : id = rows + 1
    OBVIOUS
  <1>2. /\ WriteStatus(s) \in {"live", "pending"}
        /\ WriteStatus(s) = "live" => s \notin Quarantined
        /\ InsertEntry(s, WriteStatus(s), id)
        /\ id \in Rows \cup {id}
    BY <1>1 DEF StorePart, WriteStatus
  <1>3. Rows' = Rows \cup {id} /\ Entries' = Entries \cup {id}
    BY <1>1, <1>2, InsertFacts
  <1>4. writing' \in [Session -> [ids : Seq(Rows'), left : Nat, loose : BOOLEAN]]
    <2>1. PICK w : w = writing[s]
      OBVIOUS
    <2>2. /\ w \in [ids : Seq(Rows), left : Nat, loose : BOOLEAN] /\ w.left > 0
          /\ writing' = [writing EXCEPT ![s] =
               [ids |-> Append(w.ids, id), left |-> w.left - 1, loose |-> TRUE]]
      BY <1>1, <2>1 DEF StorePart, IInv, Shape
    <2>3. Append(w.ids, id) \in Seq(Rows')
      <3>1. w.ids \in Seq(Rows') /\ id \in Rows'
        BY <2>2, <1>3, SeqGrows
      <3>2. QED
        BY <3>1
    <2>4. [ids |-> Append(w.ids, id), left |-> w.left - 1, loose |-> TRUE]
            \in [ids : Seq(Rows'), left : Nat, loose : BOOLEAN]
      BY <2>2, <2>3
    <2>5. Shape /\ Rows \subseteq Rows'
      BY <1>3 DEF IInv
    <2>6. QED
      BY <2>2, <2>4, <2>5, WritingGrows
  <1>5. links' \subseteq Entries' \X Entries' \X Rel
    BY <1>3 DEF StorePart, IInv, TypeOK
  <1>6. superseded_by' = superseded_by /\ UNCHANGED <<retired, approved>>
    BY DEF StorePart
  <1>7. QED
    <2>1. None \in Entries \cup {None}
      OBVIOUS
    <2>2. superseded_by' = IF None = None THEN superseded_by
                           ELSE [superseded_by EXCEPT ![None] = id]
      BY <1>6
    <2>3. (None = None => id = id) /\ (None # None => id = fact[None] /\ superseded_by[None] = None)
      OBVIOUS
    <2>4. QED
      BY <1>1, <1>2, <1>4, <1>5, <1>6, <2>1, <2>2, <2>3, InsertIInv

(* A step that stores, judges and deletes nothing. *)
LEMMA ColumnsStay ==
  ASSUME IInv, UNCHANGED <<rows, agent_id, status, superseded_by, fact, approved>>,
         retired' \in [Id -> BOOLEAN],
         writing' \in [Session -> [ids : Seq(Rows), left : Nat, loose : BOOLEAN]],
         links' \subseteq Entries \X Entries \X Rel
  PROVE  IInv'
  <1>1. Rows' = Rows /\ \A i : Exists(i)' <=> Exists(i)
    BY DEF Rows, Exists
  <1>2. Entries' = Entries
    BY <1>1 DEF Entries
  <1>3. TypeOK'
    BY <1>1, <1>2 DEF IInv, TypeOK, Rows
  <1>4. Shape' /\ LiveOnlyApproved' /\ ChainsKeepFact'
    BY <1>1, <1>2 DEF IInv, Shape, LiveOnlyApproved, ChainsKeepFact
  <1>5. OneHead'
    BY <1>1, <1>2 DEF IInv, OneHead, Whole
  <1>6. QED
    BY <1>3, <1>4, <1>5 DEF IInv

(* store_split's edge, and a split write that stops: neither touches a row. *)
LEMMA LinkPartIInv ==
  ASSUME IInv, NEW s \in Session, LinkPart(s) \/ SplitStops(s)
  PROVE  IInv'
  <1>1. Shape /\ TypeOK
    BY DEF IInv
  <1>2. Idle \in [ids : Seq(Rows), left : Nat, loose : BOOLEAN]
    BY DEF Idle
  <1>3. CASE LinkPart(s)
    <2>1. PICK w : w = writing[s]
      OBVIOUS
    <2>2. PICK from, to : from = w.ids[Len(w.ids)] /\ to = w.ids[Len(w.ids) - 1]
      OBVIOUS
    <2>3. /\ w \in [ids : Seq(Rows), left : Nat, loose : BOOLEAN]
          /\ Exists(from) /\ Exists(to)
          /\ links' = links \cup {<<from, to, "continues">>}
          /\ writing' = [writing EXCEPT ![s] = IF w.left = 0 THEN Idle
                                               ELSE [w EXCEPT !.loose = FALSE]]
      BY <1>1, <1>3, <2>1, <2>2 DEF LinkPart, Linkable, Shape
    <2>4. from \in Entries /\ to \in Entries
      BY <1>1, <2>3, RowsAreIds DEF Exists, Rows
    <2>5. links' \subseteq Entries \X Entries \X Rel
      BY <1>1, <2>3, <2>4 DEF TypeOK, Rel
    <2>6. (IF w.left = 0 THEN Idle ELSE [w EXCEPT !.loose = FALSE])
            \in [ids : Seq(Rows), left : Nat, loose : BOOLEAN]
      BY <2>3, <1>2
    <2>7. writing' \in [Session -> [ids : Seq(Rows), left : Nat, loose : BOOLEAN]]
      BY <1>1, <2>3, <2>6, WritingGrows
    <2>8. /\ UNCHANGED <<rows, agent_id, status, superseded_by, fact, approved>>
          /\ retired' \in [Id -> BOOLEAN]
      BY <1>1, <1>3 DEF LinkPart, TypeOK
    <2>9. QED
      BY <2>5, <2>7, <2>8, ColumnsStay
  <1>4. CASE SplitStops(s)
    <2>1. writing' = [writing EXCEPT ![s] = Idle]
      BY <1>4 DEF SplitStops
    <2>2. writing' \in [Session -> [ids : Seq(Rows), left : Nat, loose : BOOLEAN]]
      BY <1>1, <1>2, <2>1, WritingGrows
    <2>3. /\ UNCHANGED <<rows, agent_id, status, superseded_by, fact, approved>>
          /\ retired' \in [Id -> BOOLEAN] /\ links' \subseteq Entries \X Entries \X Rel
      BY <1>1, <1>4 DEF SplitStops, TypeOK
    <2>4. QED
      BY <2>2, <2>3, ColumnsStay
  <1>5. QED
    BY <1>3, <1>4

(* The link verbs and the retire verbs. *)
LEMMA LinkRetireIInv ==
  ASSUME IInv,
         \/ \E from, to \in Id, rel \in HandRel : Link(from, to, rel)
         \/ \E id \in Id : Retire(id)
  PROVE  IInv'
  <1>1. Shape /\ TypeOK
    BY DEF IInv
  <1>2. ASSUME NEW from \in Id, NEW to \in Id, NEW rel \in HandRel, Link(from, to, rel)
        PROVE  IInv'
    <2>1. from \in Entries /\ to \in Entries
      BY <1>2 DEF Link, Linkable, Entries
    <2>2. links' \subseteq Entries \X Entries \X Rel
      BY <1>1, <1>2, <2>1 DEF Link, TypeOK, Rel
    <2>3. /\ UNCHANGED <<rows, agent_id, status, superseded_by, fact, approved>>
          /\ retired' \in [Id -> BOOLEAN]
          /\ writing' \in [Session -> [ids : Seq(Rows), left : Nat, loose : BOOLEAN]]
      BY <1>1, <1>2 DEF Link, TypeOK, Shape
    <2>4. QED
      BY <2>2, <2>3, ColumnsStay
  <1>3. ASSUME NEW id \in Id, Retire(id)
        PROVE  IInv'
    <2>1. /\ UNCHANGED <<rows, agent_id, status, superseded_by, fact, approved>>
          /\ retired' \in [Id -> BOOLEAN] /\ links' \subseteq Entries \X Entries \X Rel
          /\ writing' \in [Session -> [ids : Seq(Rows), left : Nat, loose : BOOLEAN]]
      BY <1>1, <1>3 DEF Retire, TypeOK, Shape
    <2>2. QED
      BY <2>1, ColumnsStay
  <1>4. QED
    BY <1>2, <1>3

(* The desk: the only step that makes a stranger's row live records that. *)
LEMMA JudgeIInv ==
  ASSUME IInv, NEW id \in Id, Judge(id)
  PROVE  IInv'
  <1>1. PICK to \in {"live", "rejected"} :
          /\ status' = [status EXCEPT ![id] = to]
          /\ to = "live" => id \in approved'
          /\ approved \subseteq approved' /\ approved' \subseteq approved \cup {id}
          /\ Exists(id) /\ status[id] = "pending"
          /\ UNCHANGED <<rows, agent_id, superseded_by, retired, links, writing, fact>>
    BY DEF Judge, SetStatus
  <1>2. /\ Rows' = Rows /\ Rows \subseteq Id
        /\ \A i \in Id : status'[i] = IF i = id THEN to ELSE status[i]
    BY <1>1, RowsAreIds DEF IInv, TypeOK, Rows
  <1>3. \A i \in Id : Exists(i)' <=> Exists(i)
    BY <1>1, <1>2 DEF Exists
  <1>4. Entries' = Entries
    BY <1>3 DEF Entries
  <1>5. TypeOK'
    BY <1>1, <1>2, <1>4 DEF IInv, TypeOK, Status, Rows
  <1>6. Shape' /\ ChainsKeepFact'
    BY <1>1, <1>2, <1>4 DEF IInv, Shape, ChainsKeepFact
  <1>7. LiveOnlyApproved'
    BY <1>1, <1>2 DEF IInv, LiveOnlyApproved
  <1>8. OneHead'
    BY <1>1, <1>2, <1>3, <1>4 DEF IInv, OneHead, Whole, Rows
  <1>9. QED
    BY <1>5, <1>6, <1>7, <1>8 DEF IInv

(* Deletion: what pointed at the row stated its fact, which is whole no
   longer, and the row's edges go with it. *)
LEMMA ForgetIInv ==
  ASSUME IInv, NEW id \in Id, Forget(id)
  PROVE  IInv'
  <1>1. /\ Exists(id) /\ Rows' = Rows /\ Rows \subseteq Id /\ id \in Rows
        /\ \A i \in Id : status'[i] = IF i = id THEN "forgotten" ELSE status[i]
        /\ \A i \in Id : superseded_by'[i] = IF superseded_by[i] = id THEN None
                                             ELSE superseded_by[i]
        /\ links' \subseteq {e \in links : e[1] # id /\ e[2] # id}
        /\ UNCHANGED <<rows, agent_id, retired, writing, fact, approved>>
    BY RowsAreIds DEF Forget, Exists, Rows, IInv, TypeOK
  <1>2. \A i \in Id : Exists(i)' <=> Exists(i) /\ i # id
    BY <1>1 DEF Exists, Rows
  <1>3. Entries' = Entries \ {id} /\ Entries \subseteq Rows
    BY <1>2, RowsAreIds DEF Entries, IInv
  <1>4. TypeOK'
    <2>1. status' \in [Id -> Status] /\ superseded_by' \in [Id -> Id \cup {None}]
      BY DEF Forget, IInv, TypeOK, Status
    <2>2. \A i \in Id : i \in Rows' <=> status'[i] # "absent"
      BY <1>1 DEF IInv, TypeOK, Rows
    <2>3. \A i \in Entries' : superseded_by'[i] \in Entries' \cup {None}
      BY <1>1, <1>3 DEF IInv, TypeOK
    <2>4. links' \subseteq Entries' \X Entries' \X Rel
      BY <1>1, <1>3 DEF IInv, TypeOK
    <2>5. QED
      BY <1>1, <2>1, <2>2, <2>3, <2>4 DEF IInv, TypeOK, Rows
  <1>5. Shape' /\ LiveOnlyApproved'
    BY <1>1 DEF IInv, Shape, LiveOnlyApproved
  <1>6. ChainsKeepFact'
    BY <1>1, <1>3 DEF IInv, ChainsKeepFact
  <1>7. OneHead'
    <2> SUFFICES ASSUME NEW i \in Entries', NEW j \in Entries',
                        superseded_by'[i] = None, superseded_by'[j] = None,
                        fact[i] = fact[j], Whole(fact[i])'
                 PROVE  i = j
      BY <1>1 DEF OneHead
    <2>1. fact[id] # fact[i]
      BY <1>1, <1>2 DEF Whole, Rows
    <2>2. Whole(fact[i])
      BY <1>1, <1>2 DEF Whole, Rows
    <2>3. i \in Entries /\ j \in Entries /\ i \in Id /\ j \in Id
      BY <1>1, <1>3
    <2>4. superseded_by[i] # id /\ superseded_by[j] # id
      BY <2>1, <2>3, <1>1, NoneIsNoId DEF IInv, ChainsKeepFact
    <2>5. superseded_by[i] = None /\ superseded_by[j] = None
      BY <1>1, <2>3, <2>4
    <2>6. QED
      BY <2>2, <2>3, <2>5 DEF IInv, OneHead
  <1>8. QED
    BY <1>4, <1>5, <1>6, <1>7 DEF IInv

(* The steps of the shelf, whoever takes them and however a write is split. *)
ShelfStep ==
  \/ \E s \in Session :
       \/ \E n \in Nat \ {0} : Remember(s, n)
       \/ \E n \in Nat \ {0}, old \in Id : Supersede(s, old, n)
       \/ StoreSplit(s)
  \/ \E id \in Id : Judge(id) \/ Retire(id) \/ Forget(id)
  \/ \E from, to \in Id, rel \in HandRel : Link(from, to, rel)

LEMMA NextIsShelfStep == Next => ShelfStep
  BY PartsAssumption DEF Next, ShelfStep

(* Every verb of the catalogue is a step of the shelf, or leaves it alone:
   a revert supersedes the head its history names. *)
LEMMA StepIsShelfStep == IInv /\ Step => ShelfStep \/ UNCHANGED vars
  <1> SUFFICES ASSUME IInv, Step PROVE ShelfStep \/ UNCHANGED vars
    OBVIOUS
  <1>1. Cli \in Session /\ 1 \in Nat \ {0} /\ ImportParts \subseteq Nat \ {0}
    BY CliAssumption, ImportAssumption
  <1>2. CASE \E s \in Session :
               \/ \E n \in NewParts : Remember(s, n) /\ UNCHANGED catvars
               \/ \E n \in RevisionParts, old \in Id :
                    Supersede(s, old, n) /\ UNCHANGED <<source, planned, imported>>
               \/ StoreSplit(s) /\ SplitCarriesSource(s) /\ UNCHANGED <<planned, imported>>
    BY <1>2, PartsAssumption DEF ShelfStep
  <1>3. ASSUME NEW id \in Id, MoveCmd(id) PROVE ShelfStep
    BY <1>1, <1>3 DEF MoveCmd, ShelfStep
  <1>4. ASSUME NEW id \in Id, RevertCmd(id) PROVE ShelfStep
    <2>1. PICK head : Supersede(Cli, head, 1)
      BY <1>4 DEF RevertCmd
    <2>2. head \in Id
      BY <2>1, RowsAreIds DEF Supersede, Supersedable, Exists, Rows, IInv
    <2>3. QED
      BY <1>1, <2>1, <2>2 DEF ShelfStep
  <1>5. CASE \E n \in ImportParts : ImportStore(n)
    BY <1>1, <1>5 DEF ImportStore, ShelfStep
  <1>6. CASE ImportCollect \/ ImportDies
    BY <1>6 DEF ImportCollect, ImportDies
  <1>7. QED
    BY <1>2, <1>3, <1>4, <1>5, <1>6 DEF Step, ShelfStep

(* A step of either specification. *)
Moves == ShelfStep \/ UNCHANGED vars

LEMMA BothMove ==
  /\ IInv /\ [Next]_vars => Moves
  /\ IInv /\ [CatNext]_allvars => Moves
  BY NextIsShelfStep, StepIsShelfStep DEF Moves, CatNext, allvars

(* Every step of every session and of the desk preserves the invariant. *)
LEMMA NextIInv == IInv /\ Moves => IInv'
  <1> SUFFICES ASSUME IInv, Moves PROVE IInv'
    OBVIOUS
  <1>1. ASSUME NEW s \in Session,
               \/ \E n \in Nat \ {0} : Remember(s, n)
               \/ \E n \in Nat \ {0}, old \in Id : Supersede(s, old, n)
               \/ StoreSplit(s)
        PROVE  IInv'
    BY <1>1, RememberIInv, SupersedeIInv, StorePartIInv, LinkPartIInv DEF StoreSplit
  <1>2. ASSUME NEW id \in Id, Judge(id) \/ Retire(id) \/ Forget(id)
        PROVE  IInv'
    BY <1>2, JudgeIInv, LinkRetireIInv, ForgetIInv
  <1>3. CASE \E from, to \in Id, rel \in HandRel : Link(from, to, rel)
    BY <1>3, LinkRetireIInv
  <1>4. CASE UNCHANGED vars
    BY <1>4, ColumnsStay DEF vars, IInv, TypeOK, Shape
  <1>5. QED
    BY <1>1, <1>2, <1>3, <1>4 DEF Moves, ShelfStep

(* The inductive invariant holds in every reachable state of the shelf, on its
   own and under the catalogue's verbs: edges and pointers join entries, live
   rows of strangers are approved, chains keep their fact. *)
THEOREM Invariance == Spec \/ CatSpec => []IInv
  <1>1. CatInit => Init
    BY DEF CatInit
  <1>2. QED
    BY <1>1, InitIInv, NextIInv, BothMove, PTL DEF Spec, CatSpec

(* The columns keep their types, no edge or pointer dangles and no split write
   holds a part that was never stored, whatever is deleted meanwhile. *)
THEOREM TypeCorrect == Spec \/ CatSpec => []TypeOK
  BY Invariance, PTL DEF IInv

(* Untrusted writers' facts stay out of circulation until a human judged that
   very row, through any splits, revisions, retirements and deletions. *)
THEOREM UnjudgedStaysOutHolds == Spec \/ CatSpec => []UnjudgedStaysOut
  <1>1. IInv => UnjudgedStaysOut
    BY RowsAreIds DEF IInv, LiveOnlyApproved, UnjudgedStaysOut, Circulates, Exists, Rows
  <1>2. QED
    BY <1>1, Invariance, PTL

(* Two sessions revising one fact never leave two versions of it served. *)
THEOREM OneVersionServedHolds == Spec \/ CatSpec => []OneVersionServed
  <1>1. IInv => OneVersionServed
    BY DEF IInv, OneHead, OneVersionServed, Circulates, Entries
  <1>2. QED
    BY <1>1, Invariance, PTL

(* What the desk, or a trusted writer, made of a row is what it stays until
   the row is deleted. *)
LEMMA StepKeepsJudgment ==
  ASSUME IInv, Moves, NEW i \in Id, status[i] \in {"live", "rejected"}
  PROVE  status'[i] \in {status[i], "forgotten"}
  <1>1. i \in Rows /\ i # rows + 1
    BY BoundsAssumption DEF IInv, TypeOK, Rows, Id
  <1>2. ASSUME NEW s, NEW st, NEW about, InsertEntry(s, st, about)
        PROVE  status'[i] = status[i]
    BY <1>1, <1>2 DEF InsertEntry, IInv, TypeOK
  <1>3. ASSUME NEW s \in Session,
               \/ \E n \in Nat \ {0} : Remember(s, n)
               \/ \E n \in Nat \ {0}, old \in Id : Supersede(s, old, n)
               \/ StorePart(s)
        PROVE  status'[i] = status[i]
    BY <1>2, <1>3 DEF Remember, Supersede, StorePart
  <1>4. ASSUME NEW s \in Session, LinkPart(s) \/ SplitStops(s)
        PROVE  status'[i] = status[i]
    BY <1>4 DEF LinkPart, SplitStops
  <1>5. ASSUME NEW id \in Id, Judge(id)
        PROVE  status'[i] = status[i]
    BY <1>5 DEF Judge, SetStatus, IInv, TypeOK
  <1>6. ASSUME NEW id \in Id, Retire(id) \/ Forget(id)
        PROVE  status'[i] \in {status[i], "forgotten"}
    BY <1>6 DEF Retire, Forget, IInv, TypeOK
  <1>7. ASSUME NEW from \in Id, NEW to \in Id, NEW rel \in HandRel, Link(from, to, rel)
        PROVE  status'[i] = status[i]
    BY <1>7 DEF Link
  <1>8. QED
    BY <1>3, <1>4, <1>5, <1>6, <1>7 DEF Moves, ShelfStep, StoreSplit, vars

(* The desk's judgments are final: nothing approved is later rejected and
   nothing rejected returns. *)
THEOREM JudgedOnceHolds == Spec \/ CatSpec => JudgedOnce
  <1>1. IInv /\ Moves =>
          [\A i \in Id : status[i] \in {"live", "rejected"} =>
             status'[i] \in {status[i], "forgotten"}]_vars
    BY StepKeepsJudgment
  <1>2. QED
    BY <1>1, BothMove, Invariance, PTL DEF Spec, CatSpec, JudgedOnce

-----------------------------------------------------------------------------
(* The versions of a fact none of which was deleted are one chain in the       *)
(* order they were written, and the fact is still headed; and nothing an       *)
(* untrusted session filed has left the desk's queue unjudged.                 *)
NextVersion(i, j) == i < j /\ \A k \in Entries : fact[k] = fact[i] => k <= i \/ j <= k
Last(i) == \A k \in Entries : fact[k] = fact[i] => k <= i

InOrder ==
  \A i \in Entries : Whole(fact[i]) =>
    IF superseded_by[i] = None THEN Last(i) ELSE NextVersion(i, superseded_by[i])

Headed ==
  \A i \in Entries : Whole(fact[i]) =>
    \E h \in Entries : fact[h] = fact[i] /\ superseded_by[h] = None

Untouched(f) == agent_id[f] \in Quarantined /\ Whole(f) /\ ~Judged(f)

Waits == \A i \in Rows : Untouched(fact[i]) => status[i] = "pending"

VInv == InOrder /\ Headed /\ Waits

LEMMA InitVInv == Init => VInv
  BY DEF Init, VInv, InOrder, Headed, Waits, Rows, Entries, Exists

(* Storing an entry, alone or in the place of `old`. *)
LEMMA InsertVInv ==
  ASSUME IInv, VInv, NEW s \in Session, NEW st \in {"live", "pending"}, NEW id, id = rows + 1,
         NEW about \in Rows \cup {id}, InsertEntry(s, st, about),
         NEW old \in Entries \cup {None},
         superseded_by' = IF old = None THEN superseded_by
                          ELSE [superseded_by EXCEPT ![old] = id],
         old = None => about = id,
         old # None => about = fact[old] /\ superseded_by[old] = None,
         old = None /\ s \in Quarantined => st = "pending",
         old # None /\ status[old] = "pending" => st = "pending",
         approved' = approved
  PROVE  VInv'
  <1>1. /\ id \in Id /\ id \notin Rows /\ Rows \subseteq Id /\ id \in Nat
        /\ Rows' = Rows \cup {id}
        /\ \A i \in Id \ {id} : /\ agent_id'[i] = agent_id[i] /\ status'[i] = status[i]
                                /\ fact'[i] = fact[i]
        /\ agent_id'[id] = s /\ status'[id] = st /\ fact'[id] = about
        /\ superseded_by[id] = None
        /\ Entries' = Entries \cup {id} /\ Entries \subseteq Rows
    BY InsertFacts DEF Id
  <1>2. \A i \in Id : superseded_by'[i] = IF i = old THEN id ELSE superseded_by[i]
    BY <1>1, NoneIsNoId DEF IInv, TypeOK
  <1>3. /\ \A i \in Rows : i < id /\ i \in Nat /\ i # id /\ fact[i] \in Rows
        /\ old # None => old \in Entries
    <2>1. rows \in Nat /\ Rows = 1..rows
      BY BoundsAssumption DEF Rows, IInv, TypeOK
    <2>2. \A i \in Rows : i < id /\ i \in Nat /\ i # id
      BY <2>1
    <2>3. QED
      BY <2>2, NoneIsNoId, <1>1 DEF IInv, Shape
  <1>4. ASSUME NEW f, Whole(f)' PROVE Whole(f)
    <2> SUFFICES ASSUME NEW i \in Rows, fact[i] = f PROVE Exists(i)
      BY DEF Whole, Rows
    <2>1. i \in Rows' /\ fact'[i] = f
      BY <1>1, <1>3
    <2>2. Exists(i)'
      BY <1>4, <2>1 DEF Whole, Rows
    <2>3. QED
      BY <1>1, <1>3, <2>2 DEF Exists, Rows
  <1>5. InOrder'
    <2> SUFFICES ASSUME NEW i \in Entries', Whole(fact[i])'
                 PROVE  IF superseded_by'[i] = None THEN Last(i)' ELSE NextVersion(i, superseded_by[i])'
      BY DEF InOrder
    <2>1. CASE i = id
      <3>1. superseded_by'[i] = None
        BY <1>1, <1>2, <1>3, <2>1
      <3>2. Last(i)'
        BY <1>1, <1>3, <2>1 DEF Last
      <3>3. QED
        BY <3>1, <3>2
    <2>2. CASE i # id
      <3>1. i \in Entries /\ i \in Rows /\ fact'[i] = fact[i] /\ Whole(fact[i])
        BY <1>1, <1>4, <2>2
      <3>2. CASE i = old
        <4>1. Last(i)
          BY <3>1, <3>2, <1>3, NoneIsNoId, <1>1 DEF VInv, InOrder
        <4>2. superseded_by'[i] = id
          BY <1>1, <1>2, <3>1, <3>2
        <4>3. i < id /\ \A k \in Entries' : fact'[k] = fact'[i] => k <= i \/ id <= k
          BY <1>1, <1>3, <3>1, <4>1 DEF Last
        <4>4. id # None
          BY <1>1, NoneIsNoId
        <4>5. QED
          BY <4>2, <4>3, <4>4 DEF NextVersion
      <3>3. CASE i # old
        <4>1. superseded_by'[i] = superseded_by[i]
          BY <1>1, <1>2, <3>1, <3>3
        <4>2. CASE superseded_by[i] = None
          <5>1. Last(i)
            BY <3>1, <4>2 DEF VInv, InOrder
          <5>2. fact'[id] # fact[i]
            <6>1. CASE old = None
              BY <6>1, <1>1, <1>3, <3>1
            <6>2. CASE old # None
              BY <6>2, <1>1, <1>3, <3>1, <3>3, <4>2 DEF IInv, OneHead
            <6>3. QED
              BY <6>1, <6>2
          <5>3. Last(i)'
            BY <1>1, <1>3, <3>1, <5>1, <5>2 DEF Last
          <5>4. QED
            BY <4>1, <4>2, <5>3
        <4>3. CASE superseded_by[i] # None
          <5>1. NextVersion(i, superseded_by[i])
            BY <3>1, <4>3 DEF VInv, InOrder
          <5>2. superseded_by[i] \in Rows
            BY <1>1, <3>1, <4>3 DEF IInv, TypeOK
          <5>3. superseded_by[i] <= id
            <6>1. \A j \in Rows : j <= rows + 1
              BY BoundsAssumption DEF IInv, TypeOK, Rows
            <6>2. QED
              BY <5>2, <6>1
          <5>4. NextVersion(i, superseded_by[i])'
            BY <1>1, <3>1, <4>1, <5>1, <5>3 DEF NextVersion
          <5>5. QED
            BY <4>1, <4>3, <5>4
        <4>4. QED
          BY <4>2, <4>3
      <3>4. QED
        BY <3>2, <3>3
    <2>3. QED
      BY <2>1, <2>2
  <1>6. Headed'
    <2> SUFFICES ASSUME NEW i \in Entries', Whole(fact[i])'
                 PROVE  \E h \in Entries' : fact'[h] = fact'[i] /\ superseded_by'[h] = None
      BY DEF Headed
    <2>1. superseded_by'[id] = None /\ id \in Entries'
      BY <1>1, <1>2, <1>3
    <2>2. CASE fact'[i] = about
      BY <1>1, <2>1, <2>2
    <2>3. CASE fact'[i] # about
      <3>1. i \in Entries /\ fact'[i] = fact[i] /\ Whole(fact[i])
        BY <1>1, <1>4, <2>3
      <3>2. PICK h \in Entries : fact[h] = fact[i] /\ superseded_by[h] = None
        BY <3>1 DEF VInv, Headed
      <3>3. h # old
        BY <1>3, <2>3, <3>1, <3>2, NoneIsNoId, <1>1
      <3>4. h \in Entries' /\ fact'[h] = fact[h] /\ superseded_by'[h] = None
        BY <1>1, <1>2, <1>3, <3>2, <3>3
      <3>5. QED
        BY <3>1, <3>2, <3>4
    <2>4. QED
      BY <2>2, <2>3
  <1>7. Waits'
    <2> SUFFICES ASSUME NEW i \in Rows', Untouched(fact[i])' PROVE status'[i] = "pending"
      BY DEF Waits
    <2>1. PICK f : f = fact'[i]
      OBVIOUS
    <2>2. agent_id'[f] \in Quarantined /\ Whole(f)' /\ ~Judged(f)'
      BY <2>1 DEF Untouched
    <2>3. ~Judged(f)
      <3> SUFFICES ASSUME NEW j \in Rows, fact[j] = f, j \in approved \/ status[j] = "rejected"
                   PROVE FALSE
        BY DEF Judged, Rows
      <3>1. j \in Rows' /\ fact'[j] = f /\ (j \in approved' \/ status'[j] = "rejected")
        BY <1>1, <1>3
      <3>2. QED
        BY <2>2, <3>1 DEF Judged, Rows
    <2>4. ASSUME NEW j \in Rows, fact[j] = f PROVE status[j] = "pending"
      <3>1. agent_id'[f] = agent_id[f]
        BY <1>1, <1>3, <2>4
      <3>2. QED
        BY <2>2, <2>3, <2>4, <3>1, <1>4 DEF VInv, Waits, Untouched
    <2>5. CASE i # id
      BY <1>1, <2>1, <2>4, <2>5
    <2>6. CASE i = id
      <3>1. CASE old = None
        BY <1>1, <2>1, <2>2, <2>6, <3>1
      <3>2. CASE old # None
        <4>1. old \in Rows /\ fact[old] = f
          BY <1>1, <1>3, <2>1, <2>6, <3>2
        <4>2. QED
          BY <1>1, <2>4, <2>6, <3>2, <4>1
      <3>3. QED
        BY <3>1, <3>2
    <2>7. QED
      BY <2>5, <2>6
  <1>8. QED
    BY <1>5, <1>6, <1>7 DEF VInv

(* The desk, deletion, and the steps that store, judge and delete nothing. *)
LEMMA JudgeVInv ==
  ASSUME IInv, VInv, NEW id \in Id, Judge(id)
  PROVE  VInv'
  <1>1. PICK to \in {"live", "rejected"} :
          /\ status' = [status EXCEPT ![id] = to]
          /\ to = "live" => approved' = approved \cup {id}
          /\ approved \subseteq approved'
          /\ Exists(id) /\ status[id] = "pending"
          /\ UNCHANGED <<rows, agent_id, superseded_by, fact>>
    BY DEF Judge, SetStatus
  <1>2. /\ Rows' = Rows /\ Rows \subseteq Id
        /\ \A i \in Id : status'[i] = IF i = id THEN to ELSE status[i]
    BY <1>1, RowsAreIds DEF IInv, TypeOK, Rows
  <1>3. \A i \in Id : Exists(i)' <=> Exists(i)
    BY <1>1, <1>2 DEF Exists
  <1>4. Entries' = Entries /\ Entries \subseteq Rows
    BY <1>3, RowsAreIds DEF Entries, IInv
  <1>5. \A f : Whole(f)' <=> Whole(f)
    BY <1>1, <1>2, <1>3 DEF Whole, Rows
  <1>6. InOrder' /\ Headed'
    BY <1>1, <1>4, <1>5 DEF VInv, InOrder, Headed, Last, NextVersion
  <1>7. Waits'
    <2> SUFFICES ASSUME NEW i \in Rows, Untouched(fact[i])' PROVE status'[i] = "pending"
      BY <1>2 DEF Waits
    <2>1. PICK f : f = fact[i]
      OBVIOUS
    <2>2. agent_id[f] \in Quarantined /\ Whole(f) /\ ~Judged(f)'
      BY <1>1, <1>5, <2>1 DEF Untouched
    <2>3. \A j \in Rows : fact[j] = f => j \notin approved' /\ status'[j] # "rejected"
      BY <1>1, <1>2, <2>2 DEF Judged, Rows
    <2>4. ~Judged(f)
      <3> SUFFICES ASSUME NEW j \in Rows, fact[j] = f, j \in approved \/ status[j] = "rejected"
                   PROVE FALSE
        BY DEF Judged, Rows
      <3>1. j # id
        BY <1>1, <1>2, <2>3
      <3>2. QED
        BY <1>1, <1>2, <2>3, <3>1
    <2>5. status[i] = "pending"
      BY <2>1, <2>2, <2>4 DEF VInv, Waits, Untouched
    <2>6. i # id
      BY <1>1, <1>2, <2>1, <2>3
    <2>7. QED
      BY <1>2, <2>5, <2>6
  <1>8. QED
    BY <1>6, <1>7 DEF VInv

LEMMA ForgetVInv ==
  ASSUME IInv, VInv, NEW id \in Id, Forget(id)
  PROVE  VInv'
  <1>1. /\ Exists(id) /\ Rows' = Rows /\ Rows \subseteq Id /\ id \in Rows
        /\ \A i \in Id : status'[i] = IF i = id THEN "forgotten" ELSE status[i]
        /\ \A i \in Id : superseded_by'[i] = IF superseded_by[i] = id THEN None
                                             ELSE superseded_by[i]
        /\ UNCHANGED <<rows, agent_id, fact, approved>>
    BY RowsAreIds DEF Forget, Exists, Rows, IInv, TypeOK
  <1>2. \A i \in Id : Exists(i)' <=> Exists(i) /\ i # id
    BY <1>1 DEF Exists, Rows
  <1>3. Entries' = Entries \ {id} /\ Entries \subseteq Rows
    BY <1>2, RowsAreIds DEF Entries, IInv
  <1>4. ASSUME NEW f, Whole(f)' PROVE Whole(f) /\ fact[id] # f
    BY <1>1, <1>2, <1>4 DEF Whole, Rows
  <1>5. ASSUME NEW i \in Entries, Whole(fact[i])'
        PROVE  superseded_by'[i] = superseded_by[i]
    <2>1. i \in Id /\ fact[i] # fact[id]
      BY <1>1, <1>3, <1>4, <1>5
    <2>2. superseded_by[i] # id
      BY <1>1, <2>1, <1>5, NoneIsNoId DEF IInv, ChainsKeepFact
    <2>3. QED
      BY <1>1, <2>1, <2>2
  <1>6. InOrder'
    <2> SUFFICES ASSUME NEW i \in Entries', Whole(fact[i])'
                 PROVE  IF superseded_by'[i] = None THEN Last(i)' ELSE NextVersion(i, superseded_by[i])'
      BY DEF InOrder
    <2>1. i \in Entries /\ fact' = fact /\ Whole(fact[i])
      BY <1>1, <1>3, <1>4
    <2>2. superseded_by'[i] = superseded_by[i]
      BY <1>1, <1>5, <2>1
    <2>3. IF superseded_by[i] = None THEN Last(i) ELSE NextVersion(i, superseded_by[i])
      BY <2>1 DEF VInv, InOrder
    <2>4. CASE superseded_by[i] = None
      BY <1>3, <2>1, <2>2, <2>3, <2>4 DEF Last
    <2>5. CASE superseded_by[i] # None
      BY <1>3, <2>1, <2>2, <2>3, <2>5 DEF NextVersion
    <2>6. QED
      BY <2>4, <2>5
  <1>7. Headed'
    <2> SUFFICES ASSUME NEW i \in Entries', Whole(fact[i])'
                 PROVE  \E h \in Entries' : fact'[h] = fact'[i] /\ superseded_by'[h] = None
      BY DEF Headed
    <2>1. i \in Entries /\ fact' = fact /\ Whole(fact[i]) /\ fact[id] # fact[i]
      BY <1>1, <1>3, <1>4
    <2>2. PICK h \in Entries : fact[h] = fact[i] /\ superseded_by[h] = None
      BY <2>1 DEF VInv, Headed
    <2>3. Whole(fact[h])'
      BY <2>1, <2>2
    <2>4. h # id /\ superseded_by'[h] = None
      BY <1>5, <2>1, <2>2, <2>3
    <2>5. QED
      BY <1>3, <2>1, <2>2, <2>4
  <1>8. Waits'
    <2> SUFFICES ASSUME NEW i \in Rows, Untouched(fact[i])' PROVE status'[i] = "pending"
      BY <1>1 DEF Waits
    <2>1. PICK f : f = fact[i]
      OBVIOUS
    <2>2. agent_id[f] \in Quarantined /\ Whole(f)' /\ ~Judged(f)'
      BY <1>1, <2>1 DEF Untouched
    <2>3. Whole(f) /\ fact[id] # f
      BY <1>4, <2>2
    <2>4. ~Judged(f)
      BY <1>1, <2>2, <2>3 DEF Judged, Rows
    <2>5. status[i] = "pending" /\ i # id
      BY <2>1, <2>2, <2>3, <2>4 DEF VInv, Waits, Untouched
    <2>6. QED
      BY <1>1, <2>5
  <1>9. QED
    BY <1>6, <1>7, <1>8 DEF VInv

LEMMA ColumnsStayVInv ==
  ASSUME VInv, UNCHANGED <<rows, agent_id, status, superseded_by, fact, approved>>
  PROVE  VInv'
  <1>1. /\ Rows' = Rows /\ \A i : Exists(i)' <=> Exists(i)
        /\ \A f : Whole(f)' <=> Whole(f)
    BY DEF Rows, Exists, Whole
  <1>2. Entries' = Entries
    BY <1>1 DEF Entries
  <1>3. \A f : Judged(f)' <=> Judged(f)
    BY DEF Judged
  <1>4. InOrder' /\ Headed'
    BY <1>1, <1>2 DEF VInv, InOrder, Headed, Last, NextVersion
  <1>5. Waits'
    BY <1>1, <1>3 DEF VInv, Waits, Untouched
  <1>6. QED
    BY <1>4, <1>5 DEF VInv

LEMMA NextVInv == IInv /\ VInv /\ Moves => VInv'
  <1> SUFFICES ASSUME IInv, VInv, Moves PROVE VInv'
    OBVIOUS
  <1>1. ASSUME NEW s \in Session,
               (\E n \in Nat \ {0} : Remember(s, n)) \/ StorePart(s)
        PROVE  VInv'
    <2>1. PICK id, st, old : id = rows + 1 /\ st = WriteStatus(s) /\ old = None
      OBVIOUS
    <2>2. /\ st \in {"live", "pending"} /\ (s \in Quarantined => st = "pending")
          /\ InsertEntry(s, st, id) /\ id \in Rows \cup {id} /\ approved' = approved
          /\ superseded_by' = IF old = None THEN superseded_by
                              ELSE [superseded_by EXCEPT ![old] = id]
      BY <1>1, <2>1 DEF Remember, StorePart, WriteStatus
    <2>3. /\ old \in Entries \cup {None} /\ (old = None => id = id)
          /\ old # None => id = fact[old] /\ superseded_by[old] = None
          /\ old # None /\ status[old] = "pending" => st = "pending"
          /\ old = None /\ s \in Quarantined => st = "pending"
      BY <2>1, <2>2
    <2>4. QED
      BY <2>1, <2>2, <2>3, InsertVInv
  <1>2. ASSUME NEW s \in Session, NEW n \in Nat \ {0}, NEW old \in Id, Supersede(s, old, n)
        PROVE  VInv'
    <2>1. PICK id, st : id = rows + 1 /\ st = RevisionStatus(s, old)
      OBVIOUS
    <2>2. old \in Entries /\ superseded_by[old] = None /\ old # None /\ fact[old] \in Rows
      BY <1>2, NoneIsNoId, RowsAreIds DEF Supersede, Supersedable, Entries, IInv, Shape
    <2>3. /\ st \in {"live", "pending"} /\ (status[old] = "pending" => st = "pending")
          /\ InsertEntry(s, st, fact[old]) /\ fact[old] \in Rows \cup {id}
          /\ approved' = approved
          /\ superseded_by' = IF old = None THEN superseded_by
                              ELSE [superseded_by EXCEPT ![old] = id]
      BY <1>2, <2>1, <2>2 DEF Supersede, RevisionStatus, WriteStatus
    <2>4. PICK about : about = fact[old]
      OBVIOUS
    <2>5. /\ old \in Entries \cup {None} /\ (old = None => about = id)
          /\ old # None => about = fact[old] /\ superseded_by[old] = None
          /\ old # None /\ status[old] = "pending" => st = "pending"
          /\ old = None /\ s \in Quarantined => st = "pending"
          /\ InsertEntry(s, st, about) /\ about \in Rows \cup {id}
      BY <2>2, <2>3, <2>4
    <2>6. superseded_by' = IF old = None THEN superseded_by
                           ELSE [superseded_by EXCEPT ![old] = id]
      BY <2>3
    <2>7. st \in {"live", "pending"} /\ id = rows + 1 /\ approved' = approved
      BY <2>1, <2>3
    <2> HIDE DEF Moves
    <2>8. QED
      BY <2>5, <2>6, <2>7, InsertVInv, ZenonT(120)
  <1>3. ASSUME NEW s \in Session, LinkPart(s) \/ SplitStops(s) PROVE VInv'
    BY <1>3, ColumnsStayVInv DEF LinkPart, SplitStops
  <1>4. ASSUME NEW id \in Id, Retire(id) PROVE VInv'
    BY <1>4, ColumnsStayVInv DEF Retire
  <1>5. ASSUME NEW from \in Id, NEW to \in Id, NEW rel \in HandRel, Link(from, to, rel)
        PROVE  VInv'
    BY <1>5, ColumnsStayVInv DEF Link
  <1>6. CASE UNCHANGED vars
    BY <1>6, ColumnsStayVInv DEF vars
  <1>7. QED
    BY <1>1, <1>2, <1>3, <1>4, <1>5, <1>6, JudgeVInv, ForgetVInv DEF Moves, ShelfStep, StoreSplit

(* Versions of a fact follow one another, each superseded by the next, and what
   waits was filed by a stranger, in every reachable state. *)
THEOREM VersionsInvariance == Spec \/ CatSpec => [](IInv /\ VInv)
  <1>1. CatInit => Init
    BY DEF CatInit
  <1>2. QED
    BY <1>1, InitIInv, InitVInv, NextIInv, NextVInv, BothMove, PTL DEF Spec, CatSpec

(* A fact an untrusted session filed waits at the desk, once, and no version of
   it is served, until the desk has judged some version. *)
THEOREM PendingFactsWaitHolds == Spec \/ CatSpec => []PendingFactsWait
  <1>1. ASSUME IInv, VInv PROVE PendingFactsWait
    <2>1. Entries \subseteq Rows /\ Rows \subseteq Id
      BY <1>1, RowsAreIds DEF IInv
    <2>2. ASSUME NEW i \in Entries, agent_id[fact[i]] \in Quarantined, Whole(fact[i]),
                 ~Judged(fact[i])
          PROVE  LET waiting == {j \in PendingIn : fact[j] = fact[i]} IN
                 /\ Cardinality(waiting) = 1
                 /\ \A j \in waiting : Reviewable(j)
                 /\ \A j \in Entries : fact[j] = fact[i] => ~Circulates(j)
                 /\ \A j \in Entries : \A k \in Get(j) : fact[k] # fact[i]
      <3> DEFINE waiting == {j \in PendingIn : fact[j] = fact[i]}
      <3>1. \A j \in Entries : fact[j] = fact[i] => status[j] = "pending" /\ Exists(j)
        BY <1>1, <2>1, <2>2 DEF VInv, Waits, Untouched, Entries
      <3>2. PICK h \in Entries : fact[h] = fact[i] /\ superseded_by[h] = None
        BY <1>1, <2>2 DEF VInv, Headed
      <3>3. h \in waiting
        BY <3>1, <3>2 DEF PendingIn
      <3>4. \A j \in waiting : j = h
        BY <1>1, <2>2, <3>2 DEF IInv, OneHead, PendingIn
      <3>5. waiting = {h}
        BY <3>3, <3>4
      <3>6. Cardinality(waiting) = 1
        BY <3>5, FS_Singleton
      <3>7. \A j \in waiting : Reviewable(j)
        BY <3>1 DEF PendingIn, Reviewable
      <3>8. \A j \in Entries : fact[j] = fact[i] => ~Circulates(j)
        BY <3>1 DEF Circulates
      <3>9. \A j \in Entries : \A k \in Get(j) : fact[k] # fact[i]
        BY <3>1 DEF Get
      <3>10. QED
        BY <3>6, <3>7, <3>8, <3>9
    <2>3. QED
      BY <2>2 DEF PendingFactsWait
  <1>2. QED
    BY <1>1, VersionsInvariance, PTL

-----------------------------------------------------------------------------
(* The import.  While runs do not overlap, a run that looked and found nothing
   is the only one, and nothing was stored; once the file is stored, some row
   with its source heads its chain until one is lost. *)
ImportInv ==
  /\ planned \in Nat /\ overlapped \in BOOLEAN /\ lost \in BOOLEAN
  /\ ~overlapped => planned <= 1
  /\ ~overlapped /\ ~lost =>
       /\ planned = 1 => imported = {}
       /\ imported = {} \/ \E i : imported = {i}
       /\ imported # {} => Copies # {}

LEMMA NextImportInv == IInv /\ ImportInv /\ [CatNext]_allvars => ImportInv'
  <1> SUFFICES ASSUME IInv, ImportInv, [CatNext]_allvars PROVE ImportInv'
    OBVIOUS
  <1>1. CASE UNCHANGED allvars
    BY <1>1 DEF allvars, catvars, vars, ImportInv, Copies, Exists
  <1>2. CASE CatNext
    <2>1. /\ overlapped' \in BOOLEAN /\ lost' \in BOOLEAN
          /\ overlapped' <=> overlapped \/ planned' > 1
          /\ lost' <=> lost \/ (Copies # {} /\ Copies' = {})
      BY <1>2 DEF CatNext, ImportInv
    <2>2. ASSUME imported' = imported, planned' = planned PROVE ImportInv'
      BY <2>1, <2>2 DEF ImportInv
    <2>3. CASE ImportCollect
      <3>1. Copies = {} /\ planned' = planned + 1 /\ imported' = imported
        BY <2>3 DEF ImportCollect, FindBySource, Copies
      <3>2. QED
        BY <2>1, <3>1 DEF ImportInv
    <2>4. CASE ImportDies
      <3>1. planned > 0 /\ planned' = planned - 1 /\ imported' = imported
        BY <2>4 DEF ImportDies
      <3>2. QED
        BY <2>1, <3>1 DEF ImportInv
    <2>5. ASSUME NEW n \in ImportParts, ImportStore(n) PROVE ImportInv'
      <3>1. PICK id : id = rows + 1
        OBVIOUS
      <3>2. /\ planned > 0 /\ planned' = planned - 1 /\ imported' = imported \cup {id}
            /\ source' = source \cup {id} /\ superseded_by' = superseded_by
            /\ InsertEntry(Cli, WriteStatus(Cli), id)
        BY <2>5, <3>1 DEF ImportStore, Remember
      <3>3. id \in Entries' /\ superseded_by[id] = None
        <4>1. /\ WriteStatus(Cli) \in {"live", "pending"} /\ Cli \in Session
              /\ id \in Rows \cup {id}
          BY CliAssumption DEF WriteStatus
        <4>2. QED
          BY <3>1, <3>2, <4>1, InsertFacts
      <3>4. id \in Copies'
        BY <3>2, <3>3 DEF Copies, Entries
      <3>5. QED
        BY <2>1, <3>2, <3>4 DEF ImportInv
    <2>6. QED
      BY <1>2, <2>2, <2>3, <2>4, <2>5 DEF CatNext, Step, catvars, MoveCmd, RevertCmd
  <1>3. QED
    BY <1>1, <1>2

(* A rerun of the import skips what an earlier run stored. *)
THEOREM ImportedOnceHolds == CatSpec => []ImportedOnce
  <1>1. CatInit => ImportInv
    <2> SUFFICES ASSUME CatInit PROVE ImportInv
      OBVIOUS
    <2>1. planned = 0 /\ imported = {} /\ overlapped = FALSE /\ lost = FALSE
      BY DEF CatInit
    <2>2. planned \in Nat /\ planned <= 1
      BY <2>1
    <2>3. overlapped \in BOOLEAN /\ lost \in BOOLEAN
      BY <2>1, Zenon
    <2>4. QED
      BY <2>1, <2>2, <2>3, Zenon DEF ImportInv
  <1>2. ImportInv => ImportedOnce
    <2> SUFFICES ASSUME ImportInv, ~overlapped, ~lost PROVE Cardinality(imported) <= 1
      BY DEF ImportedOnce
    <2>1. CASE imported = {}
      BY <2>1, FS_EmptySet
    <2>2. CASE \E i : imported = {i}
      BY <2>2, FS_Singleton
    <2>3. QED
      BY <2>1, <2>2 DEF ImportInv
  <1>3. QED
    BY <1>1, <1>2, Invariance, NextImportInv, PTL DEF CatSpec

-----------------------------------------------------------------------------
(* What is iterated from a set into itself has an orbit. *)
Orbits(D, x, f, N) ==
  {w \in [0 .. N -> D] : w[0] = x /\ \A n \in 0 .. N : n # 0 => w[n] = f[w[n - 1]]}

LEMMA Iterates ==
  ASSUME NEW D, NEW x \in D, NEW f \in [D -> D], NEW N \in Nat
  PROVE  Orbits(D, x, f, N) # {}
  <1> DEFINE Orbit(n, w) == w[0] = x /\ \A i \in 0 .. n : i # 0 => w[i] = f[w[i - 1]]
             T == {n \in Nat : \E w \in [0 .. n -> D] : Orbit(n, w)}
  <1>1. 0 \in T
    <2>1. [i \in 0 .. 0 |-> x] \in [0 .. 0 -> D] /\ Orbit(0, [i \in 0 .. 0 |-> x])
      OBVIOUS
    <2>2. QED
      BY <2>1
  <1>2. ASSUME NEW n \in Nat, n \in T PROVE n + 1 \in T
    <2>1. PICK w \in [0 .. n -> D] : Orbit(n, w)
      BY <1>2
    <2> DEFINE v == [i \in 0 .. n + 1 |-> IF i = n + 1 THEN f[w[n]] ELSE w[i]]
    <2>2. v \in [0 .. n + 1 -> D]
      OBVIOUS
    <2>3. Orbit(n + 1, v)
      BY <2>1
    <2> HIDE DEF v, Orbit
    <2>4. QED
      BY <2>2, <2>3
  <1> HIDE DEF T
  <1>3. N \in T
    BY <1>1, <1>2, SetInduction
  <1>4. QED
    BY <1>3 DEF T, Orbits

-----------------------------------------------------------------------------
(* A run of versions of one fact, each superseded by the next. *)
Line == {h \in Seq(Entries) : h # <<>>}

Run(h, f) ==
  /\ h \in Line
  /\ \A k \in 1 .. Len(h) : fact[h[k]] = f
  /\ \A k \in 1 .. Len(h) - 1 : superseded_by[h[k]] = h[k + 1]

LEMMA LineFacts ==
  /\ \A h \in Line : h \in Seq(Entries) /\ Len(h) \in Nat /\ Len(h) >= 1
  /\ \A h \in Line : \A k \in 1 .. Len(h) : h[k] \in Entries
  /\ \A h \in Seq(Entries) : Len(h) >= 1 => h \in Line
  <1>1. \A h \in Seq(Entries) : h = <<>> <=> Len(h) = 0
    OBVIOUS
  <1>2. QED
    BY <1>1 DEF Line

LEMMA Extends ==
  ASSUME NEW h \in Line, NEW j \in Entries
  PROVE  /\ Append(h, j) \in Line /\ Len(Append(h, j)) = Len(h) + 1
         /\ Append(h, j)[Len(h) + 1] = j
         /\ \A k \in 1 .. Len(h) : Append(h, j)[k] = h[k]
         /\ (<<j>> \o h) \in Line /\ Len(<<j>> \o h) = Len(h) + 1
         /\ (<<j>> \o h)[1] = j
         /\ \A k \in 1 .. Len(h) : (<<j>> \o h)[k + 1] = h[k]
  <1>1. h \in Seq(Entries) /\ Len(h) >= 1 /\ Len(h) \in Nat
    BY LineFacts
  <1>2. PICK g : g = Append(h, j)
    OBVIOUS
  <1>3. /\ g \in Seq(Entries) /\ Len(g) = Len(h) + 1 /\ g[Len(h) + 1] = j
        /\ \A k \in 1 .. Len(h) : g[k] = h[k]
    BY <1>1, <1>2
  <1>4. \A y : DOMAIN <<y>> = {1} /\ <<y>>[1] = y /\ Len(<<y>>) = 1
    OBVIOUS
  <1>5. <<j>> \in Seq(Entries)
    OBVIOUS
  <1>6. PICK one : one = <<j>>
    OBVIOUS
  <1>7. one \in Seq(Entries) /\ Len(one) = 1 /\ one[1] = j
    BY <1>4, <1>5, <1>6
  <1>8. /\ (one \o h) \in Seq(Entries) /\ Len(one \o h) = Len(h) + 1
        /\ (one \o h)[1] = j
        /\ \A k \in 1 .. Len(h) : (one \o h)[k + 1] = h[k]
    BY <1>1, <1>6, <1>7
  <1>9. PICK p : /\ p = one \o h /\ p \in Seq(Entries) /\ Len(p) = Len(h) + 1 /\ p[1] = j
                /\ \A k \in 1 .. Len(h) : p[k + 1] = h[k]
    BY <1>8
  <1>10. g \in Line /\ p \in Line
    <2>1. Len(g) >= 1 /\ Len(p) >= 1 /\ g \in Seq(Entries) /\ p \in Seq(Entries)
      BY <1>1, <1>3, <1>9
    <2>2. QED
      BY <2>1, LineFacts, Zenon
  <1>11. p = <<j>> \o h
    BY <1>6, <1>9
  <1>12. QED
    BY <1>2, <1>3, <1>9, <1>10, <1>11, Zenon

(* The versions of a whole fact grow, and a run of them is no longer than the
   table. *)
LEMMA RunGrows ==
  ASSUME IInv, VInv, NEW f, Whole(f), NEW h, Run(h, f)
  PROVE  /\ \A k \in 1 .. Len(h) - 1 : NextVersion(h[k], h[k + 1]) /\ h[k] < h[k + 1]
         /\ Len(h) <= MaxRows
  <1>1. /\ h \in Line /\ Len(h) \in Nat /\ Len(h) >= 1
        /\ \A k \in 1 .. Len(h) : h[k] \in Entries /\ h[k] \in 1 .. MaxRows
    BY RowsAreIds, LineFacts DEF Run, IInv, Id
  <1>2. ASSUME NEW k \in 1 .. Len(h) - 1
        PROVE  NextVersion(h[k], h[k + 1]) /\ h[k] < h[k + 1]
    <2>1. k \in 1 .. Len(h) /\ k + 1 \in 1 .. Len(h)
      BY <1>1
    <2>2. fact[h[k]] = f /\ superseded_by[h[k]] = h[k + 1] /\ h[k + 1] # None
      BY <1>1, <2>1, NoneIsNoId DEF Run, Id
    <2>3. NextVersion(h[k], h[k + 1])
      BY <1>1, <2>1, <2>2 DEF VInv, InOrder
    <2>4. QED
      BY <2>3 DEF NextVersion
  <1>3. \A n \in Nat : n \in {m \in Nat : m + 1 <= Len(h) => m + 1 <= h[m + 1]}
    <2> DEFINE T == {m \in Nat : m + 1 <= Len(h) => m + 1 <= h[m + 1]}
    <2>1. 0 \in T
      BY <1>1
    <2>2. ASSUME NEW n \in Nat, n \in T PROVE n + 1 \in T
      <3> SUFFICES ASSUME n + 2 <= Len(h) PROVE n + 2 <= h[n + 2]
        OBVIOUS
      <3>1. n + 1 \in 1 .. Len(h) - 1 /\ n + 2 \in 1 .. Len(h) /\ n + 1 \in 1 .. Len(h)
        BY <1>1
      <3>2. h[n + 1] < h[(n + 1) + 1]
        BY <1>2, <3>1
      <3>3. n + 1 <= h[n + 1] /\ (n + 1) + 1 = n + 2
        BY <2>2, <3>1, <1>1
      <3>4. h[n + 1] \in 1 .. MaxRows /\ h[n + 2] \in 1 .. MaxRows
        BY <1>1, <3>1
      <3>5. QED
        BY <3>2, <3>3, <3>4
    <2> HIDE DEF T
    <2>3. \A n \in Nat : n \in T
      BY <2>1, <2>2, SetInduction
    <2>4. QED
      BY <2>3 DEF T
  <1>4. Len(h) <= h[Len(h)]
    <2>1. Len(h) - 1 \in Nat /\ (Len(h) - 1) + 1 = Len(h)
      BY <1>1
    <2>2. QED
      BY <1>3, <2>1
  <1>5. h[Len(h)] \in 1 .. MaxRows
    BY <1>1
  <1>6. Len(h) <= MaxRows
    BY <1>1, <1>4, <1>5, BoundsAssumption
  <1>7. QED
    BY <1>2, <1>6

(* The row a version replaced. *)
LEMMA PredecessorIsIt ==
  ASSUME IInv, VInv, NEW i \in Entries, Whole(fact[i])
  PROVE  \/ /\ PredecessorOf(i) = None
            /\ \A j \in Entries : superseded_by[j] # i
         \/ /\ PredecessorOf(i) \in Entries /\ PredecessorOf(i) # None
            /\ superseded_by[PredecessorOf(i)] = i
            /\ fact[PredecessorOf(i)] = fact[i]
  <1> DEFINE S == {j \in Entries : superseded_by[j] = i}
  <1>1. Entries \subseteq Rows /\ Rows \subseteq Id /\ i \in Id /\ i # None
    BY RowsAreIds, NoneIsNoId DEF IInv
  <1>2. CASE S = {}
    BY <1>2 DEF PredecessorOf
  <1>3. CASE S # {}
    <2>1. PICK j \in Entries : superseded_by[j] = i
      BY <1>3
    <2>2. ASSUME NEW k \in S PROVE k = j
      <3>1. fact[j] = fact[i] /\ fact[k] = fact[i]
        BY <1>1, <2>1, <2>2 DEF IInv, ChainsKeepFact
      <3>2. NextVersion(j, i) /\ NextVersion(k, i)
        BY <1>1, <2>1, <2>2, <3>1 DEF VInv, InOrder
      <3>3. j \in 1 .. MaxRows /\ k \in 1 .. MaxRows /\ i \in 1 .. MaxRows
        BY <1>1 DEF Id
      <3>4. QED
        BY <2>1, <2>2, <3>1, <3>2, <3>3, BoundsAssumption DEF NextVersion
    <2>3. S = {j}
      BY <2>1, <2>2
    <2>4. j \in 1 .. MaxRows
      BY <1>1 DEF Id
    <2>5. j = CHOOSE k \in S : \A m \in S : k <= m
      BY <2>3, <2>4, BoundsAssumption
    <2>6. PredecessorOf(i) = j
      BY <1>3, <2>5 DEF PredecessorOf
    <2>7. j # None /\ fact[j] = fact[i]
      BY <1>1, <2>1, NoneIsNoId DEF IInv, ChainsKeepFact
    <2>8. QED
      BY <2>1, <2>6, <2>7
  <1>4. QED
    BY <1>2, <1>3

(* version_history, as the two walks it takes. *)
StepBack(h) == IF PredecessorOf(h[1]) = None THEN h ELSE <<PredecessorOf(h[1])>> \o h
StepOn(h) == IF superseded_by[h[Len(h)]] = None THEN h ELSE Append(h, superseded_by[h[Len(h)]])

BackWalk(i) ==
  CHOOSE walk : walk = [n \in 0..MaxRows |-> IF n = 0 THEN <<i>> ELSE StepBack(walk[n - 1])]
OnWalk(b) ==
  CHOOSE walk : walk = [n \in 0..MaxRows |-> IF n = 0 THEN b ELSE StepOn(walk[n - 1])]

LEMMA HistoryIsTwoWalks ==
  ASSUME NEW i
  PROVE  VersionHistory(i) = OnWalk(BackWalk(i)[MaxRows])[MaxRows]
  BY Zenon DEF VersionHistory, OnWalk, BackWalk, StepBack, StepOn

LEMMA StepBackRuns ==
  ASSUME IInv, VInv, NEW f, Whole(f), NEW h, Run(h, f)
  PROVE  /\ Run(StepBack(h), f)
         /\ \/ PredecessorOf(h[1]) = None /\ StepBack(h) = h
            \/ Len(StepBack(h)) = Len(h) + 1
  <1>1. /\ h \in Line /\ Len(h) \in Nat /\ Len(h) >= 1 /\ h[1] \in Entries /\ fact[h[1]] = f
        /\ \A k \in 1 .. Len(h) : fact[h[k]] = f
        /\ \A k \in 1 .. Len(h) - 1 : superseded_by[h[k]] = h[k + 1]
    BY LineFacts DEF Run
  <1>2. CASE PredecessorOf(h[1]) = None
    BY <1>2 DEF StepBack
  <1>3. CASE PredecessorOf(h[1]) # None
    <2>1. PICK j : j = PredecessorOf(h[1])
      OBVIOUS
    <2>2. j \in Entries /\ superseded_by[j] = h[1] /\ fact[j] = f
      BY <1>1, <1>3, <2>1, PredecessorIsIt
    <2>3. PICK g : g = <<j>> \o h
      OBVIOUS
    <2>4. /\ g \in Line /\ Len(g) = Len(h) + 1 /\ g[1] = j
          /\ \A k \in 1 .. Len(h) : g[k + 1] = h[k]
      BY <1>1, <2>2, <2>3, Extends
    <2>5. ASSUME NEW k \in 1 .. Len(g) PROVE fact[g[k]] = f
      <3>1. k = 1 \/ (k - 1 \in 1 .. Len(h) /\ (k - 1) + 1 = k)
        BY <1>1, <2>4
      <3>2. QED
        BY <1>1, <2>2, <2>4, <3>1
    <2>6. ASSUME NEW k \in 1 .. Len(g) - 1 PROVE superseded_by[g[k]] = g[k + 1]
      <3>1. k = 1 \/ (k - 1 \in 1 .. Len(h) - 1 /\ k - 1 \in 1 .. Len(h) /\ (k - 1) + 1 = k)
        BY <1>1, <2>4
      <3>2. g[k + 1] = h[k]
        BY <1>1, <2>4
      <3>3. QED
        BY <1>1, <2>2, <2>4, <3>1, <3>2
    <2>7. Run(g, f)
      BY <2>4, <2>5, <2>6 DEF Run
    <2>8. StepBack(h) = g
      BY <1>3, <2>1, <2>3 DEF StepBack
    <2>9. QED
      BY <2>4, <2>7, <2>8
  <1>4. QED
    BY <1>2, <1>3

LEMMA StepOnRuns ==
  ASSUME IInv, VInv, NEW f, Whole(f), NEW h, Run(h, f)
  PROVE  /\ Run(StepOn(h), f) /\ StepOn(h)[1] = h[1]
         /\ \/ superseded_by[h[Len(h)]] = None /\ StepOn(h) = h
            \/ Len(StepOn(h)) = Len(h) + 1
  <1>1. /\ h \in Line /\ Len(h) \in Nat /\ Len(h) >= 1 /\ h[Len(h)] \in Entries
        /\ fact[h[Len(h)]] = f
        /\ \A k \in 1 .. Len(h) : fact[h[k]] = f
        /\ \A k \in 1 .. Len(h) - 1 : superseded_by[h[k]] = h[k + 1]
    BY LineFacts DEF Run
  <1>2. CASE superseded_by[h[Len(h)]] = None
    BY <1>2 DEF StepOn
  <1>3. CASE superseded_by[h[Len(h)]] # None
    <2>1. PICK j : j = superseded_by[h[Len(h)]]
      OBVIOUS
    <2>2. j \in Entries /\ fact[j] = f
      BY <1>1, <1>3, <2>1 DEF IInv, TypeOK, ChainsKeepFact
    <2>3. PICK g : g = Append(h, j)
      OBVIOUS
    <2>4. /\ g \in Line /\ Len(g) = Len(h) + 1 /\ g[Len(h) + 1] = j
          /\ \A k \in 1 .. Len(h) : g[k] = h[k]
      BY <1>1, <2>2, <2>3, Extends
    <2>5. ASSUME NEW k \in 1 .. Len(g) PROVE fact[g[k]] = f
      <3>1. k = Len(h) + 1 \/ k \in 1 .. Len(h)
        BY <1>1, <2>4
      <3>2. QED
        BY <1>1, <2>2, <2>4, <3>1
    <2>6. ASSUME NEW k \in 1 .. Len(g) - 1 PROVE superseded_by[g[k]] = g[k + 1]
      <3>1. k \in 1 .. Len(h) /\ (k = Len(h) \/ (k \in 1 .. Len(h) - 1 /\ k + 1 \in 1 .. Len(h)))
        BY <1>1, <2>4
      <3>2. QED
        BY <1>1, <2>1, <2>4, <3>1
    <2>7. Run(g, f)
      BY <2>4, <2>5, <2>6 DEF Run
    <2>8. StepOn(h) = g /\ g[1] = h[1]
      BY <1>1, <1>3, <2>1, <2>3, <2>4 DEF StepOn
    <2>9. QED
      BY <2>4, <2>7, <2>8
  <1>4. QED
    BY <1>2, <1>3

(* The walk back ends at a version that replaced none. *)
LEMMA BackEnds ==
  ASSUME IInv, VInv, NEW i \in Entries, Whole(fact[i])
  PROVE  LET b == BackWalk(i)[MaxRows]
         IN  Run(b, fact[i]) /\ PredecessorOf(b[1]) = None
  <1> DEFINE f == fact[i]
             D == {h \in Line : Run(h, f)}
             step == [h \in D |-> StepBack(h)]
             W == BackWalk(i)
  <1>0. MaxRows \in Nat
    BY BoundsAssumption
  <1>1. <<i>> \in D /\ Len(<<i>>) = 1
    <2>1. \A y : DOMAIN <<y>> = {1} /\ <<y>>[1] = y /\ Len(<<y>>) = 1
      OBVIOUS
    <2>2. <<i>> \in Seq(Entries)
      OBVIOUS
    <2>3. PICK one : one = <<i>>
      OBVIOUS
    <2>4. one \in Seq(Entries) /\ Len(one) = 1 /\ one[1] = i
      BY <2>1, <2>2, <2>3
    <2>5. Run(one, f)
      BY <2>4, LineFacts DEF Run
    <2>6. QED
      BY <2>3, <2>4, <2>5 DEF Run
  <1>2. \A h \in D : StepBack(h) \in D
    BY StepBackRuns DEF Run
  <1>3. PICK w \in [0 .. MaxRows -> D] :
          w[0] = <<i>> /\ \A n \in 0 .. MaxRows : n # 0 => w[n] = step[w[n - 1]]
    <2>1. step \in [D -> D]
      BY <1>2
    <2> HIDE DEF D, step
    <2>2. PICK C, g, x : C = D /\ g = step /\ x = <<i>>
      OBVIOUS
    <2>3. x \in C /\ g \in [C -> C]
      BY <1>1, <2>1, <2>2
    <2>4. Orbits(C, x, g, MaxRows) # {}
      BY <1>0, <2>3, Iterates
    <2>5. QED
      BY <2>2, <2>4 DEF Orbits
  <1>4. W = [n \in 0 .. MaxRows |-> IF n = 0 THEN <<i>> ELSE StepBack(W[n - 1])]
    <2>1. \A n \in 0 .. MaxRows : n # 0 => n - 1 \in 0 .. MaxRows
      BY <1>0
    <2>2. \A n \in 0 .. MaxRows : w[n] = IF n = 0 THEN <<i>> ELSE StepBack(w[n - 1])
      BY <1>3, <2>1
    <2>3. w = [n \in 0 .. MaxRows |-> IF n = 0 THEN <<i>> ELSE StepBack(w[n - 1])]
      BY <2>2
    <2> HIDE DEF D, step
    <2>4. QED
      BY <2>3 DEF BackWalk
  <1> HIDE DEF W
  <1> DEFINE Good(n) == W[n] \in D /\ (Len(W[n]) = n + 1 \/ PredecessorOf(W[n][1]) = None)
             T == {n \in Nat : n <= MaxRows => Good(n)}
  <1>5. 0 \in T
    <2>1. W[0] = <<i>>
      BY <1>0, <1>4
    <2>2. QED
      BY <1>1, <2>1
  <1>6. ASSUME NEW n \in Nat, n \in T PROVE n + 1 \in T
    <2> SUFFICES ASSUME n + 1 <= MaxRows PROVE Good(n + 1)
      OBVIOUS
    <2>1. W[n + 1] = StepBack(W[n]) /\ Good(n)
      BY <1>0, <1>4, <1>6
    <2>2. PICK h \in D : h = W[n]
      BY <2>1
    <2>3. /\ StepBack(h) \in D
          /\ \/ PredecessorOf(h[1]) = None /\ StepBack(h) = h
             \/ Len(StepBack(h)) = Len(h) + 1 /\ PredecessorOf(h[1]) # None
             \/ Len(StepBack(h)) = Len(h) + 1 /\ PredecessorOf(h[1]) = None
      BY <1>2, StepBackRuns
    <2>4. PredecessorOf(h[1]) = None => StepBack(h) = h
      BY DEF StepBack
    <2>5. QED
      BY <2>1, <2>2, <2>3, <2>4
  <1>7. Good(MaxRows)
    <2> HIDE DEF T
    <2>1. MaxRows \in T
      BY <1>0, <1>5, <1>6, SetInduction
    <2>2. QED
      BY <1>0, <2>1 DEF T
  <1>8. Run(W[MaxRows], f) /\ Len(W[MaxRows]) <= MaxRows
    BY <1>7, RunGrows
  <1>9. Len(W[MaxRows]) # MaxRows + 1
    BY <1>0, <1>8, LineFacts DEF Run
  <1>10. QED
    BY <1>7, <1>8, <1>9 DEF W

(* The walk on ends at the version that has no successor. *)
LEMMA OnEnds ==
  ASSUME IInv, VInv, NEW f, Whole(f), NEW b, Run(b, f)
  PROVE  LET h == OnWalk(b)[MaxRows]
         IN  Run(h, f) /\ h[1] = b[1] /\ superseded_by[h[Len(h)]] = None
  <1> DEFINE D == {h \in Line : Run(h, f)}
             step == [h \in D |-> StepOn(h)]
             W == OnWalk(b)
  <1>0. MaxRows \in Nat
    BY BoundsAssumption
  <1>1. b \in D /\ Len(b) >= 1
    BY LineFacts DEF Run
  <1>2. \A h \in D : StepOn(h) \in D
    BY StepOnRuns DEF Run
  <1>3. PICK w \in [0 .. MaxRows -> D] :
          w[0] = b /\ \A n \in 0 .. MaxRows : n # 0 => w[n] = step[w[n - 1]]
    <2>1. step \in [D -> D]
      BY <1>2
    <2> HIDE DEF D, step
    <2>2. PICK C, g, x : C = D /\ g = step /\ x = b
      OBVIOUS
    <2>3. x \in C /\ g \in [C -> C]
      BY <1>1, <2>1, <2>2
    <2>4. Orbits(C, x, g, MaxRows) # {}
      BY <1>0, <2>3, Iterates
    <2>5. QED
      BY <2>2, <2>4 DEF Orbits
  <1>4. W = [n \in 0 .. MaxRows |-> IF n = 0 THEN b ELSE StepOn(W[n - 1])]
    <2>1. \A n \in 0 .. MaxRows : n # 0 => n - 1 \in 0 .. MaxRows
      BY <1>0
    <2>2. \A n \in 0 .. MaxRows : w[n] = IF n = 0 THEN b ELSE StepOn(w[n - 1])
      BY <1>3, <2>1
    <2>3. w = [n \in 0 .. MaxRows |-> IF n = 0 THEN b ELSE StepOn(w[n - 1])]
      BY <2>2
    <2> HIDE DEF D, step
    <2>4. QED
      BY <2>3 DEF OnWalk
  <1> HIDE DEF W
  <1> DEFINE Good(n) == /\ W[n] \in D /\ W[n][1] = b[1]
                        /\ Len(W[n]) >= n + 1 \/ superseded_by[W[n][Len(W[n])]] = None
             T == {n \in Nat : n <= MaxRows => Good(n)}
  <1>5. 0 \in T
    <2>1. W[0] = b
      BY <1>0, <1>4
    <2>2. QED
      BY <1>1, <2>1
  <1>6. ASSUME NEW n \in Nat, n \in T PROVE n + 1 \in T
    <2> SUFFICES ASSUME n + 1 <= MaxRows PROVE Good(n + 1)
      OBVIOUS
    <2>1. W[n + 1] = StepOn(W[n]) /\ Good(n)
      BY <1>0, <1>4, <1>6
    <2>2. PICK h \in D : h = W[n]
      BY <2>1
    <2>3. /\ StepOn(h) \in D /\ StepOn(h)[1] = h[1]
          /\ \/ superseded_by[h[Len(h)]] = None /\ StepOn(h) = h
             \/ Len(StepOn(h)) = Len(h) + 1
      BY <1>2, StepOnRuns
    <2>4. superseded_by[h[Len(h)]] = None => StepOn(h) = h
      BY DEF StepOn
    <2>5. Len(h) \in Nat
      BY LineFacts
    <2>6. QED
      BY <2>1, <2>2, <2>3, <2>4, <2>5
  <1>7. Good(MaxRows)
    <2> HIDE DEF T
    <2>1. MaxRows \in T
      BY <1>0, <1>5, <1>6, SetInduction
    <2>2. QED
      BY <1>0, <2>1 DEF T
  <1>8. Run(W[MaxRows], f) /\ Len(W[MaxRows]) <= MaxRows
    BY <1>7, RunGrows
  <1>9. ~(Len(W[MaxRows]) >= MaxRows + 1)
    BY <1>0, <1>8, LineFacts DEF Run
  <1>10. QED
    BY <1>7, <1>8, <1>9 DEF W

(* A run from a version that replaced none to one that has no successor passes
   through every version of the fact. *)
LEMMA RunIsWhole ==
  ASSUME IInv, VInv, NEW f, Whole(f), NEW h, Run(h, f),
         PredecessorOf(h[1]) = None, superseded_by[h[Len(h)]] = None
  PROVE  {h[k] : k \in DOMAIN h} = {j \in Entries : fact[j] = f}
  <1> DEFINE m == Len(h)
  <1>1. /\ h \in Line /\ m \in Nat /\ m >= 1 /\ DOMAIN h = 1 .. m
        /\ \A k \in 1 .. m : h[k] \in Entries /\ fact[h[k]] = f /\ h[k] \in Nat
    <2>1. Entries \subseteq Nat
      BY RowsAreIds DEF IInv, Id
    <2>2. h \in Line /\ \A k \in 1 .. m : fact[h[k]] = f
      BY DEF Run
    <2>3. m \in Nat /\ m >= 1 /\ DOMAIN h = 1 .. m /\ \A k \in 1 .. m : h[k] \in Entries
      BY <2>2, LineFacts
    <2>4. QED
      BY <2>1, <2>2, <2>3
  <1>2. \A k \in 1 .. m - 1 : NextVersion(h[k], h[k + 1]) /\ h[k] < h[k + 1]
    BY RunGrows
  <1>3. h[1] \in Entries /\ fact[h[1]] = f /\ h[m] \in Entries /\ fact[h[m]] = f /\ Last(h[m])
    BY <1>1 DEF VInv, InOrder
  <1>4. \A j \in Entries : superseded_by[j] # h[1]
    BY <1>3, NoneIsNoId, PredecessorIsIt DEF IInv
  <1> HIDE DEF m
  <1>5. ASSUME NEW j \in Entries, fact[j] = f PROVE h[1] <= j
    <2> DEFINE T == {n \in Nat : \A i \in Entries : fact[i] = f /\ i < h[1] => i < h[1] - n}
    <2>1. Entries \subseteq Nat /\ h[1] \in Nat
      BY <1>3, RowsAreIds DEF IInv, Id
    <2>2. 0 \in T
      BY <2>1
    <2>3. ASSUME NEW n \in Nat, n \in T PROVE n + 1 \in T
      <3> SUFFICES ASSUME NEW i \in Entries, fact[i] = f, i < h[1]
                   PROVE  i < h[1] - (n + 1)
        OBVIOUS
      <3>1. ~Last(i)
        BY <1>3, <2>1 DEF Last
      <3>2. superseded_by[i] # None /\ NextVersion(i, superseded_by[i])
        BY <3>1 DEF VInv, InOrder
      <3>3. PICK s \in Entries : s = superseded_by[i] /\ fact[s] = f
        BY <3>2 DEF IInv, TypeOK, ChainsKeepFact
      <3>4. i < s /\ s <= h[1] /\ s # h[1]
        BY <1>3, <1>4, <2>1, <3>2, <3>3 DEF NextVersion
      <3>5. s < h[1] - n
        BY <2>1, <2>3, <3>3, <3>4
      <3>6. QED
        BY <2>1, <3>4, <3>5
    <2> HIDE DEF T
    <2>4. h[1] \in T
      BY <2>1, <2>2, <2>3, SetInduction
    <2>5. QED
      BY <2>1, <2>4, <1>5 DEF T
  <1>6. ASSUME NEW j \in Entries, fact[j] = f PROVE \E k \in 1 .. m : h[k] = j
    <2> SUFFICES ASSUME \A k \in 1 .. m : h[k] # j PROVE FALSE
      OBVIOUS
    <2> DEFINE T == {n \in Nat : n + 1 <= m => h[n + 1] < j}
    <2>1. j \in Nat
      BY RowsAreIds DEF IInv, Id
    <2>2. 0 \in T
      BY <1>1, <1>5, <1>6, <2>1
    <2>3. ASSUME NEW n \in Nat, n \in T PROVE n + 1 \in T
      <3> SUFFICES ASSUME n + 2 <= m PROVE h[n + 2] < j
        OBVIOUS
      <3>1. n + 1 \in 1 .. m - 1 /\ n + 1 \in 1 .. m /\ n + 2 \in 1 .. m /\ (n + 1) + 1 = n + 2
        BY <1>1
      <3>2. NextVersion(h[n + 1], h[n + 2])
        BY <1>2, <3>1
      <3>3. h[n + 1] < j /\ h[n + 1] \in Nat /\ h[n + 2] \in Nat
        BY <1>1, <2>3, <3>1
      <3>4. h[n + 2] <= j
        BY <1>1, <1>6, <2>1, <3>1, <3>2, <3>3 DEF NextVersion
      <3>5. QED
        BY <2>1, <3>1, <3>3, <3>4
    <2> HIDE DEF T
    <2>4. \A n \in Nat : n \in T
      BY <2>2, <2>3, SetInduction
    <2>5. m - 1 \in T /\ (m - 1) + 1 = m
      BY <1>1, <2>4
    <2>6. h[m] < j
      BY <1>1, <2>5 DEF T
    <2>7. h[m] \in Nat /\ j <= h[m]
      BY <1>1, <1>3, <1>6 DEF Last
    <2>8. QED
      BY <2>1, <2>6, <2>7
  <1>7. QED
    BY <1>1, <1>6

(* No revision is lost: the history of a fact none of whose versions was
   forgotten numbers all of them, each once and oldest first, from whichever
   version the reader enters. *)
THEOREM HistoryReadsBackHolds == Spec \/ CatSpec => []HistoryReadsBack
  <1>1. ASSUME IInv, VInv PROVE HistoryReadsBack
    <2> SUFFICES ASSUME NEW i \in Entries, Whole(fact[i])
                 PROVE  LET h == VersionHistory(i) IN
                        /\ {h[k] : k \in DOMAIN h} = {j \in Entries : fact[j] = fact[i]}
                        /\ \A k \in 1..(Len(h) - 1) : h[k] < h[k + 1] /\ superseded_by[h[k]] = h[k + 1]
      BY DEF HistoryReadsBack
    <2>1. PICK b : b = BackWalk(i)[MaxRows]
      OBVIOUS
    <2>2. PICK h : h = OnWalk(b)[MaxRows]
      OBVIOUS
    <2>3. Run(b, fact[i]) /\ PredecessorOf(b[1]) = None
      BY <1>1, <2>1, BackEnds
    <2>4. Run(h, fact[i]) /\ h[1] = b[1] /\ superseded_by[h[Len(h)]] = None
      BY <1>1, <2>2, <2>3, OnEnds
    <2>5. h = VersionHistory(i)
      BY <2>1, <2>2, HistoryIsTwoWalks
    <2>6. {h[k] : k \in DOMAIN h} = {j \in Entries : fact[j] = fact[i]}
      BY <1>1, <2>3, <2>4, RunIsWhole
    <2>7. \A k \in 1..(Len(h) - 1) : h[k] < h[k + 1] /\ superseded_by[h[k]] = h[k + 1]
      BY <1>1, <2>4, RunGrows DEF Run
    <2>8. QED
      BY <2>5, <2>6, <2>7
  <1>2. QED
    BY <1>1, VersionsInvariance, PTL

-----------------------------------------------------------------------------
(* The sets that splits draw, one part after another.  A part continues at
   most one and is continued by at most one, ... *)
Continues(i, j) == <<i, j, "continues">> \in links

Linear ==
  \A i, j, k \in Id :
    /\ Continues(i, j) /\ Continues(i, k) => j = k
    /\ Continues(j, i) /\ Continues(k, i) => j = k

(* ... parts can be numbered along their sets, ... *)
Numbers(rank) == \A i, j \in Id : Continues(i, j) => rank[j] < rank[i]

Numbered == \E rank \in [Id -> Nat] : Numbers(rank)

(* ... and the part a session will continue next is continued by none: the
   last it stored, or the one before, while the last is in no set yet. *)
Uncontinued(i) == \A j \in Id : ~Continues(j, i)
Apart(i) == \A j \in Id : ~Continues(i, j) /\ ~Continues(j, i)

Tip(s, w) ==
  /\ w.left > 0 => Len(w.ids) >= 1
  /\ w.loose => Len(w.ids) >= 2 /\ Apart(w.ids[Len(w.ids)])
                /\ Uncontinued(w.ids[Len(w.ids) - 1])
  /\ ~w.loose /\ Len(w.ids) >= 1 => Uncontinued(w.ids[Len(w.ids)])
  /\ \A k \in 1 .. Len(w.ids) : agent_id[w.ids[k]] = s

Tips == \A s \in Session : Tip(s, writing[s])

SetsInv == Linear /\ Numbered /\ Tips

-----------------------------------------------------------------------------
LEMMA InitSets == Init => SetsInv
  <1> SUFFICES ASSUME Init PROVE SetsInv
    OBVIOUS
  <1>1. links = {} /\ \A s \in Session : writing[s] = Idle
    BY DEF Init
  <1>2. Linear
    BY <1>1 DEF Linear, Continues
  <1>3. Numbered
    <2>1. [i \in Id |-> 0] \in [Id -> Nat]
      OBVIOUS
    <2>2. Numbers([i \in Id |-> 0])
      BY <1>1 DEF Numbers, Continues
    <2>3. QED
      BY <2>1, <2>2 DEF Numbered
  <1>4. Tips
    <2>1. Idle.left = 0 /\ Idle.loose = FALSE /\ Idle.ids = <<>> /\ Len(Idle.ids) = 0
      BY DEF Idle
    <2>2. QED
      BY <1>1, <2>1 DEF Tips, Tip
  <1>5. QED
    BY <1>2, <1>3, <1>4 DEF SetsInv

(* What is joined is a row. *)
LEMMA EdgesJoinRows ==
  ASSUME IInv, NEW i, NEW j, Continues(i, j)
  PROVE  i \in Rows /\ j \in Rows
  BY RowsAreIds DEF IInv, TypeOK, Continues

(* Fewer edges leave the sets in order. *)
LEMMA FewerEdges ==
  ASSUME SetsInv, links' \subseteq links, UNCHANGED <<writing, agent_id>>
  PROVE  SetsInv'
  <1>1. \A i, j : Continues(i, j)' => Continues(i, j)
    BY DEF Continues
  <1>2. Linear'
    BY <1>1 DEF SetsInv, Linear
  <1>3. Numbered'
    BY <1>1 DEF SetsInv, Numbered, Numbers
  <1>4. \A i : (Uncontinued(i) => Uncontinued(i)') /\ (Apart(i) => Apart(i)')
    BY <1>1 DEF Uncontinued, Apart
  <1>5. Tips'
    BY <1>4 DEF SetsInv, Tips, Tip
  <1>6. QED
    BY <1>2, <1>3, <1>5 DEF SetsInv

(* What is linked by hand joins no set. *)
LEMMA HandEdges ==
  ASSUME SetsInv, NEW from, NEW to, NEW rel \in HandRel, Link(from, to, rel)
  PROVE  SetsInv'
  <1>1. /\ links' = links \cup {<<from, to, rel>>} /\ rel # "continues"
        /\ writing' = writing /\ agent_id' = agent_id
    BY DEF Link, HandRel
  <1>2. \A i, j : Continues(i, j)' <=> Continues(i, j)
    BY <1>1 DEF Continues
  <1>3. Linear'
    BY <1>2 DEF SetsInv, Linear
  <1>4. Numbered'
    BY <1>2 DEF SetsInv, Numbered, Numbers
  <1>5. \A i : (Uncontinued(i) => Uncontinued(i)') /\ (Apart(i) => Apart(i)')
    BY <1>2 DEF Uncontinued, Apart
  <1>6. Tips'
    BY <1>1, <1>5 DEF SetsInv, Tips, Tip
  <1>7. QED
    BY <1>3, <1>4, <1>6 DEF SetsInv

(* A fresh row is in no set, and no session holds it. *)
LEMMA FreshRow ==
  ASSUME IInv, rows < MaxRows
  PROVE  /\ rows + 1 \in Id /\ rows + 1 \notin Rows /\ rows \in Nat
         /\ Apart(rows + 1)
         /\ \A s \in Session : \A k \in 1 .. Len(writing[s].ids) :
              writing[s].ids[k] \in Rows /\ writing[s].ids[k] \in Id
  <1>1. rows \in Nat /\ rows + 1 \in Id /\ rows + 1 \notin Rows
    BY BoundsAssumption DEF IInv, TypeOK, Id, Rows
  <1>2. Apart(rows + 1)
    BY <1>1, EdgesJoinRows DEF Apart
  <1>3. ASSUME NEW s \in Session, NEW k \in 1 .. Len(writing[s].ids)
        PROVE  writing[s].ids[k] \in Rows
    BY DEF IInv, TypeOK, Rows
  <1>4. QED
    BY <1>1, <1>2, <1>3, RowsAreIds DEF IInv

(* A session that begins, or stops, with the sets as they are. *)
LEMMA BeginsOrStops ==
  ASSUME IInv, SetsInv, NEW s \in Session, NEW w,
         writing' = [writing EXCEPT ![s] = w], Tip(s, w)',
         links' = links,
         \A t \in Session : \A k \in 1 .. Len(writing[t].ids) :
           agent_id'[writing[t].ids[k]] = agent_id[writing[t].ids[k]]
  PROVE  SetsInv'
  <1>1. \A i, j : Continues(i, j)' <=> Continues(i, j)
    BY DEF Continues
  <1>2. Linear'
    BY <1>1 DEF SetsInv, Linear
  <1>3. Numbered'
    BY <1>1 DEF SetsInv, Numbered, Numbers
  <1>4. \A i : (Uncontinued(i) => Uncontinued(i)') /\ (Apart(i) => Apart(i)')
    BY <1>1 DEF Uncontinued, Apart
  <1>5. ASSUME NEW t \in Session PROVE Tip(t, writing[t])'
    <2>1. writing'[t] = IF t = s THEN w ELSE writing[t]
      BY DEF IInv, Shape
    <2>2. CASE t = s
      BY <2>1, <2>2 DEF Tip
    <2>3. CASE t # s
      <3>1. Tip(t, writing[t])
        BY DEF SetsInv, Tips
      <3>2. QED
        BY <1>4, <2>1, <2>3, <3>1 DEF Tip
    <2>4. QED
      BY <2>2, <2>3
  <1>6. Tips'
    BY <1>5 DEF Tips
  <1>7. QED
    BY <1>2, <1>3, <1>6 DEF SetsInv

LEMMA IdleTip ==
  ASSUME NEW s PROVE Tip(s, Idle)'
  <1>1. Idle.left = 0 /\ Idle.loose = FALSE /\ Idle.ids = <<>> /\ Len(Idle.ids) = 0
    BY DEF Idle
  <1>2. QED
    BY <1>1 DEF Tip

(* What a write of n parts remembers after the first. *)
First(id, n) ==
  IF n = 1 THEN Idle ELSE [ids |-> <<id>>, left |-> n - 1, loose |-> FALSE]

LEMMA FirstTip ==
  ASSUME NEW s, NEW id, NEW n \in Nat \ {0}, agent_id'[id] = s,
         n # 1 => Uncontinued(id)'
  PROVE  Tip(s, First(id, n))'
  <1>1. CASE n = 1
    BY <1>1, IdleTip DEF First
  <1>2. CASE n # 1
    <2>1. PICK w : w = First(id, n)
      OBVIOUS
    <2>2. w.ids = <<id>> /\ w.loose = FALSE /\ Len(w.ids) = 1 /\ w.ids[1] = id
      BY <1>2, <2>1 DEF First
    <2>3. QED
      BY <1>2, <2>1, <2>2 DEF Tip
  <1>3. QED
    BY <1>1, <1>2

LEMMA RememberSets ==
  ASSUME IInv, SetsInv, NEW s \in Session, NEW n \in Nat \ {0}, Remember(s, n)
  PROVE  SetsInv'
  <1> PICK id : id = rows + 1
    OBVIOUS
  <1>1. /\ rows < MaxRows /\ links' = links /\ agent_id' = [agent_id EXCEPT ![id] = s]
        /\ writing' = [writing EXCEPT ![s] = First(id, n)]
    BY DEF Remember, InsertEntry, FirstPart, First
  <1>2. agent_id'[id] = s /\ \A i \in Id \ {id} : agent_id'[i] = agent_id[i]
    BY <1>1, FreshRow DEF IInv, TypeOK
  <1>3. Apart(id)
    BY <1>1, FreshRow
  <1>4. Uncontinued(id)'
    BY <1>1, <1>3 DEF Apart, Uncontinued, Continues
  <1>5. Tip(s, First(id, n))'
    BY <1>2, <1>4, FirstTip
  <1>6. \A t \in Session : \A k \in 1 .. Len(writing[t].ids) :
           agent_id'[writing[t].ids[k]] = agent_id[writing[t].ids[k]]
    BY <1>1, <1>2, FreshRow
  <1>7. PICK w : w = First(id, n)
    OBVIOUS
  <1>8. QED
    BY <1>1, <1>5, <1>6, <1>7, BeginsOrStops

LEMMA SplitStopsSets ==
  ASSUME IInv, SetsInv, NEW s \in Session, SplitStops(s)
  PROVE  SetsInv'
  <1>1. writing' = [writing EXCEPT ![s] = Idle] /\ links' = links /\ agent_id' = agent_id
    BY DEF SplitStops
  <1>2. QED
    BY <1>1, IdleTip, BeginsOrStops

LEMMA StorePartSets ==
  ASSUME IInv, SetsInv, NEW s \in Session, StorePart(s)
  PROVE  SetsInv'
  <1> PICK id, old, w : /\ id = rows + 1 /\ old = writing[s]
                        /\ w = [ids |-> Append(old.ids, id), left |-> old.left - 1, loose |-> TRUE]
    OBVIOUS
  <1> PICK m : m = Len(old.ids)
    OBVIOUS
  <1>1. /\ rows < MaxRows /\ links' = links /\ agent_id' = [agent_id EXCEPT ![id] = s]
        /\ old.left > 0 /\ ~old.loose /\ writing' = [writing EXCEPT ![s] = w]
    BY DEF StorePart, InsertEntry
  <1>2. agent_id'[id] = s /\ \A i \in Id \ {id} : agent_id'[i] = agent_id[i]
    BY <1>1, FreshRow DEF IInv, TypeOK
  <1>3. \A t \in Session : \A k \in 1 .. Len(writing[t].ids) :
           agent_id'[writing[t].ids[k]] = agent_id[writing[t].ids[k]]
    BY <1>1, <1>2, FreshRow
  <1>4. Tip(s, old) /\ old.ids \in Seq(Rows) /\ m \in Nat /\ m >= 1
    BY <1>1 DEF SetsInv, Tips, Tip, IInv, TypeOK, Rows
  <1>5. /\ Len(w.ids) = m + 1 /\ w.ids[m + 1] = id /\ w.loose
        /\ \A k \in 1 .. m : w.ids[k] = old.ids[k]
    BY <1>4
  <1>6. PICK last : last = old.ids[m]
    OBVIOUS
  <1>7. Apart(id) /\ Uncontinued(last)
    BY <1>1, <1>4, <1>6, FreshRow DEF Tip
  <1>8. Apart(id)' /\ Uncontinued(last)'
    BY <1>1, <1>7 DEF Apart, Uncontinued, Continues
  <1>9. \A k \in 1 .. m : agent_id'[old.ids[k]] = s
    BY <1>3, <1>4 DEF Tip
  <1>10. Tip(s, w)'
    <2>1. \A k \in 1 .. m + 1 : agent_id'[w.ids[k]] = s
      <3>1. \A k \in 1 .. m + 1 : k = m + 1 \/ k \in 1 .. m
        BY <1>4
      <3>2. QED
        BY <1>2, <1>5, <1>9, <3>1
    <2>2. (m + 1) - 1 = m /\ m \in 1 .. m /\ m + 1 >= 2
      BY <1>4
    <2>3. QED
      BY <1>5, <1>6, <1>8, <2>1, <2>2 DEF Tip
  <1>11. QED
    BY <1>1, <1>3, <1>10, BeginsOrStops

(* A split goes on where its parts stay as free as they were. *)
LEMMA TipStays ==
  ASSUME NEW t, NEW v, Tip(t, v), v.ids \in Seq(Id), v.loose \in BOOLEAN,
         \A k \in 1 .. Len(v.ids) : agent_id'[v.ids[k]] = agent_id[v.ids[k]],
         \A x \in Id : x \in {v.ids[k] : k \in 1 .. Len(v.ids)} =>
           (Uncontinued(x) => Uncontinued(x)') /\ (Apart(x) => Apart(x)')
  PROVE  Tip(t, v)'
  <1>1. PICK m : m = Len(v.ids)
    OBVIOUS
  <1>2. m \in Nat /\ \A k \in 1 .. m : v.ids[k] \in Id
    BY <1>1
  <1>3. \A k \in 1 .. m : agent_id'[v.ids[k]] = t
    BY <1>1 DEF Tip
  <1>4. ASSUME NEW k \in 1 .. m, NEW x, x = v.ids[k]
        PROVE  (Uncontinued(x) => Uncontinued(x)') /\ (Apart(x) => Apart(x)')
    BY <1>1, <1>2, <1>4
  <1>5. v.loose => m >= 2 /\ Apart(v.ids[m])' /\ Uncontinued(v.ids[m - 1])'
    <2>1. SUFFICES ASSUME v.loose PROVE m >= 2 /\ Apart(v.ids[m])' /\ Uncontinued(v.ids[m - 1])'
      OBVIOUS
    <2>2. PICK x, y : x = v.ids[m] /\ y = v.ids[m - 1]
      OBVIOUS
    <2>3. m >= 2 /\ Apart(x) /\ Uncontinued(y)
      BY <1>1, <2>1, <2>2 DEF Tip
    <2>4. m \in 1 .. m /\ m - 1 \in 1 .. m
      BY <1>2, <2>3
    <2>5. Apart(x)' /\ Uncontinued(y)'
      BY <1>4, <2>2, <2>3, <2>4
    <2>6. QED
      BY <2>2, <2>3, <2>5
  <1>6. ~v.loose /\ m >= 1 => Uncontinued(v.ids[m])'
    <2>1. SUFFICES ASSUME ~v.loose, m >= 1 PROVE Uncontinued(v.ids[m])'
      OBVIOUS
    <2>2. PICK x : x = v.ids[m]
      OBVIOUS
    <2>3. Uncontinued(x) /\ m \in 1 .. m
      BY <1>1, <1>2, <2>1, <2>2 DEF Tip
    <2>4. Uncontinued(x)'
      BY <1>4, <2>2, <2>3
    <2>5. QED
      BY <2>2, <2>4
  <1>7. v.left > 0 => m >= 1
    BY <1>1 DEF Tip
  <1>8. QED
    BY <1>1, <1>3, <1>5, <1>6, <1>7 DEF Tip

LEMMA LinkPartSets ==
  ASSUME IInv, SetsInv, NEW s \in Session, LinkPart(s)
  PROVE  SetsInv'
  <1> PICK w, n, a, b : w = writing[s] /\ n = Len(w.ids) /\ a = w.ids[n] /\ b = w.ids[n - 1]
    OBVIOUS
  <1>1. /\ w.loose /\ a # b /\ links' = links \cup {<<a, b, "continues">>} /\ agent_id' = agent_id
        /\ writing' = [writing EXCEPT ![s] = IF w.left = 0 THEN Idle ELSE [w EXCEPT !.loose = FALSE]]
    BY DEF LinkPart, Linkable
  <1>2. Tip(s, w) /\ w.ids \in Seq(Rows)
    BY DEF SetsInv, Tips, IInv, TypeOK, Rows
  <1>3. /\ n \in Nat /\ n >= 2 /\ n \in 1 .. n /\ n - 1 \in 1 .. n
        /\ Apart(a) /\ Uncontinued(b) /\ agent_id[a] = s /\ agent_id[b] = s
    <2>1. n \in Nat /\ n >= 2
      BY <1>1, <1>2 DEF Tip
    <2>2. n \in 1 .. n /\ n - 1 \in 1 .. n
      BY <2>1
    <2>3. Apart(a) /\ Uncontinued(b) /\ \A k \in 1 .. n : agent_id[w.ids[k]] = s
      BY <1>1, <1>2 DEF Tip
    <2>4. QED
      BY <2>1, <2>2, <2>3
  <1>4. a \in Id /\ b \in Id
    BY <1>2, <1>3, RowsAreIds DEF IInv
  <1>5. \A i, j : Continues(i, j)' <=> Continues(i, j) \/ (i = a /\ j = b)
    BY <1>1 DEF Continues
  <1>6. Linear'
    BY <1>3, <1>5 DEF SetsInv, Linear, Apart, Uncontinued
  <1>7. Numbered'
    <2>1. PICK rank \in [Id -> Nat] : Numbers(rank)
      BY DEF SetsInv, Numbered
    <2> DEFINE r == [rank EXCEPT ![a] = rank[b] + 1]
    <2>2. r \in [Id -> Nat] /\ r[a] = rank[b] + 1 /\ \A i \in Id \ {a} : r[i] = rank[i]
      BY <1>4, <2>1
    <2> HIDE DEF r
    <2>3. ASSUME NEW i \in Id, NEW j \in Id, Continues(i, j)' PROVE r[j] < r[i]
      <3>1. CASE i = a /\ j = b
        BY <1>1, <1>4, <2>1, <2>2, <3>1
      <3>2. CASE Continues(i, j)
        <4>1. i # a /\ j # a
          BY <1>3, <3>2 DEF Apart
        <4>2. QED
          BY <2>1, <2>2, <3>2, <4>1 DEF Numbers
      <3>3. QED
        BY <1>5, <2>3, <3>1, <3>2
    <2>4. QED
      BY <2>2, <2>3 DEF Numbered, Numbers
  <1>8. \A i \in Id : i # a /\ i # b =>
           (Uncontinued(i) => Uncontinued(i)') /\ (Apart(i) => Apart(i)')
    BY <1>5 DEF Uncontinued, Apart
  <1>9. Uncontinued(a)'
    BY <1>1, <1>3, <1>5 DEF Uncontinued, Apart
  <1>10. ASSUME NEW t \in Session, t # s PROVE Tip(t, writing[t])'
    <2>1. PICK v : v = writing[t]
      OBVIOUS
    <2>2. Tip(t, v) /\ writing'[t] = v /\ v.ids \in Seq(Rows) /\ v.loose \in BOOLEAN
      BY <1>1, <1>10, <2>1 DEF SetsInv, Tips, IInv, Shape, TypeOK, Rows
    <2>3. \A k \in 1 .. Len(v.ids) : v.ids[k] \in Id /\ v.ids[k] # a /\ v.ids[k] # b
      BY <1>3, <1>10, <2>2, RowsAreIds DEF Tip, IInv
    <2>4. v.ids \in Seq(Id) /\ \A k \in 1 .. Len(v.ids) : agent_id'[v.ids[k]] = agent_id[v.ids[k]]
      BY <1>1, <2>2, <2>3
    <2>5. Tip(t, v)'
      BY <1>8, <2>2, <2>3, <2>4, TipStays
    <2>6. QED
      BY <2>2, <2>5 DEF Tip
  <1>11. Tip(s, writing[s])'
    <2>1. PICK v : v = writing'[s]
      OBVIOUS
    <2>2. v = IF w.left = 0 THEN Idle ELSE [w EXCEPT !.loose = FALSE]
      BY <1>1, <2>1 DEF IInv, Shape
    <2>3. Tip(s, v)'
      <3>1. CASE w.left = 0
        BY <2>2, <3>1, IdleTip
      <3>2. CASE w.left # 0
        <4>1. DOMAIN w = {"ids", "left", "loose"}
          BY DEF IInv, Shape
        <4>2. v.ids = w.ids /\ v.loose = FALSE /\ v.left = w.left
          BY <2>2, <3>2, <4>1
        <4>3. QED
          BY <1>1, <1>2, <1>3, <1>9, <4>2 DEF Tip
      <3>3. QED
        BY <3>1, <3>2
    <2>4. QED
      BY <2>1, <2>3 DEF Tip
  <1>12. Tips'
    BY <1>10, <1>11 DEF Tips
  <1>13. QED
    BY <1>6, <1>7, <1>12 DEF SetsInv

(* A version takes its predecessor's place in the sets, which then stands
   apart; unless it branches a set, the parts to come continue a last one. *)
LEMMA SupersedeSets ==
  ASSUME IInv, TypeOK', SetsInv, NEW s \in Session, NEW old \in Id, NEW n \in Nat \ {0},
         Supersede(s, old, n), ~Branches
  PROVE  SetsInv'
  <1> PICK id : id = rows + 1
    OBVIOUS
  <1>1. /\ rows < MaxRows /\ rows' = id /\ links' = MoveEdges(old, id) /\ old \in Entries
        /\ writing[s] = Idle /\ writing' = [writing EXCEPT ![s] = First(id, n)]
        /\ agent_id' = [agent_id EXCEPT ![id] = s]
    BY DEF Supersede, Supersedable, Entries, InsertEntry, FirstPart, First
  <1>2. id \in Id /\ id \notin Rows /\ old \in Rows /\ old # id /\ Apart(id)
    BY <1>1, FreshRow DEF Entries, Exists, Rows
  <1>3. agent_id'[id] = s /\ \A i \in Id \ {id} : agent_id'[i] = agent_id[i]
    BY <1>1, <1>2 DEF IInv, TypeOK
  <1> DEFINE was(i) == IF i = id THEN old ELSE i
  <1>4. ASSUME NEW i, NEW j
        PROVE  Continues(i, j)' <=> i # old /\ j # old /\ Continues(was(i), was(j))
    <2>1. Continues(i, j)' =>
            \E e \in links : /\ i = (IF e[1] = old THEN id ELSE e[1])
                             /\ j = (IF e[2] = old THEN id ELSE e[2])
                             /\ e[3] = "continues"
      BY <1>1 DEF Continues, MoveEdges
    <2>2. \A e \in links : e = <<e[1], e[2], e[3]>> /\ e[1] \in Rows /\ e[2] \in Rows
      <3>1. links \subseteq Entries \X Entries \X Rel
        BY DEF IInv, TypeOK
      <3>2. Entries \subseteq Rows
        BY RowsAreIds DEF IInv
      <3>3. links \subseteq Rows \X Rows \X Rel
        BY <3>1, <3>2
      <3>4. QED
        BY <3>3
    <2>3. Continues(i, j)' => i # old /\ j # old /\ Continues(was(i), was(j))
      <3>1. SUFFICES ASSUME Continues(i, j)'
                     PROVE  i # old /\ j # old /\ Continues(was(i), was(j))
        OBVIOUS
      <3>2. PICK e \in links : /\ i = (IF e[1] = old THEN id ELSE e[1])
                               /\ j = (IF e[2] = old THEN id ELSE e[2])
                               /\ e[3] = "continues"
        BY <2>1, <3>1
      <3>3. e[1] # id /\ e[2] # id
        BY <1>2, <2>2
      <3>4. i # old /\ j # old /\ was(i) = e[1] /\ was(j) = e[2]
        BY <1>2, <3>2, <3>3
      <3> HIDE DEF was
      <3>5. QED
        BY <2>2, <3>2, <3>4 DEF Continues
    <2>4. ASSUME i # old, j # old, Continues(was(i), was(j)) PROVE Continues(i, j)'
      <3>1. PICK e : e = <<was(i), was(j), "continues">>
        OBVIOUS
      <3>2. e \in links /\ e[1] = was(i) /\ e[2] = was(j) /\ e[3] = "continues"
        BY <2>4, <3>1 DEF Continues
      <3>3. /\ i = (IF e[1] = old THEN id ELSE e[1])
            /\ j = (IF e[2] = old THEN id ELSE e[2])
        BY <2>2, <2>4, <1>2, <3>2
      <3> HIDE DEF was
      <3>4. QED
        BY <1>1, <3>2, <3>3 DEF Continues, MoveEdges
    <2>5. QED
      BY <2>3, <2>4
  <1>5. \A i \in Id : was(i) \in Id
    OBVIOUS
  <1>6. \A i, j : Continues(i, j) => i # id /\ j # id
    BY <1>2, EdgesJoinRows
  <1>7. Linear'
    BY <1>4, <1>5, <1>6 DEF SetsInv, Linear
  <1>8. Numbered'
    <2>1. PICK rank \in [Id -> Nat] : Numbers(rank)
      BY DEF SetsInv, Numbered
    <2> DEFINE r == [rank EXCEPT ![id] = rank[old]]
    <2>2. r \in [Id -> Nat] /\ \A i \in Id : r[i] = rank[was(i)]
      BY <1>2, <2>1
    <2> HIDE DEF r
    <2>3. ASSUME NEW i \in Id, NEW j \in Id, Continues(i, j)' PROVE r[j] < r[i]
      <3>1. Continues(was(i), was(j))
        BY <1>4, <2>3
      <3>2. rank[was(j)] < rank[was(i)]
        BY <1>5, <2>1, <3>1 DEF Numbers
      <3>3. QED
        BY <2>2, <3>2
    <2>4. QED
      BY <2>2, <2>3 DEF Numbered, Numbers
  <1>9. \A i : i # id =>
           (Uncontinued(i) => Uncontinued(i)') /\ (Apart(i) => Apart(i)')
    BY <1>2, <1>4, <1>5 DEF Uncontinued, Apart
  <1>10. ASSUME NEW t \in Session, t # s PROVE Tip(t, writing[t])'
    <2>1. PICK v : v = writing[t]
      OBVIOUS
    <2>2. Tip(t, v) /\ writing'[t] = v /\ v.ids \in Seq(Rows) /\ v.loose \in BOOLEAN
      BY <1>1, <1>10, <2>1 DEF SetsInv, Tips, IInv, Shape, TypeOK, Rows
    <2>3. \A k \in 1 .. Len(v.ids) : v.ids[k] \in Id /\ v.ids[k] # id
      BY <1>2, <2>2, RowsAreIds DEF IInv
    <2>4. v.ids \in Seq(Id) /\ \A k \in 1 .. Len(v.ids) : agent_id'[v.ids[k]] = agent_id[v.ids[k]]
      BY <1>3, <2>2, <2>3
    <2>5. Tip(t, v)'
      BY <1>9, <2>2, <2>3, <2>4, TipStays
    <2>6. QED
      BY <2>2, <2>5 DEF Tip
  <1>11. Tip(s, writing[s])'
    <2>1. PICK v : v = First(id, n)
      OBVIOUS
    <2>2. writing'[s] = v
      BY <1>1, <2>1 DEF IInv, Shape
    <2>3. ASSUME n # 1 PROVE Uncontinued(id)'
      <3>1. v # Idle
        <4>1. v.ids = <<id>> /\ Len(v.ids) = 1
          BY <2>1, <2>3 DEF First
        <4>2. Len(Idle.ids) = 0
          BY DEF Idle
        <4>3. Len(v.ids) # 0
          BY <4>1
        <4>4. QED
          BY <4>2, <4>3, Zenon
      <3>2. LaterParts(rows)' = {}
        BY <1>1, <2>2, <3>1 DEF Branches
      <3>3. \A j : Continues(j, id)' => j \in Entries'
        BY DEF TypeOK, Continues
      <3>4. QED
        BY <1>1, <3>2, <3>3 DEF LaterParts, Uncontinued, Continues
    <2>4. Tip(s, First(id, n))'
      BY <1>3, <2>3, FirstTip
    <2>5. QED
      BY <2>1, <2>2, <2>4 DEF Tip
  <1>12. Tips'
    BY <1>10, <1>11 DEF Tips
  <1>13. QED
    BY <1>7, <1>8, <1>12 DEF SetsInv

(* Until a set is branched, every step of every session leaves the sets in
   order. *)
LEMMA NextSets ==
  ASSUME IInv, IInv', SetsInv, Moves, ~Branches
  PROVE  SetsInv'
  <1>1. ASSUME NEW s \in Session,
               \/ \E n \in Nat \ {0} : Remember(s, n)
               \/ \E n \in Nat \ {0}, old \in Id : Supersede(s, old, n)
               \/ StoreSplit(s)
        PROVE  SetsInv'
    <2>1. TypeOK'
      BY DEF IInv
    <2>2. QED
      BY <1>1, <2>1, RememberSets, SupersedeSets, StorePartSets, LinkPartSets, SplitStopsSets
      DEF StoreSplit
  <1>2. ASSUME NEW id \in Id, Judge(id) \/ Retire(id) \/ Forget(id)
        PROVE  SetsInv'
    <2>1. links' \subseteq links /\ writing' = writing /\ agent_id' = agent_id
      BY <1>2 DEF Judge, SetStatus, Retire, Forget
    <2>2. QED
      BY <2>1, FewerEdges
  <1>3. CASE \E from, to \in Id, rel \in HandRel : Link(from, to, rel)
    BY <1>3, HandEdges
  <1>4. CASE UNCHANGED vars
    BY <1>4, FewerEdges DEF vars
  <1>5. QED
    BY <1>1, <1>2, <1>3, <1>4 DEF Moves, ShelfStep

LEMMA SetsInvariance == CatSpec => [](IInv /\ (branched \/ SetsInv))
  <1>1. CatInit => SetsInv
    BY InitSets DEF CatInit
  <1>2. IInv /\ IInv' /\ (branched \/ SetsInv) /\ [CatNext]_allvars => (branched \/ SetsInv)'
    <2> SUFFICES ASSUME IInv, IInv', branched \/ SetsInv, [CatNext]_allvars
                 PROVE  branched' \/ SetsInv'
      OBVIOUS
    <2>1. Moves
      BY BothMove
    <2>2. CASE CatNext
      <3>1. branched' = (branched \/ Branches)
        BY <2>2 DEF CatNext
      <3>2. QED
        BY <2>1, <3>1, NextSets
    <2>3. CASE UNCHANGED allvars
      <3>1. branched' = branched /\ UNCHANGED vars
        BY <2>3 DEF allvars, catvars
      <3>2. SetsInv => SetsInv'
        BY <3>1, FewerEdges DEF vars
      <3>3. QED
        BY <3>1, <3>2
    <2>4. QED
      BY <2>2, <2>3
  <1>3. QED
    BY <1>1, <1>2, Invariance, PTL DEF CatSpec

-----------------------------------------------------------------------------
(* A walk that grows with every step it takes within a bound comes to a stop
   before it runs out of steps. *)
LEMMA WalkStops ==
  ASSUME NEW D, NEW x \in D, NEW f \in [D -> D], NEW N \in Nat,
         NEW size \in [D -> 0 .. N],
         \A h \in D : f[h] = h \/ size[h] < size[f[h]],
         NEW V, V[0] = x, \A n \in Nat : n < N /\ V[n] \in D => V[n + 1] = f[V[n]]
  PROVE  V[N] \in D /\ f[V[N]] = V[N]
  <1> DEFINE Good(n) == V[n] \in D /\ (f[V[n]] = V[n] \/ size[V[n]] >= n)
             T == {n \in Nat : n <= N => Good(n)}
  <1>1. 0 \in T
    OBVIOUS
  <1>2. ASSUME NEW n \in Nat, n \in T PROVE n + 1 \in T
    <2> SUFFICES ASSUME n + 1 <= N PROVE Good(n + 1)
      OBVIOUS
    <2>1. Good(n) /\ V[n + 1] = f[V[n]]
      BY <1>2
    <2>2. PICK h \in D : h = V[n]
      BY <2>1
    <2>3. f[h] \in D /\ size[f[h]] \in 0 .. N /\ size[h] \in 0 .. N
      OBVIOUS
    <2>4. QED
      BY <2>1, <2>2, <2>3
  <1> HIDE DEF T
  <1>3. N \in T
    BY <1>1, <1>2, SetInduction
  <1>4. Good(N)
    BY <1>3 DEF T
  <1>5. PICK h \in D : h = V[N]
    BY <1>4
  <1>6. f[h] \in D /\ size[f[h]] \in 0 .. N /\ size[h] \in 0 .. N
    OBVIOUS
  <1>7. QED
    BY <1>4, <1>5, <1>6

(* A first value, and a step from each value to the next, make a table. *)
Tables(V, x, g, N) ==
  {f \in [0 .. N -> V] : f[0] = x /\ \A n \in 1 .. N : f[n] = g[n][f[n - 1]]}

LEMMA Table ==
  ASSUME NEW V, NEW x \in V, NEW N \in Nat, NEW g \in [1 .. N -> [V -> V]]
  PROVE  Tables(V, x, g, N) # {}
  <1> DEFINE Right(f, n) == f[0] = x /\ \A i \in 1 .. n : f[i] = g[i][f[i - 1]]
             T == {n \in Nat : n <= N => \E f \in [0 .. n -> V] : Right(f, n)}
  <1>1. 0 \in T
    <2>1. [i \in 0 .. 0 |-> x] \in [0 .. 0 -> V] /\ Right([i \in 0 .. 0 |-> x], 0)
      OBVIOUS
    <2>2. QED
      BY <2>1
  <1>2. ASSUME NEW n \in Nat, n \in T PROVE n + 1 \in T
    <2> SUFFICES ASSUME n + 1 <= N PROVE \E f \in [0 .. n + 1 -> V] : Right(f, n + 1)
      OBVIOUS
    <2>1. PICK f \in [0 .. n -> V] : Right(f, n)
      BY <1>2
    <2>2. n + 1 \in 1 .. N /\ f[n] \in V
      OBVIOUS
    <2>3. PICK v \in V : v = g[n + 1][f[n]]
      BY <2>2
    <2> DEFINE h == [i \in 0 .. n + 1 |-> IF i = n + 1 THEN v ELSE f[i]]
    <2>4. h \in [0 .. n + 1 -> V]
      OBVIOUS
    <2>5. Right(h, n + 1)
      <3>1. h[0] = x
        BY <2>1
      <3>2. ASSUME NEW i \in 1 .. n + 1 PROVE h[i] = g[i][h[i - 1]]
        <4>1. h[i - 1] = f[i - 1]
          OBVIOUS
        <4>2. CASE i = n + 1
          <5>1. h[i] = v /\ i - 1 = n
            BY <4>2
          <5>2. QED
            BY <2>3, <4>1, <4>2, <5>1
        <4>3. CASE i # n + 1
          <5>1. i \in 1 .. n /\ h[i] = f[i]
            BY <4>3
          <5>2. QED
            BY <2>1, <4>1, <5>1
        <4>4. QED
          BY <4>2, <4>3
      <3>3. QED
        BY <3>1, <3>2
    <2> HIDE DEF h, Right
    <2>6. QED
      BY <2>4, <2>5
  <1> HIDE DEF T
  <1>3. N \in T
    BY <1>1, <1>2, SetInduction
  <1>4. QED
    BY <1>3 DEF T, Tables

-----------------------------------------------------------------------------
(* Parts of a set in order, each continued by the next. *)
Chain(h) ==
  /\ h \in Line
  /\ \A k \in 1 .. Len(h) - 1 : Continues(h[k + 1], h[k])

Members(h) == {h[k] : k \in 1 .. Len(h)}

(* No part comes twice, so that a chain is no longer than the table. *)
LEMMA ChainGrows ==
  ASSUME IInv, SetsInv, NEW h, Chain(h)
  PROVE  /\ \A k, l \in 1 .. Len(h) : k < l => h[k] # h[l]
         /\ Len(h) <= MaxRows
  <1>1. /\ Len(h) \in Nat /\ Len(h) >= 1
        /\ \A k \in 1 .. Len(h) : h[k] \in Id
    BY RowsAreIds, LineFacts DEF Chain, IInv
  <1>2. PICK rank \in [Id -> Nat] : Numbers(rank)
    BY DEF SetsInv, Numbered
  <1>3. ASSUME NEW k \in 1 .. Len(h) - 1 PROVE rank[h[k]] < rank[h[k + 1]]
    <2>1. h[k] \in Id /\ h[k + 1] \in Id /\ Continues(h[k + 1], h[k])
      BY <1>1 DEF Chain
    <2>2. QED
      BY <1>2, <2>1 DEF Numbers
  <1>4. ASSUME NEW k \in 1 .. Len(h), NEW l \in 1 .. Len(h), k < l PROVE h[k] # h[l]
    <2> DEFINE T == {n \in Nat : k + n + 1 <= Len(h) => rank[h[k]] < rank[h[k + n + 1]]}
    <2>1. 0 \in T
      BY <1>1, <1>3
    <2>2. ASSUME NEW n \in Nat, n \in T PROVE n + 1 \in T
      <3> SUFFICES ASSUME k + n + 2 <= Len(h) PROVE rank[h[k]] < rank[h[k + n + 2]]
        OBVIOUS
      <3>1. rank[h[k]] < rank[h[k + n + 1]]
        BY <1>1, <2>2
      <3>2. k + n + 1 \in 1 .. Len(h) - 1 /\ (k + n + 1) + 1 = k + n + 2
        BY <1>1
      <3>3. rank[h[k + n + 1]] < rank[h[k + n + 2]]
        BY <1>3, <3>2
      <3>4. h[k] \in Id /\ h[k + n + 1] \in Id /\ h[k + n + 2] \in Id
        BY <1>1, <3>2
      <3>5. rank[h[k]] \in Nat /\ rank[h[k + n + 1]] \in Nat /\ rank[h[k + n + 2]] \in Nat
        BY <3>4
      <3>6. QED
        BY <3>1, <3>3, <3>5
    <2> HIDE DEF T
    <2>3. l - k - 1 \in T
      BY <1>1, <1>4, <2>1, <2>2, SetInduction
    <2>4. rank[h[k]] < rank[h[l]]
      <3>1. k + (l - k - 1) + 1 = l
        BY <1>1
      <3>2. QED
        BY <2>3, <3>1 DEF T
    <2>5. h[k] \in Id /\ rank[h[k]] \in Nat
      BY <1>1
    <2>6. QED
      BY <2>4, <2>5
  <1>5. Len(h) <= MaxRows
    <2> SUFFICES ASSUME ~(Len(h) <= MaxRows) PROVE FALSE
      OBVIOUS
    <2>1. \A n \in Nat : IsFiniteSet(1 .. n) /\ Cardinality(1 .. n) = n
      <3>1. ASSUME NEW n \in Nat PROVE IsFiniteSet(1 .. n) /\ Cardinality(1 .. n) = n
        <4>1. IsFiniteSet(1 .. n) /\ Cardinality(1 .. n) = IF 1 > n THEN 0 ELSE n - 1 + 1
          BY FS_Interval
        <4>2. QED
          BY <4>1
      <3>2. QED
        BY <3>1
    <2>2. PICK f : f = [k \in 1 .. Len(h) |-> h[k]]
      OBVIOUS
    <2>3. f \in [1 .. Len(h) -> Id] /\ \A k \in 1 .. Len(h) : f[k] = h[k]
      BY <1>1, <2>2
    <2>4. MaxRows < Len(h)
      BY <1>1, BoundsAssumption
    <2>5. \E k, l \in 1 .. Len(h) : k # l /\ f[k] = f[l]
      <3>1. /\ IsFiniteSet(1 .. Len(h)) /\ Cardinality(1 .. Len(h)) = Len(h)
            /\ IsFiniteSet(Id) /\ Cardinality(Id) = MaxRows
        BY <1>1, <2>1, BoundsAssumption DEF Id
      <3>2. QED
        BY <2>3, <2>4, <3>1, FS_PigeonHole
    <2>6. PICK k, l \in 1 .. Len(h) : k # l /\ h[k] = h[l]
      BY <2>3, <2>5
    <2>7. k < l \/ l < k
      BY <1>1, <2>6
    <2>8. QED
      BY <1>4, <2>6, <2>7
  <1>6. QED
    BY <1>4, <1>5

(* The one edge that continues_chain looks for on a side, or none. *)
LEMMA OneNeighbour ==
  ASSUME IInv, SetsInv, NEW i \in Entries
  PROVE  /\ \A j : j \in EarlierParts(i) => /\ Continues(i, j) /\ j \in Entries
                                            /\ FirstOf(EarlierParts(i)) = j
         /\ \A j : j \in LaterParts(i) => /\ Continues(j, i) /\ j \in Entries
                                          /\ FirstOf(LaterParts(i)) = j
  <1>1. Entries \subseteq Id /\ \A j \in Id : j \in Int
    BY RowsAreIds, BoundsAssumption DEF IInv, Id
  <1>2. \A j \in Id : FirstOf({j}) = j
    BY <1>1 DEF FirstOf
  <1>3. ASSUME NEW j, j \in EarlierParts(i)
        PROVE  Continues(i, j) /\ j \in Entries /\ EarlierParts(i) = {j}
    BY <1>1, <1>3 DEF EarlierParts, Continues, SetsInv, Linear
  <1>4. ASSUME NEW j, j \in LaterParts(i)
        PROVE  Continues(j, i) /\ j \in Entries /\ LaterParts(i) = {j}
    BY <1>1, <1>4 DEF LaterParts, Continues, SetsInv, Linear
  <1>5. QED
    BY <1>1, <1>2, <1>3, <1>4

(* continues_chain, as the two walks it takes. *)
StepEarlier(h) ==
  LET next == EarlierParts(h[1])
  IN  IF next = {} \/ \E k \in DOMAIN h : h[k] = FirstOf(next) THEN h
      ELSE <<FirstOf(next)>> \o h
StepLater(h) ==
  LET next == LaterParts(h[Len(h)])
  IN  IF next = {} \/ \E k \in DOMAIN h : h[k] = FirstOf(next) THEN h
      ELSE Append(h, FirstOf(next))

EarlierWalk(i) ==
  CHOOSE walk : walk = [n \in 0..MaxRows |-> IF n = 0 THEN <<i>> ELSE StepEarlier(walk[n - 1])]
LaterWalk(b) ==
  CHOOSE walk : walk = [n \in 0..MaxRows |-> IF n = 0 THEN b ELSE StepLater(walk[n - 1])]

LEMMA ChainIsTwoWalks ==
  ASSUME NEW i
  PROVE  ContinuesChain(i) = LaterWalk(EarlierWalk(i)[MaxRows])[MaxRows]
  BY Zenon DEF ContinuesChain, LaterWalk, EarlierWalk, StepEarlier, StepLater

(* No part met is met again: a walk stops only where no edge leads on. *)
LEMMA StepEarlierRuns ==
  ASSUME IInv, SetsInv, NEW h, Chain(h)
  PROVE  /\ Chain(StepEarlier(h)) /\ Members(h) \subseteq Members(StepEarlier(h))
         /\ \/ EarlierParts(h[1]) = {} /\ StepEarlier(h) = h
            \/ Len(StepEarlier(h)) = Len(h) + 1
  <1>1. /\ h \in Line /\ Len(h) \in Nat /\ Len(h) >= 1 /\ h[1] \in Entries
        /\ \A k \in 1 .. Len(h) - 1 : Continues(h[k + 1], h[k])
        /\ DOMAIN h = 1 .. Len(h)
    BY LineFacts DEF Chain
  <1>2. CASE EarlierParts(h[1]) = {}
    BY <1>2 DEF StepEarlier
  <1>3. CASE EarlierParts(h[1]) # {}
    <2>1. PICK j : j \in EarlierParts(h[1])
      BY <1>3
    <2>2. j \in Entries /\ Continues(h[1], j) /\ FirstOf(EarlierParts(h[1])) = j
      BY <1>1, <2>1, OneNeighbour
    <2>3. PICK g : g = <<j>> \o h
      OBVIOUS
    <2>4. /\ g \in Line /\ Len(g) = Len(h) + 1 /\ g[1] = j
          /\ \A k \in 1 .. Len(h) : g[k + 1] = h[k]
      BY <1>1, <2>2, <2>3, Extends
    <2>5. ASSUME NEW k \in 1 .. Len(g) - 1 PROVE Continues(g[k + 1], g[k])
      <3>1. k = 1 \/ (k - 1 \in 1 .. Len(h) - 1 /\ k - 1 \in 1 .. Len(h) /\ (k - 1) + 1 = k)
        BY <1>1, <2>4
      <3>2. g[k + 1] = h[k]
        BY <1>1, <2>4
      <3>3. QED
        BY <1>1, <2>2, <2>4, <3>1, <3>2
    <2>6. Chain(g)
      BY <2>4, <2>5 DEF Chain
    <2>7. \A k \in DOMAIN h : h[k] # j
      <3>1. ASSUME NEW k \in 1 .. Len(h) PROVE h[k] # j
        <4>1. 1 \in 1 .. Len(g) /\ k + 1 \in 1 .. Len(g) /\ 1 < k + 1
          BY <1>1, <2>4
        <4>2. g[1] # g[k + 1]
          BY <2>6, <4>1, ChainGrows
        <4>3. QED
          BY <2>4, <4>2
      <3>2. QED
        BY <1>1, <3>1
    <2>8. StepEarlier(h) = g
      BY <1>3, <2>2, <2>3, <2>7 DEF StepEarlier
    <2>9. Members(h) \subseteq Members(g)
      <3>1. ASSUME NEW k \in 1 .. Len(h) PROVE h[k] \in Members(g)
        <4>1. k + 1 \in 1 .. Len(g)
          BY <1>1, <2>4
        <4>2. QED
          BY <2>4, <4>1 DEF Members
      <3>2. QED
        BY <3>1 DEF Members
    <2>10. QED
      BY <2>4, <2>6, <2>8, <2>9
  <1>4. QED
    BY <1>2, <1>3

LEMMA StepLaterRuns ==
  ASSUME IInv, SetsInv, NEW h, Chain(h)
  PROVE  /\ Chain(StepLater(h)) /\ Members(h) \subseteq Members(StepLater(h))
         /\ StepLater(h)[1] = h[1]
         /\ \/ LaterParts(h[Len(h)]) = {} /\ StepLater(h) = h
            \/ Len(StepLater(h)) = Len(h) + 1
  <1>1. /\ h \in Line /\ Len(h) \in Nat /\ Len(h) >= 1 /\ h[Len(h)] \in Entries
        /\ \A k \in 1 .. Len(h) - 1 : Continues(h[k + 1], h[k])
        /\ DOMAIN h = 1 .. Len(h)
    BY LineFacts DEF Chain
  <1>2. CASE LaterParts(h[Len(h)]) = {}
    BY <1>2 DEF StepLater
  <1>3. CASE LaterParts(h[Len(h)]) # {}
    <2>1. PICK j : j \in LaterParts(h[Len(h)])
      BY <1>3
    <2>2. j \in Entries /\ Continues(j, h[Len(h)]) /\ FirstOf(LaterParts(h[Len(h)])) = j
      BY <1>1, <2>1, OneNeighbour
    <2>3. PICK g : g = Append(h, j)
      OBVIOUS
    <2>4. /\ g \in Line /\ Len(g) = Len(h) + 1 /\ g[Len(h) + 1] = j
          /\ \A k \in 1 .. Len(h) : g[k] = h[k]
      BY <1>1, <2>2, <2>3, Extends
    <2>5. ASSUME NEW k \in 1 .. Len(g) - 1 PROVE Continues(g[k + 1], g[k])
      <3>1. k \in 1 .. Len(h)
        BY <1>1, <2>4
      <3>2. k = Len(h) \/ (k \in 1 .. Len(h) - 1 /\ k + 1 \in 1 .. Len(h))
        <4>1. Len(h) \in Nat
          BY <1>1
        <4>2. QED
          BY <3>1, <4>1
      <3>3. QED
        BY <1>1, <2>2, <2>4, <3>1, <3>2
    <2>6. Chain(g)
      BY <2>4, <2>5 DEF Chain
    <2>7. \A k \in DOMAIN h : h[k] # j
      <3>1. ASSUME NEW k \in 1 .. Len(h) PROVE h[k] # j
        <4>1. k \in 1 .. Len(g) /\ Len(h) + 1 \in 1 .. Len(g) /\ k < Len(h) + 1
          BY <1>1, <2>4
        <4>2. g[k] # g[Len(h) + 1]
          BY <2>6, <4>1, ChainGrows
        <4>3. QED
          BY <2>4, <4>2
      <3>2. QED
        BY <1>1, <3>1
    <2>8. StepLater(h) = g /\ g[1] = h[1]
      <3>1. StepLater(h) = g
        BY <1>3, <2>2, <2>3, <2>7 DEF StepLater
      <3>2. 1 \in 1 .. Len(h)
        BY <1>1
      <3>3. QED
        BY <2>4, <3>1, <3>2
    <2>9. Members(h) \subseteq Members(g)
      <3>1. ASSUME NEW k \in 1 .. Len(h) PROVE h[k] \in Members(g)
        <4>1. k \in 1 .. Len(g)
          BY <1>1, <2>4
        <4>2. QED
          BY <2>4, <4>1 DEF Members
      <3>2. QED
        BY <3>1 DEF Members
    <2>10. QED
      BY <2>4, <2>6, <2>8, <2>9
  <1>4. QED
    BY <1>2, <1>3

(* A set's parts, all of them, in order. *)
Full(h) == Chain(h) /\ EarlierParts(h[1]) = {} /\ LaterParts(h[Len(h)]) = {}

LEMMA EarlierEnds ==
  ASSUME IInv, SetsInv, NEW i \in Entries
  PROVE  LET e == EarlierWalk(i)[MaxRows]
         IN  Chain(e) /\ i \in Members(e) /\ EarlierParts(e[1]) = {}
  <1> DEFINE D == {h \in Line : Chain(h) /\ i \in Members(h)}
             f == [h \in D |-> StepEarlier(h)]
             size == [h \in D |-> Len(h)]
             W == EarlierWalk(i)
  <1>0. MaxRows \in Nat
    BY BoundsAssumption
  <1>1. <<i>> \in D
    <2>1. PICK one : one = <<i>>
      OBVIOUS
    <2>2. one \in Seq(Entries) /\ Len(one) = 1 /\ one[1] = i
      BY <2>1
    <2>3. Chain(one)
      BY <2>2, LineFacts DEF Chain
    <2>4. i \in Members(one)
      BY <2>2 DEF Members
    <2>5. QED
      BY <2>1, <2>3, <2>4 DEF Chain
  <1>2. ASSUME NEW h \in D
        PROVE  /\ StepEarlier(h) \in D /\ Len(h) \in 0 .. MaxRows /\ Len(StepEarlier(h)) \in Nat
               /\ StepEarlier(h) = h \/ Len(h) < Len(StepEarlier(h))
               /\ StepEarlier(h) = h => EarlierParts(h[1]) = {}
    <2>1. PICK g : g = StepEarlier(h)
      OBVIOUS
    <2>2. /\ Chain(g) /\ Members(h) \subseteq Members(g)
          /\ (EarlierParts(h[1]) = {} /\ g = h) \/ Len(g) = Len(h) + 1
      BY <2>1, StepEarlierRuns
    <2>3. Len(h) \in Nat /\ Len(g) \in Nat /\ Len(h) <= MaxRows
      BY <2>2, LineFacts, ChainGrows DEF Chain
    <2>4. g \in D
      BY <2>2 DEF Chain
    <2> HIDE DEF D
    <2>5. g = h => EarlierParts(h[1]) = {}
      BY <2>2, <2>3
    <2>6. QED
      BY <1>0, <2>1, <2>2, <2>3, <2>4, <2>5
  <1>3. f \in [D -> D] /\ \A h \in D : f[h] = StepEarlier(h)
    BY <1>2
  <1>4. size \in [D -> 0 .. MaxRows] /\ \A h \in D : size[h] = Len(h)
    BY <1>2
  <1>5. \A h \in D : f[h] = h \/ size[h] < size[f[h]]
    BY <1>2, <1>3, <1>4
  <1> HIDE DEF D, f, size
  <1>6. W = [n \in 0 .. MaxRows |-> IF n = 0 THEN <<i>> ELSE StepEarlier(W[n - 1])]
    <2>1. Orbits(D, <<i>>, f, MaxRows) # {}
      BY <1>0, <1>1, <1>3, Iterates
    <2>2. PICK w \in [0 .. MaxRows -> D] :
            w[0] = <<i>> /\ \A n \in 0 .. MaxRows : n # 0 => w[n] = f[w[n - 1]]
      BY <2>1 DEF Orbits
    <2>3. \A n \in 0 .. MaxRows : n # 0 => n - 1 \in 0 .. MaxRows
      BY <1>0
    <2>4. \A n \in 0 .. MaxRows : w[n] = IF n = 0 THEN <<i>> ELSE StepEarlier(w[n - 1])
      BY <1>3, <2>2, <2>3
    <2>5. w = [n \in 0 .. MaxRows |-> IF n = 0 THEN <<i>> ELSE StepEarlier(w[n - 1])]
      BY <2>2, <2>4
    <2>6. QED
      BY <2>5 DEF EarlierWalk
  <1> HIDE DEF W
  <1>7. W[0] = <<i>> /\ \A n \in Nat : n < MaxRows /\ W[n] \in D => W[n + 1] = f[W[n]]
    <2>1. W[0] = <<i>>
      BY <1>0, <1>6
    <2>2. ASSUME NEW n \in Nat, n < MaxRows, W[n] \in D PROVE W[n + 1] = f[W[n]]
      <3>1. n + 1 \in 0 .. MaxRows /\ n + 1 # 0 /\ (n + 1) - 1 = n
        BY <1>0, <2>2
      <3>2. W[n + 1] = StepEarlier(W[n])
        BY <1>6, <3>1
      <3>3. QED
        BY <1>3, <2>2, <3>2
    <2>3. QED
      BY <2>1, <2>2
  <1>8. W[MaxRows] \in D /\ f[W[MaxRows]] = W[MaxRows]
    <2>1. f \in [D -> D] /\ size \in [D -> 0 .. MaxRows]
      BY <1>3, <1>4
    <2>2. QED
      BY <1>0, <1>1, <1>5, <1>7, <2>1, WalkStops, SMTT(60)
  <1>9. EarlierParts(W[MaxRows][1]) = {}
    BY <1>2, <1>3, <1>8
  <1>10. QED
    BY <1>8, <1>9 DEF D, W

LEMMA LaterEnds ==
  ASSUME IInv, SetsInv, NEW i, NEW b, Chain(b), i \in Members(b), EarlierParts(b[1]) = {}
  PROVE  LET h == LaterWalk(b)[MaxRows] IN Full(h) /\ i \in Members(h)
  <1> DEFINE D == {h \in Line : Chain(h) /\ i \in Members(h) /\ h[1] = b[1]}
             f == [h \in D |-> StepLater(h)]
             size == [h \in D |-> Len(h)]
             W == LaterWalk(b)
  <1>0. MaxRows \in Nat
    BY BoundsAssumption
  <1>1. b \in D
    BY DEF Chain
  <1>2. ASSUME NEW h \in D
        PROVE  /\ StepLater(h) \in D /\ Len(h) \in 0 .. MaxRows /\ Len(StepLater(h)) \in Nat
               /\ StepLater(h) = h \/ Len(h) < Len(StepLater(h))
               /\ StepLater(h) = h => LaterParts(h[Len(h)]) = {}
    <2>1. PICK g : g = StepLater(h)
      OBVIOUS
    <2>2. /\ Chain(g) /\ Members(h) \subseteq Members(g) /\ g[1] = h[1]
          /\ (LaterParts(h[Len(h)]) = {} /\ g = h) \/ Len(g) = Len(h) + 1
      BY <2>1, StepLaterRuns
    <2>3. Len(h) \in Nat /\ Len(g) \in Nat /\ Len(h) <= MaxRows
      BY <2>2, LineFacts, ChainGrows DEF Chain
    <2>4. g \in D
      BY <2>2 DEF Chain
    <2> HIDE DEF D
    <2>5. g = h => LaterParts(h[Len(h)]) = {}
      BY <2>2, <2>3
    <2>6. QED
      BY <1>0, <2>1, <2>2, <2>3, <2>4, <2>5
  <1>3. f \in [D -> D] /\ \A h \in D : f[h] = StepLater(h)
    BY <1>2
  <1>4. size \in [D -> 0 .. MaxRows] /\ \A h \in D : size[h] = Len(h)
    BY <1>2
  <1>5. \A h \in D : f[h] = h \/ size[h] < size[f[h]]
    BY <1>2, <1>3, <1>4
  <1> HIDE DEF D, f, size
  <1>6. W = [n \in 0 .. MaxRows |-> IF n = 0 THEN b ELSE StepLater(W[n - 1])]
    <2>1. Orbits(D, b, f, MaxRows) # {}
      BY <1>0, <1>1, <1>3, Iterates
    <2>2. PICK w \in [0 .. MaxRows -> D] :
            w[0] = b /\ \A n \in 0 .. MaxRows : n # 0 => w[n] = f[w[n - 1]]
      BY <2>1 DEF Orbits
    <2>3. \A n \in 0 .. MaxRows : n # 0 => n - 1 \in 0 .. MaxRows
      BY <1>0
    <2>4. \A n \in 0 .. MaxRows : w[n] = IF n = 0 THEN b ELSE StepLater(w[n - 1])
      BY <1>3, <2>2, <2>3
    <2>5. w = [n \in 0 .. MaxRows |-> IF n = 0 THEN b ELSE StepLater(w[n - 1])]
      BY <2>2, <2>4
    <2>6. QED
      BY <2>5 DEF LaterWalk
  <1> HIDE DEF W
  <1>7. W[0] = b /\ \A n \in Nat : n < MaxRows /\ W[n] \in D => W[n + 1] = f[W[n]]
    <2>1. W[0] = b
      BY <1>0, <1>6
    <2>2. ASSUME NEW n \in Nat, n < MaxRows, W[n] \in D PROVE W[n + 1] = f[W[n]]
      <3>1. n + 1 \in 0 .. MaxRows /\ n + 1 # 0 /\ (n + 1) - 1 = n
        BY <1>0, <2>2
      <3>2. W[n + 1] = StepLater(W[n])
        BY <1>6, <3>1
      <3>3. QED
        BY <1>3, <2>2, <3>2
    <2>3. QED
      BY <2>1, <2>2
  <1>8. W[MaxRows] \in D /\ f[W[MaxRows]] = W[MaxRows]
    <2>1. f \in [D -> D] /\ size \in [D -> 0 .. MaxRows]
      BY <1>3, <1>4
    <2>2. QED
      BY <1>0, <1>1, <1>5, <1>7, <2>1, WalkStops, SMTT(60)
  <1>9. LaterParts(W[MaxRows][Len(W[MaxRows])]) = {}
    BY <1>2, <1>3, <1>8
  <1>10. QED
    BY <1>8, <1>9 DEF D, W, Full

LEMMA ChainIsFull ==
  ASSUME IInv, SetsInv, NEW i \in Entries
  PROVE  Full(ContinuesChain(i)) /\ i \in Members(ContinuesChain(i))
  BY EarlierEnds, LaterEnds, ChainIsTwoWalks

(* Two full chains that share a part are one.  Down from the shared part they
   agree, so that neither begins before the other; and up, so that neither
   ends after. *)
LEMMA FullsBegin ==
  ASSUME IInv, SetsInv, NEW p, NEW q, Full(p), Full(q),
         NEW a \in 1 .. Len(p), NEW b \in 1 .. Len(q), p[a] = q[b]
  PROVE  ~(a < b)
  <1> SUFFICES ASSUME a < b PROVE FALSE
    OBVIOUS
  <1>1. /\ Len(p) \in Nat /\ Len(q) \in Nat
        /\ \A k \in 1 .. Len(p) : p[k] \in Entries
        /\ \A k \in 1 .. Len(q) : q[k] \in Entries
        /\ \A k \in 1 .. Len(p) - 1 : Continues(p[k + 1], p[k])
        /\ \A k \in 1 .. Len(q) - 1 : Continues(q[k + 1], q[k])
    BY LineFacts DEF Full, Chain
  <1> DEFINE T == {d \in Nat : d < a => p[a - d] = q[b - d]}
  <1>2. 0 \in T
    BY <1>1
  <1>3. ASSUME NEW d \in Nat, d \in T PROVE d + 1 \in T
    <2> SUFFICES ASSUME d + 1 < a PROVE p[a - (d + 1)] = q[b - (d + 1)]
      OBVIOUS
    <2>1. PICK k, l : k = a - (d + 1) /\ l = b - (d + 1)
      OBVIOUS
    <2>2. k \in 1 .. Len(p) - 1 /\ l \in 1 .. Len(q) - 1 /\ k + 1 = a - d /\ l + 1 = b - d
      BY <1>1, <2>1
    <2>3. p[k + 1] = q[l + 1]
      BY <1>3, <2>2
    <2>4. Continues(p[k + 1], p[k]) /\ Continues(q[l + 1], q[l])
      BY <1>1, <2>2
    <2>5. p[k] \in Id /\ p[k + 1] \in Id /\ q[l] \in Id
      <3>1. k \in 1 .. Len(p) /\ k + 1 \in 1 .. Len(p) /\ l \in 1 .. Len(q)
        BY <1>1, <2>2
      <3>2. QED
        BY <1>1, <3>1, RowsAreIds DEF IInv
    <2>6. p[k] = q[l]
      BY <2>3, <2>4, <2>5 DEF SetsInv, Linear
    <2>7. QED
      BY <2>1, <2>6
  <1> HIDE DEF T
  <1>4. a - 1 \in T
    BY <1>1, <1>2, <1>3, SetInduction
  <1>5. PICK l : l = b - a
    OBVIOUS
  <1>6. l \in 1 .. Len(q) - 1 /\ l \in 1 .. Len(q) /\ b - (a - 1) = l + 1 /\ a - (a - 1) = 1
    BY <1>1, <1>5
  <1>7. p[1] = q[l + 1]
    BY <1>4, <1>6 DEF T
  <1>8. Continues(p[1], q[l]) /\ q[l] \in Entries
    BY <1>1, <1>6, <1>7
  <1>9. QED
    BY <1>8 DEF Full, EarlierParts, Continues

LEMMA FullsAgree ==
  ASSUME IInv, SetsInv, NEW p, NEW q, Full(p), Full(q), p[1] = q[1]
  PROVE  /\ Len(p) <= Len(q)
         /\ \A k \in 1 .. Len(p) : p[k] = q[k]
  <1>1. /\ Len(p) \in Nat /\ Len(q) \in Nat /\ Len(p) >= 1 /\ Len(q) >= 1
        /\ \A k \in 1 .. Len(p) : p[k] \in Entries
        /\ \A k \in 1 .. Len(q) : q[k] \in Entries
        /\ \A k \in 1 .. Len(p) - 1 : Continues(p[k + 1], p[k])
        /\ \A k \in 1 .. Len(q) - 1 : Continues(q[k + 1], q[k])
    BY LineFacts DEF Full, Chain
  <1> DEFINE T == {d \in Nat : d < Len(p) => d < Len(q) /\ p[d + 1] = q[d + 1]}
  <1>2. 0 \in T
    BY <1>1
  <1>3. ASSUME NEW d \in Nat, d \in T PROVE d + 1 \in T
    <2> SUFFICES ASSUME d + 1 < Len(p) PROVE d + 1 < Len(q) /\ p[d + 2] = q[d + 2]
      OBVIOUS
    <2>1. d < Len(q) /\ p[d + 1] = q[d + 1]
      BY <1>1, <1>3
    <2>2. /\ d + 1 \in 1 .. Len(p) - 1 /\ d + 1 \in 1 .. Len(p) /\ d + 2 \in 1 .. Len(p)
          /\ (d + 1) + 1 = d + 2 /\ d + 1 \in 1 .. Len(q)
      BY <1>1, <2>1
    <2>3. Continues(p[d + 2], p[d + 1]) /\ p[d + 2] \in Entries
      BY <1>1, <2>2
    <2>4. d + 1 # Len(q)
      <3>1. SUFFICES ASSUME d + 1 = Len(q) PROVE FALSE
        OBVIOUS
      <3>2. p[d + 2] \in LaterParts(q[Len(q)])
        BY <2>1, <2>3, <3>1 DEF LaterParts, Continues
      <3>3. QED
        BY <3>2 DEF Full
    <2>5. d + 1 \in 1 .. Len(q) - 1 /\ d + 2 \in 1 .. Len(q)
      BY <1>1, <2>2, <2>4
    <2>6. Continues(q[d + 2], q[d + 1])
      BY <1>1, <2>2, <2>5
    <2>7. p[d + 1] \in Id /\ p[d + 2] \in Id /\ q[d + 2] \in Id
      BY <1>1, <2>2, <2>5, RowsAreIds DEF IInv
    <2>8. p[d + 2] = q[d + 2]
      BY <2>1, <2>3, <2>6, <2>7 DEF SetsInv, Linear
    <2>9. QED
      BY <1>1, <2>5, <2>8
  <1> HIDE DEF T
  <1>4. \A d \in Nat : d \in T
    BY <1>2, <1>3, SetInduction
  <1>5. ASSUME NEW k \in 1 .. Len(p) PROVE k <= Len(q) /\ p[k] = q[k]
    <2>1. k - 1 \in Nat /\ k - 1 < Len(p) /\ (k - 1) + 1 = k
      BY <1>1
    <2>2. k - 1 \in T
      BY <1>4, <2>1
    <2>3. k - 1 < Len(q) /\ p[k] = q[k]
      BY <2>1, <2>2 DEF T
    <2>4. QED
      BY <1>1, <2>3
  <1>6. Len(p) \in 1 .. Len(p)
    BY <1>1
  <1>7. QED
    BY <1>5, <1>6

LEMMA FullsMeet ==
  ASSUME IInv, SetsInv, NEW p, NEW q, Full(p), Full(q),
         NEW i, i \in Members(p), i \in Members(q)
  PROVE  p = q
  <1>1. PICK a \in 1 .. Len(p), b \in 1 .. Len(q) : p[a] = q[b]
    BY DEF Members
  <1>2. Len(p) \in Nat /\ Len(q) \in Nat /\ Len(p) >= 1 /\ Len(q) >= 1
        /\ p \in Seq(Entries) /\ q \in Seq(Entries)
    BY LineFacts DEF Full, Chain
  <1>3. a = b
    <2>1. ~(a < b) /\ ~(b < a)
      BY <1>1, FullsBegin
    <2>2. QED
      BY <1>2, <2>1
  <1> DEFINE T == {d \in Nat : d < a => p[a - d] = q[a - d]}
  <1>4. p[1] = q[1]
    <2>1. 0 \in T
      BY <1>1, <1>2, <1>3
    <2>2. ASSUME NEW d \in Nat, d \in T PROVE d + 1 \in T
      <3> SUFFICES ASSUME d + 1 < a PROVE p[a - (d + 1)] = q[a - (d + 1)]
        OBVIOUS
      <3>1. PICK k : k = a - (d + 1)
        OBVIOUS
      <3>2. /\ k \in 1 .. Len(p) - 1 /\ k \in 1 .. Len(q) - 1 /\ k + 1 = a - d
            /\ k \in 1 .. Len(p) /\ k + 1 \in 1 .. Len(p) /\ k \in 1 .. Len(q)
        BY <1>2, <1>3, <3>1
      <3>3. p[k + 1] = q[k + 1]
        BY <2>2, <3>2
      <3>4. Continues(p[k + 1], p[k]) /\ Continues(q[k + 1], q[k])
        BY <3>2 DEF Full, Chain
      <3>5. p[k] \in Id /\ p[k + 1] \in Id /\ q[k] \in Id
        BY <1>2, <3>2, RowsAreIds DEF IInv
      <3>6. QED
        BY <3>1, <3>3, <3>4, <3>5 DEF SetsInv, Linear
    <2> HIDE DEF T
    <2>3. a - 1 \in T
      <3>1. \A d \in Nat : d \in T
        BY <2>1, <2>2, SetInduction
      <3>2. a - 1 \in Nat
        BY <1>2
      <3>3. QED
        BY <3>1, <3>2
    <2>4. a - (a - 1) = 1 /\ a - 1 < a
      BY <1>2
    <2>5. QED
      BY <2>3, <2>4 DEF T
  <1>5. Len(p) <= Len(q) /\ Len(q) <= Len(p) /\ \A k \in 1 .. Len(p) : p[k] = q[k]
    BY <1>4, FullsAgree
  <1>6. Len(p) = Len(q)
    BY <1>2, <1>5
  <1>7. QED
    BY <1>2, <1>5, <1>6

-----------------------------------------------------------------------------
(* What is kept of a sequence is what it shares with the set, once each where
   the sequence has it once. *)
Once(L) == \A k, l \in 1 .. Len(L) : L[k] = L[l] => k = l

LEMMA AppendOnce ==
  ASSUME NEW S, NEW L \in Seq(S), Once(L), NEW j \in S, j \notin Members(L)
  PROVE  Append(L, j) \in Seq(S) /\ Once(Append(L, j)) /\ Members(Append(L, j)) = Members(L) \cup {j}
  <1>1. PICK g : g = Append(L, j)
    OBVIOUS
  <1>2. /\ Len(L) \in Nat /\ g \in Seq(S) /\ Len(g) = Len(L) + 1 /\ g[Len(L) + 1] = j
        /\ \A k \in 1 .. Len(L) : g[k] = L[k]
    BY <1>1
  <1>3. \A k \in 1 .. Len(g) : k = Len(L) + 1 \/ k \in 1 .. Len(L)
    BY <1>2
  <1>4. \A k \in 1 .. Len(L) : L[k] # j
    BY DEF Members
  <1>5. Once(g)
    BY <1>2, <1>3, <1>4 DEF Once
  <1>6. Members(g) = Members(L) \cup {j}
    <2>1. Members(g) \subseteq Members(L) \cup {j}
      BY <1>2, <1>3 DEF Members
    <2>2. j \in Members(g)
      <3>1. Len(L) + 1 \in 1 .. Len(g)
        BY <1>2
      <3>2. QED
        BY <1>2, <3>1 DEF Members
    <2>3. \A k \in 1 .. Len(L) : L[k] \in Members(g)
      <3>1. \A k \in 1 .. Len(L) : k \in 1 .. Len(g)
        BY <1>2
      <3>2. QED
        BY <1>2, <3>1 DEF Members
    <2>4. QED
      BY <2>1, <2>2, <2>3 DEF Members
  <1>7. QED
    BY <1>1, <1>2, <1>5, <1>6

LEMMA JoinOnce ==
  ASSUME NEW S, NEW L \in Seq(S), NEW M \in Seq(S), Once(L), Once(M),
         Members(L) \cap Members(M) = {}
  PROVE  (L \o M) \in Seq(S) /\ Once(L \o M) /\ Members(L \o M) = Members(L) \cup Members(M)
  <1>1. PICK g : g = L \o M
    OBVIOUS
  <1>2. /\ Len(L) \in Nat /\ Len(M) \in Nat /\ g \in Seq(S) /\ Len(g) = Len(L) + Len(M)
        /\ \A k \in 1 .. Len(L) : g[k] = L[k]
        /\ \A k \in 1 .. Len(M) : g[Len(L) + k] = M[k]
    BY <1>1
  <1>3. ASSUME NEW k \in 1 .. Len(g)
        PROVE  \/ k \in 1 .. Len(L) /\ g[k] = L[k] /\ g[k] \in Members(L)
               \/ k - Len(L) \in 1 .. Len(M) /\ g[k] = M[k - Len(L)] /\ g[k] \in Members(M)
    <2>1. CASE k \in 1 .. Len(L)
      BY <1>2, <2>1 DEF Members
    <2>2. CASE k \notin 1 .. Len(L)
      <3>1. PICK l : l = k - Len(L)
        OBVIOUS
      <3>2. l \in 1 .. Len(M) /\ Len(L) + l = k
        BY <1>2, <2>2, <3>1
      <3>3. g[k] = M[l] /\ M[l] \in Members(M)
        BY <1>2, <3>2 DEF Members
      <3>4. QED
        BY <3>1, <3>2, <3>3
    <2>3. QED
      BY <2>1, <2>2
  <1>4. Once(g)
    <2> SUFFICES ASSUME NEW k \in 1 .. Len(g), NEW l \in 1 .. Len(g), g[k] = g[l] PROVE k = l
      BY DEF Once
    <2>1. g[k] \in Members(L) => g[k] \notin Members(M)
      OBVIOUS
    <2>2. CASE k \in 1 .. Len(L) /\ g[k] = L[k] /\ g[k] \in Members(L)
      BY <1>3, <2>1, <2>2 DEF Once
    <2>3. CASE k - Len(L) \in 1 .. Len(M) /\ g[k] = M[k - Len(L)] /\ g[k] \in Members(M)
      <3>1. l - Len(L) \in 1 .. Len(M) /\ g[l] = M[l - Len(L)]
        BY <1>3, <2>1, <2>3
      <3>2. k - Len(L) = l - Len(L)
        BY <2>3, <3>1 DEF Once
      <3>3. QED
        BY <1>2, <3>2
    <2>4. QED
      BY <1>3, <2>2, <2>3
  <1>5. Members(g) = Members(L) \cup Members(M)
    <2>1. Members(g) \subseteq Members(L) \cup Members(M)
      BY <1>3 DEF Members
    <2>2. ASSUME NEW k \in 1 .. Len(L) PROVE L[k] \in Members(g)
      <3>1. k \in 1 .. Len(g)
        BY <1>2
      <3>2. QED
        BY <1>2, <3>1 DEF Members
    <2>3. ASSUME NEW k \in 1 .. Len(M) PROVE M[k] \in Members(g)
      <3>1. Len(L) + k \in 1 .. Len(g)
        BY <1>2
      <3>2. QED
        BY <1>2, <3>1 DEF Members
    <2>4. QED
      BY <2>1, <2>2, <2>3 DEF Members
  <1>6. QED
    BY <1>1, <1>2, <1>4, <1>5

LEMMA AmongKeeps ==
  ASSUME NEW R, NEW p \in Seq(R), Once(p), NEW S
  PROVE  /\ Among(p, S) \in Seq(S) /\ Once(Among(p, S))
         /\ Members(Among(p, S)) = Members(p) \cap S
  <1> DEFINE N == Len(p)
             V == Seq(S)
             g == [k \in 1 .. N |-> [v \in V |-> IF p[k] \in S THEN Append(v, p[k]) ELSE v]]
             K == CHOOSE K : K = [k \in 0 .. N |->
                    IF k = 0 THEN <<>> ELSE IF p[k] \in S THEN Append(K[k - 1], p[k]) ELSE K[k - 1]]
  <1>1. N \in Nat
    OBVIOUS
  <1>2. <<>> \in V /\ g \in [1 .. N -> [V -> V]]
    OBVIOUS
  <1>3. \A k \in 1 .. N : \A v \in V :
          g[k][v] = IF p[k] \in S THEN Append(v, p[k]) ELSE v
    OBVIOUS
  <1>4. PICK f \in [0 .. N -> V] : f[0] = <<>> /\ \A n \in 1 .. N : f[n] = g[n][f[n - 1]]
    <2> HIDE DEF N, V, g
    <2>1. Tables(V, <<>>, g, N) # {}
      BY <1>1, <1>2, Table
    <2>2. QED
      BY <2>1 DEF Tables
  <1>5. K = [k \in 0 .. N |->
          IF k = 0 THEN <<>> ELSE IF p[k] \in S THEN Append(K[k - 1], p[k]) ELSE K[k - 1]]
    <2> HIDE DEF N, V, g
    <2>1. ASSUME NEW k \in 0 .. N, k # 0
          PROVE  f[k] = IF p[k] \in S THEN Append(f[k - 1], p[k]) ELSE f[k - 1]
      <3>1. k \in 1 .. N /\ k - 1 \in 0 .. N
        BY <1>1, <2>1
      <3>2. f[k - 1] \in V
        BY <3>1
      <3>3. QED
        BY <1>3, <1>4, <3>1, <3>2
    <2>2. f = [k \in 0 .. N |->
            IF k = 0 THEN <<>> ELSE IF p[k] \in S THEN Append(f[k - 1], p[k]) ELSE f[k - 1]]
      BY <1>4, <2>1
    <2>3. QED
      BY <2>2
  <1>6. Among(p, S) = K[N]
    BY Zenon DEF Among
  <1> HIDE DEF K
  <1> DEFINE T == {n \in Nat : n <= N =>
                     /\ K[n] \in V /\ Once(K[n])
                     /\ Members(K[n]) = {p[k] : k \in 1 .. n} \cap S}
  <1>7. 0 \in T
    <2>1. K[0] = <<>>
      BY <1>1, <1>5
    <2>2. \A k \in 1 .. 0 : FALSE
      OBVIOUS
    <2>3. Len(<<>>) = 0
      OBVIOUS
    <2>4. Once(<<>>) /\ Members(<<>>) = {} /\ {p[k] : k \in 1 .. 0} = {}
      BY <2>2, <2>3 DEF Once, Members
    <2>5. QED
      BY <1>2, <2>1, <2>4
  <1>8. ASSUME NEW n \in Nat, n \in T PROVE n + 1 \in T
    <2> SUFFICES ASSUME n + 1 <= N
                 PROVE  /\ K[n + 1] \in V /\ Once(K[n + 1])
                        /\ Members(K[n + 1]) = {p[k] : k \in 1 .. n + 1} \cap S
      OBVIOUS
    <2>1. PICK L : L = K[n]
      OBVIOUS
    <2>2. L \in V /\ Once(L) /\ Members(L) = {p[k] : k \in 1 .. n} \cap S
      BY <1>1, <1>8, <2>1
    <2>3. K[n + 1] = IF p[n + 1] \in S THEN Append(L, p[n + 1]) ELSE L
      <3>1. n + 1 \in 0 .. N /\ n + 1 # 0 /\ (n + 1) - 1 = n
        BY <1>1
      <3>2. QED
        BY <1>5, <2>1, <3>1
    <2>4. {p[k] : k \in 1 .. n + 1} = {p[k] : k \in 1 .. n} \cup {p[n + 1]}
      <3>1. \A k : k \in 1 .. n + 1 <=> k \in 1 .. n \/ k = n + 1
        OBVIOUS
      <3>2. QED
        BY <3>1
    <2>5. p[n + 1] \notin {p[k] : k \in 1 .. n}
      <3>1. \A k \in 1 .. n : k \in 1 .. Len(p) /\ k # n + 1
        BY <1>1
      <3>2. n + 1 \in 1 .. Len(p)
        BY <1>1
      <3>3. QED
        BY <3>1, <3>2 DEF Once
    <2>6. CASE p[n + 1] \in S
      <3>1. PICK j \in S : j = p[n + 1]
        BY <2>6
      <3>2. j \notin Members(L)
        BY <2>2, <2>5, <3>1
      <3>3. /\ Append(L, j) \in Seq(S) /\ Once(Append(L, j))
            /\ Members(Append(L, j)) = Members(L) \cup {j}
        BY <2>2, <3>2, AppendOnce
      <3>4. K[n + 1] = Append(L, j)
        BY <2>3, <3>1
      <3>5. Members(L) \cup {j} = {p[k] : k \in 1 .. n + 1} \cap S
        BY <2>2, <2>4, <3>1
      <3>6. QED
        BY <3>3, <3>4, <3>5
    <2>7. CASE p[n + 1] \notin S
      <3>1. K[n + 1] = L
        BY <2>3, <2>7
      <3>2. {p[k] : k \in 1 .. n + 1} \cap S = {p[k] : k \in 1 .. n} \cap S
        BY <2>4, <2>7
      <3>3. QED
        BY <2>2, <3>1, <3>2
    <2>8. QED
      BY <2>6, <2>7
  <1> HIDE DEF T
  <1>9. N \in T
    BY <1>1, <1>7, <1>8, SetInduction
  <1>10. K[N] \in Seq(S) /\ Once(K[N]) /\ Members(K[N]) = {p[k] : k \in 1 .. N} \cap S
    BY <1>1, <1>9 DEF T
  <1>11. QED
    BY <1>6, <1>10 DEF Members

-----------------------------------------------------------------------------
(* What the list tells when it comes to a row. *)
TellOn(S, i, done) ==
  IF i \in S /\ ~\E k \in DOMAIN done : done[k] = i
  THEN done \o Among(ContinuesChain(i), S) ELSE done

ListTable(S) ==
  CHOOSE told : told = [n \in 0..MaxRows |->
    IF n = 0 THEN <<>> ELSE TellOn(S, MaxRows + 1 - n, told[n - 1])]

LEMMA ListingIsTable ==
  ASSUME NEW all
  PROVE  Listing(all) = ListTable(EntriesIn(all))[MaxRows]
  BY Zenon DEF Listing, ListTable, TellOn

(* The parts of an entry's set, each once, and the same from each of them. *)
LEMMA SetOfEntry ==
  ASSUME IInv, SetsInv, NEW i \in Entries
  PROVE  LET p == ContinuesChain(i) IN
         /\ p \in Seq(Entries) /\ Once(p) /\ Full(p) /\ i \in Members(p)
         /\ \A j \in Members(p) : j \in Entries /\ ContinuesChain(j) = p
  <1>1. PICK p : p = ContinuesChain(i)
    OBVIOUS
  <1>2. Full(p) /\ i \in Members(p) /\ Chain(p)
    BY <1>1, ChainIsFull DEF Full
  <1>3. p \in Seq(Entries) /\ Len(p) \in Nat
    BY <1>2, LineFacts DEF Chain
  <1>4. Once(p)
    <2> SUFFICES ASSUME NEW k \in 1 .. Len(p), NEW l \in 1 .. Len(p), p[k] = p[l] PROVE k = l
      BY DEF Once
    <2>1. ~(k < l) /\ ~(l < k)
      BY <1>2, ChainGrows
    <2>2. QED
      BY <1>3, <2>1
  <1>5. ASSUME NEW j \in Members(p) PROVE j \in Entries /\ ContinuesChain(j) = p
    <2>1. j \in Entries
      BY <1>3 DEF Members
    <2>2. PICK q : q = ContinuesChain(j)
      OBVIOUS
    <2>3. Full(q) /\ j \in Members(q)
      BY <2>1, <2>2, ChainIsFull
    <2>4. p = q
      BY <1>2, <1>5, <2>3, FullsMeet
    <2>5. QED
      BY <2>1, <2>2, <2>4
  <1>6. QED
    BY <1>1, <1>2, <1>3, <1>4, <1>5

(* Row by row the list tells each entry once, and with one part of a set all
   that are to be listed. *)
LEMMA ListTells ==
  ASSUME IInv, SetsInv, NEW S, S \subseteq Entries
  PROVE  LET L == ListTable(S)[MaxRows] IN L \in Seq(S) /\ Once(L) /\ Members(L) = S
  <1> DEFINE V == Seq(S)
             Apt(L) == /\ Once(L)
                       /\ \A i \in Members(L) : Members(ContinuesChain(i)) \cap S \subseteq Members(L)
             g == [n \in 1 .. MaxRows |-> [v \in V |-> TellOn(S, MaxRows + 1 - n, v)]]
             K == ListTable(S)
  <1>1. MaxRows \in Nat
    BY BoundsAssumption
  <1>2. ASSUME NEW i, NEW L \in V
        PROVE  /\ TellOn(S, i, L) \in V
               /\ Apt(L) => Apt(TellOn(S, i, L))
               /\ Members(L) \subseteq Members(TellOn(S, i, L)) \/ ~Apt(L)
               /\ Apt(L) /\ i \in S => i \in Members(TellOn(S, i, L))
    <2>1. DOMAIN L = 1 .. Len(L)
      OBVIOUS
    <2>2. CASE i \in S /\ i \notin Members(L)
      <3>1. PICK p, M : p = ContinuesChain(i) /\ M = Among(p, S)
        OBVIOUS
      <3>2. /\ p \in Seq(Entries) /\ Once(p) /\ i \in Members(p)
            /\ \A j \in Members(p) : ContinuesChain(j) = p
        BY <2>2, <3>1, SetOfEntry
      <3>3. M \in V /\ Once(M) /\ Members(M) = Members(p) \cap S
        BY <3>1, <3>2, AmongKeeps
      <3>4. TellOn(S, i, L) = L \o M
        BY <2>1, <2>2, <3>1 DEF TellOn, Members
      <3>5. PICK R : R = L \o M
        OBVIOUS
      <3>6. R \in V
        BY <3>3, <3>5
      <3>7. ASSUME Apt(L)
            PROVE  Once(R) /\ Members(R) = Members(L) \cup Members(M)
        <4>1. ASSUME NEW j, j \in Members(L), j \in Members(M) PROVE FALSE
          <5>1. ContinuesChain(j) = p
            BY <3>2, <3>3, <4>1
          <5>2. Members(p) \cap S \subseteq Members(L)
            BY <3>7, <4>1, <5>1
          <5>3. QED
            BY <2>2, <3>2, <5>2
        <4>2. Members(L) \cap Members(M) = {}
          BY <4>1
        <4>3. Once(L)
          BY <3>7
        <4> HIDE DEF Apt
        <4>4. QED
          BY <3>3, <3>5, <4>2, <4>3, JoinOnce
      <3>8. ASSUME Apt(L) PROVE Apt(R)
        <4>1. Once(R) /\ Members(R) = Members(L) \cup Members(M)
          BY <3>7, <3>8
        <4>2. ASSUME NEW j \in Members(R)
              PROVE  Members(ContinuesChain(j)) \cap S \subseteq Members(R)
          <5>1. CASE j \in Members(L)
            BY <3>8, <4>1, <5>1
          <5>2. CASE j \in Members(M)
            <6>1. ContinuesChain(j) = p
              BY <3>2, <3>3, <5>2
            <6>2. QED
              BY <3>3, <4>1, <6>1
          <5>3. QED
            BY <4>1, <4>2, <5>1, <5>2
        <4>3. QED
          BY <4>1, <4>2
      <3>9. Apt(L) => i \in Members(R) /\ Members(L) \subseteq Members(R)
        <4>1. i \in Members(M)
          BY <2>2, <3>2, <3>3
        <4> HIDE DEF Apt
        <4>2. QED
          BY <3>7, <4>1
      <3> HIDE DEF Apt
      <3>10. QED
        BY <3>4, <3>5, <3>6, <3>8, <3>9
    <2>3. CASE ~(i \in S /\ i \notin Members(L))
      <3>1. TellOn(S, i, L) = L
        BY <2>1, <2>3 DEF TellOn, Members
      <3> HIDE DEF Apt
      <3>2. QED
        BY <2>3, <3>1
    <2>4. QED
      BY <2>2, <2>3
  <1>3. <<>> \in V /\ Apt(<<>>)
    <2>1. Len(<<>>) = 0 /\ \A k \in 1 .. 0 : FALSE
      OBVIOUS
    <2>2. Once(<<>>) /\ Members(<<>>) = {}
      BY <2>1 DEF Once, Members
    <2>3. QED
      BY <2>2
  <1>4. g \in [1 .. MaxRows -> [V -> V]]
    BY <1>2
  <1>5. \A n \in 1 .. MaxRows : \A v \in V : g[n][v] = TellOn(S, MaxRows + 1 - n, v)
    OBVIOUS
  <1> HIDE DEF V, g, Apt
  <1>6. PICK f \in [0 .. MaxRows -> V] : f[0] = <<>> /\ \A n \in 1 .. MaxRows : f[n] = g[n][f[n - 1]]
    <2>1. Tables(V, <<>>, g, MaxRows) # {}
      BY <1>1, <1>3, <1>4, Table
    <2>2. QED
      BY <2>1 DEF Tables
  <1>7. K = [n \in 0 .. MaxRows |->
          IF n = 0 THEN <<>> ELSE TellOn(S, MaxRows + 1 - n, K[n - 1])]
    <2>1. ASSUME NEW n \in 0 .. MaxRows, n # 0
          PROVE  f[n] = TellOn(S, MaxRows + 1 - n, f[n - 1])
      <3>1. n \in 1 .. MaxRows /\ n - 1 \in 0 .. MaxRows
        BY <1>1, <2>1
      <3>2. f[n - 1] \in V
        BY <3>1
      <3>3. QED
        BY <1>5, <1>6, <3>1, <3>2
    <2>2. f = [n \in 0 .. MaxRows |->
            IF n = 0 THEN <<>> ELSE TellOn(S, MaxRows + 1 - n, f[n - 1])]
      BY <1>6, <2>1
    <2>3. QED
      BY <2>2 DEF ListTable
  <1> HIDE DEF K
  <1> DEFINE T == {n \in Nat : n <= MaxRows =>
                     /\ K[n] \in V /\ Apt(K[n])
                     /\ \A i \in S : i > MaxRows - n => i \in Members(K[n])}
  <1>8. \A i \in S : i \in 1 .. MaxRows
    BY RowsAreIds DEF IInv, Id
  <1>9. 0 \in T
    <2>1. K[0] = <<>>
      BY <1>1, <1>7
    <2>2. QED
      BY <1>1, <1>3, <1>8, <2>1
  <1>10. ASSUME NEW n \in Nat, n \in T PROVE n + 1 \in T
    <2> SUFFICES ASSUME n + 1 <= MaxRows
                 PROVE  /\ K[n + 1] \in V /\ Apt(K[n + 1])
                        /\ \A i \in S : i > MaxRows - (n + 1) => i \in Members(K[n + 1])
      OBVIOUS
    <2>1. PICK L, R, m : L = K[n] /\ R = K[n + 1] /\ m = MaxRows - n
      OBVIOUS
    <2>2. L \in V /\ Apt(L) /\ \A i \in S : i > m => i \in Members(L)
      BY <1>1, <1>10, <2>1
    <2>3. R = TellOn(S, m, L)
      <3>1. n + 1 \in 0 .. MaxRows /\ n + 1 # 0 /\ (n + 1) - 1 = n /\ MaxRows + 1 - (n + 1) = m
        BY <1>1, <2>1
      <3>2. QED
        BY <1>7, <2>1, <3>1
    <2>4. R \in V /\ Apt(R) /\ Members(L) \subseteq Members(R) /\ (m \in S => m \in Members(R))
      BY <1>2, <2>2, <2>3
    <2>5. ASSUME NEW i \in S, i > MaxRows - (n + 1) PROVE i \in Members(R)
      <3>1. i = m \/ i > m
        BY <1>1, <1>8, <2>1, <2>5
      <3>2. QED
        BY <2>2, <2>4, <3>1
    <2>6. QED
      BY <2>1, <2>4, <2>5
  <1> HIDE DEF T
  <1>11. MaxRows \in T
    BY <1>1, <1>9, <1>10, SetInduction
  <1>12. PICK L : L = K[MaxRows]
    OBVIOUS
  <1>13. L \in V /\ Apt(L) /\ \A i \in S : i > MaxRows - MaxRows => i \in Members(L)
    BY <1>1, <1>11, <1>12 DEF T
  <1>14. S \subseteq Members(L)
    BY <1>1, <1>8, <1>13
  <1>15. Members(L) \subseteq S
    BY <1>13 DEF V, Members
  <1>16. QED
    BY <1>12, <1>13, <1>14, <1>15 DEF V, K, Apt

(* A part stored after another comes after it in their set. *)
LEMMA PartsInOrder ==
  ASSUME IInv, SetsInv, NEW i, NEW j, Continues(i, j)
  PROVE  PartOf(j) < PartOf(i)
  <1>1. i \in Entries /\ j \in Entries /\ i \in Id /\ j \in Id
    BY RowsAreIds DEF IInv, TypeOK, Continues
  <1>2. PICK p : p = ContinuesChain(j)
    OBVIOUS
  <1>3. /\ p \in Seq(Entries) /\ Once(p) /\ Full(p) /\ j \in Members(p)
        /\ \A k \in Members(p) : ContinuesChain(k) = p
    BY <1>1, <1>2, SetOfEntry
  <1>4. Len(p) \in Nat /\ DOMAIN p = 1 .. Len(p) /\ \A k \in 1 .. Len(p) : p[k] \in Entries
    BY <1>3
  <1>5. PICK a \in 1 .. Len(p) : p[a] = j
    BY <1>3 DEF Members
  <1>6. a # Len(p)
    <2>1. i \in LaterParts(j)
      BY <1>1 DEF LaterParts, Continues
    <2>2. QED
      BY <1>3, <1>5, <2>1 DEF Full
  <1>7. a \in 1 .. Len(p) - 1 /\ a + 1 \in 1 .. Len(p)
    <2>1. Len(p) \in Nat
      BY <1>4
    <2>2. QED
      BY <1>6, <2>1
  <1>8. p[a + 1] = i
    <2>1. Continues(p[a + 1], j) /\ p[a + 1] \in Entries
      BY <1>3, <1>4, <1>5, <1>7 DEF Full, Chain
    <2>2. p[a + 1] \in Id
      BY <2>1, RowsAreIds DEF IInv
    <2>3. QED
      BY <1>1, <2>1, <2>2 DEF SetsInv, Linear
  <1>9. ContinuesChain(i) = p
    BY <1>3, <1>7, <1>8 DEF Members
  <1>10. ASSUME NEW b \in 1 .. Len(p), NEW k, p[b] = k, ContinuesChain(k) = p PROVE PartOf(k) = b
    BY <1>3, <1>4, <1>10 DEF PartOf, Once
  <1>11. PartOf(j) = a /\ PartOf(i) = a + 1
    BY <1>2, <1>5, <1>7, <1>8, <1>9, <1>10
  <1>12. QED
    BY <1>4, <1>11

(* Until a continued part is revised in several parts, `kum list` tells each
   entry once, in or out of a set, and never a later part before an earlier. *)
THEOREM ListingTellsOnceHolds == CatSpec => []ListingTellsOnce
  <1>1. ASSUME IInv, SetsInv PROVE ListingTellsOnce
    <2>1. ASSUME NEW all \in BOOLEAN
          PROVE  LET L == Listing(all) IN
                 /\ {L[k] : k \in DOMAIN L} = EntriesIn(all)
                 /\ \A k, l \in DOMAIN L : L[k] = L[l] => k = l
      <3>1. PICK L, S : L = Listing(all) /\ S = EntriesIn(all)
        OBVIOUS
      <3>2. S \subseteq Entries
        BY <3>1 DEF EntriesIn
      <3>3. L = ListTable(S)[MaxRows]
        BY <3>1, ListingIsTable
      <3>4. L \in Seq(S) /\ Once(L) /\ Members(L) = S
        BY <1>1, <3>2, <3>3, ListTells
      <3>5. DOMAIN L = 1 .. Len(L)
        BY <3>4
      <3>6. QED
        BY <3>1, <3>4, <3>5 DEF Once, Members
    <2>2. ASSUME NEW e \in links, e[3] = "continues" PROVE PartOf(e[2]) < PartOf(e[1])
      <3>1. PICK i, j : i = e[1] /\ j = e[2]
        OBVIOUS
      <3>2. e = <<i, j, "continues">>
        BY <1>1, <2>2, <3>1 DEF IInv, TypeOK
      <3>3. Continues(i, j)
        BY <3>2 DEF Continues
      <3>4. QED
        BY <1>1, <3>1, <3>3, PartsInOrder
    <2>3. QED
      BY <2>1, <2>2 DEF ListingTellsOnce
  <1>2. IInv /\ (branched \/ SetsInv) => ListingTellsOnce
    BY <1>1 DEF ListingTellsOnce
  <1>3. QED
    BY <1>2, SetsInvariance, PTL
=============================================================================
