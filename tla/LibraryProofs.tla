--------------------------- MODULE LibraryProofs ----------------------------
(***************************************************************************)
(* Proofs about what a library has to answer for to others: the audit      *)
(* ledger they verify and follow, and the bundles it merges with them.     *)
(*                                                                         *)
(* The ledger: for any processes, any clock that goes forward or is set    *)
(* back, any ledger from before the chain and any number of rows, edits    *)
(* and events shown, an ordered ledger verifies, an edited one names its   *)
(* earliest edit, and the follower tells each event once.                  *)
(*                                                                         *)
(* The bundles: for any number of libraries, files and imports, a whole    *)
(* import leaves no fact with two live heads, and accounts for each        *)
(* pointer it brought.                                                     *)
(***************************************************************************)
EXTENDS Follower, Bundle, Walks, FiniteSetTheorems, TLAPS

-----------------------------------------------------------------------------
(* Sets of ids have a first and a last element. *)
HasEnds(S) ==
  (\E i \in S : \A j \in S : j <= i) /\ (\E i \in S : \A j \in S : i <= j)

LEMMA EndsBelow == \A n \in Nat : \A S \in SUBSET (0..n) : S # {} => HasEnds(S)
  <1> DEFINE T == {n \in Nat : \A S \in SUBSET (0..n) : S # {} => HasEnds(S)}
  <1>1. 0 \in T
    <2>1. ASSUME NEW S \in SUBSET (0..0), S # {} PROVE HasEnds(S)
      <3>0. \A x \in S : x = 0
        OBVIOUS
      <3>1. S = {0}
        BY <2>1, <3>0
      <3>2. QED
        BY <3>1 DEF HasEnds
    <2>2. QED
      BY <2>1
  <1>2. ASSUME NEW n \in Nat, n \in T PROVE n + 1 \in T
    <2>1. ASSUME NEW S \in SUBSET (0..n + 1), S # {} PROVE HasEnds(S)
      <3> DEFINE R == S \ {n + 1}
      <3>1. R \in SUBSET (0..n)
        OBVIOUS
      <3>2. R # {} => HasEnds(R)
        BY <1>2, <3>1
      <3>3. CASE n + 1 \notin S
        <4>1. R = S
          BY <3>3
        <4>2. QED
          BY <2>1, <3>2, <4>1
      <3>4. CASE n + 1 \in S
        <4>1. \A j \in S : j <= n + 1
          OBVIOUS
        <4>2. \E i \in S : \A j \in S : i <= j
          <5>1. CASE R = {}
            BY <3>4, <4>1, <5>1
          <5>2. CASE R # {}
            <6>1. PICK i \in R : \A j \in R : i <= j
              BY <3>2, <5>2 DEF HasEnds
            <6>2. i \in S /\ i <= n + 1
              BY <6>1
            <6>3. QED
              BY <6>1, <6>2
          <5>3. QED
            BY <5>1, <5>2
        <4>3. QED
          BY <3>4, <4>1, <4>2 DEF HasEnds
      <3>5. QED
        BY <3>3, <3>4
    <2>2. n + 1 \in Nat
      BY <1>2
    <2>3. QED
      BY <2>1, <2>2
  <1> HIDE DEF T
  <1>3. \A n \in Nat : n \in T
    BY <1>1, <1>2, SetInduction
  <1>4. QED
    BY <1>3 DEF T

LEMMA Ends == ASSUME NEW S \in SUBSET Id, S # {} PROVE HasEnds(S)
  <1>1. PICK n \in Int : Id = 0..n
    BY BoundsAssumption DEF Id
  <1>2. n \in Nat
    <2>1. PICK x : x \in 0..n
      BY <1>1
    <2>2. QED
      BY <2>1
  <1>3. QED
    BY <1>1, <1>2, EndsBelow

LEMMA IdIsInt == \A i \in Id : i \in Int
  BY DEF Id

(* Last is the greatest, or none. *)
LEMMA LastOf ==
  ASSUME NEW S \in SUBSET Id
  PROVE  /\ S = {} => Last(S) = Null
         /\ S # {} => Last(S) \in S /\ \A j \in S : j <= Last(S)
         /\ Last(S) \in Id \cup {Null}
         /\ \A i \in S : (\A j \in S : j <= i) => Last(S) = i
  <1>1. CASE S = {}
    BY <1>1 DEF Last
  <1>2. CASE S # {}
    <2>1. \E i \in S : \A j \in S : j <= i
      BY <1>2, Ends DEF HasEnds
    <2>2. Last(S) \in S /\ \A j \in S : j <= Last(S)
      BY <1>2, <2>1, Zenon DEF Last
    <2>3. \A i \in S : (\A j \in S : j <= i) => Last(S) = i
      <3> SUFFICES ASSUME NEW i \in S, \A j \in S : j <= i PROVE Last(S) = i
        OBVIOUS
      <3>1. Last(S) <= i /\ i <= Last(S) /\ i \in Int /\ Last(S) \in Int
        BY <2>2, IdIsInt
      <3>2. QED
        BY <3>1
    <2>4. QED
      BY <1>2, <2>2, <2>3
  <1>3. QED
    BY <1>1, <1>2

-----------------------------------------------------------------------------
(* What a row said when it was hashed, and the hash that makes. *)
Said(i) == IF i \in rewrites THEN "recorded" ELSE body[i]

Written(id) ==
  [upto |-> id, links |-> {<<Last(Before(i)), i, Said(i)>> : i \in Before(id) \cup {id}}]

(* Rows are forged by edits only, and while appends come in order every row's
   hash is of the rows up to it as they were written. *)
Forged == \A id \in rewrites : body[id] = "forged"

Chained == Unhashed = {} /\ ~disordered => \A id \in Rows : hash[id] = Written(id)

LInv == TypeOK /\ Forged /\ Chained

LEMMA BeforeRows ==
  ASSUME NEW id \in Id
  PROVE  Rows \in SUBSET Id /\ Before(id) \in SUBSET Id /\ Before(id) \subseteq Rows
  BY DEF Rows, Before

LEMMA StoredIsHash == ASSUME TypeOK, NEW id \in Id \cup {Null} PROVE Stored(id) \in Hash
  <1>1. Genesis \in Hash
    BY DEF Genesis, Hash
  <1>2. QED
    BY <1>1 DEF Stored, TypeOK

LEMMA EventHashIsHash ==
  ASSUME NEW prev \in Hash, NEW id \in Id, NEW says \in Body
  PROVE  EventHash(prev, id, says) \in Hash
  <1>1. prev.upto \in Id \cup {Null} /\ prev.links \in SUBSET ((Id \cup {Null}) \X Id \X Body)
    BY DEF Hash
  <1>2. <<prev.upto, id, says>> \in (Id \cup {Null}) \X Id \X Body
    BY <1>1
  <1>3. prev.links \cup {<<prev.upto, id, says>>} \in SUBSET ((Id \cup {Null}) \X Id \X Body)
    BY <1>1, <1>2
  <1>4. QED
    BY <1>3 DEF Hash, EventHash

LEMMA HeadIsHash == ASSUME TypeOK PROVE HeadHash \in Hash
  <1>1. Rows \in SUBSET Id
    BY DEF Rows
  <1>2. QED
    BY <1>1, LastOf, StoredIsHash DEF HeadHash

LEMMA RechainedIsHash ==
  ASSUME TypeOK, NEW id \in Rows
  PROVE  Rechained(id) \in Hash
  <1>1. id \in Id
    BY DEF Rows
  <1>2. ASSUME NEW i \in Before(id) \cup {id}
        PROVE  <<Last(Before(i)), i, body[i]>> \in (Id \cup {Null}) \X Id \X Body
    <2>1. i \in Id /\ body[i] \in Body
      BY <1>1 DEF Before, Rows, TypeOK
    <2>2. Last(Before(i)) \in Id \cup {Null}
      BY <2>1, BeforeRows, LastOf
    <2>3. QED
      BY <2>1, <2>2
  <1>3. {<<Last(Before(i)), i, body[i]>> : i \in Before(id) \cup {id}}
          \in SUBSET ((Id \cup {Null}) \X Id \X Body)
    BY <1>2
  <1>4. QED
    BY <1>1, <1>3 DEF Rechained, Hash

-----------------------------------------------------------------------------
(* The steps of the ledger. *)
LEMMA InitLInv == Init => LInv
  <1> SUFFICES ASSUME Init PROVE LInv
    OBVIOUS
  <1>1. /\ body = [id \in Id |-> IF id \in Legacy THEN "recorded" ELSE Null]
        /\ hash = [id \in Id |-> Null] /\ now = 0 /\ opened = [p \in Proc |-> "closed"]
        /\ minted = [p \in Proc |-> -1] /\ disordered = FALSE /\ rewrites = {}
    BY DEF Init
  <1>2. TypeOK
    <2>1. body \in [Id -> Body \cup {Null}] /\ hash \in [Id -> Hash \cup {Null}]
      BY <1>1 DEF Body
    <2>2. /\ opened \in [Proc -> {"closed", "counted", "open"}]
          /\ minted \in [Proc -> Int] /\ now \in 0..MaxTime
      BY <1>1, BoundsAssumption
    <2>3. /\ \A id \in Id \ Rows : hash[id] = Null
          /\ (\E p \in Proc : opened[p] = "open") => Unhashed = {}
      BY <1>1
    <2>4. disordered \in BOOLEAN /\ rewrites \subseteq Id
      BY <1>1
    <2>5. QED
      BY <2>1, <2>2, <2>3, <2>4, Zenon DEF TypeOK
  <1>3. Forged
    BY <1>1 DEF Forged
  <1>4. Chained
    BY <1>1 DEF Chained, Unhashed, Rows
  <1>5. QED
    BY <1>2, <1>3, <1>4 DEF LInv

(* What a row's hash should be depends on the rows up to it only. *)
LEMMA WrittenSame ==
  ASSUME NEW id, Before(id)' = Before(id),
         \A i \in Before(id) \cup {id} : Before(i)' = Before(i) /\ Said(i)' = Said(i)
  PROVE  Written(id)' = Written(id)
  BY DEF Written

(* A step that leaves the rows alone. *)
LEMMA ElsewhereLInv ==
  ASSUME LInv, UNCHANGED <<body, hash, disordered, rewrites>>, TypeOK'
  PROVE  LInv'
  <1>1. Rows' = Rows /\ Unhashed' = Unhashed
    BY DEF Rows, Unhashed
  <1>2. \A id : Before(id)' = Before(id) /\ Said(id)' = Said(id)
    BY <1>1 DEF Before, Said
  <1>3. \A id : Written(id)' = Written(id)
    BY <1>2 DEF Written
  <1>4. Forged' /\ Chained'
    BY <1>1, <1>3 DEF LInv, Forged, Chained
  <1>5. QED
    BY <1>4 DEF LInv

LEMMA OpenLInv == ASSUME LInv, NEW p \in Proc, Open(p) \/ Close(p) PROVE LInv'
  <1>1. UNCHANGED <<body, hash, now, disordered, rewrites>>
    BY DEF Open, Close
  <1>2. Rows' = Rows /\ Unhashed' = Unhashed
    BY <1>1 DEF Rows, Unhashed
  <1>3. opened' \in [Proc -> {"closed", "counted", "open"}] /\ minted' \in [Proc -> Int]
    BY DEF Open, Close, LInv, TypeOK
  <1>4. (\E q \in Proc : opened'[q] = "open") => Unhashed = {}
    BY DEF Open, Close, LInv, TypeOK
  <1>5. TypeOK'
    BY <1>1, <1>2, <1>3, <1>4 DEF LInv, TypeOK
  <1>6. QED
    BY <1>1, <1>5, ElsewhereLInv

LEMMA ClockLInv == ASSUME LInv, Clock PROVE LInv'
  <1>1. UNCHANGED <<body, hash, opened, minted, disordered, rewrites>> /\ now' \in 0..MaxTime
    BY DEF Clock
  <1>2. TypeOK'
    BY <1>1 DEF LInv, TypeOK, Rows, Unhashed
  <1>3. QED
    BY <1>1, <1>2, ElsewhereLInv

(* The rehash writes every row's hash as it reads now, so nothing is an edit
   any more. *)
LEMMA BackfillLInv == ASSUME LInv, NEW p \in Proc, Backfill(p) PROVE LInv'
  <1>1. /\ hash' = [id \in Id |-> IF id \in Rows THEN Rechained(id) ELSE Null]
        /\ opened' = [opened EXCEPT ![p] = "open"]
        /\ disordered' = FALSE /\ rewrites' = {} /\ UNCHANGED <<body, now, minted>>
    BY DEF Backfill
  <1>2. Rows' = Rows /\ \A id : Before(id)' = Before(id)
    BY <1>1 DEF Rows, Before
  <1>3. \A id \in Rows : Rechained(id) \in Hash /\ hash'[id] = Rechained(id)
    BY <1>1, RechainedIsHash DEF LInv, Rows
  <1>4. Unhashed' = {}
    <2>1. \A id \in Rows : hash'[id] # Null
      BY <1>3, NullAssumption
    <2>2. QED
      BY <1>2, <2>1 DEF Unhashed
  <1>5. TypeOK'
    <2>1. hash' \in [Id -> Hash \cup {Null}]
      BY <1>1, <1>3
    <2>2. \A id \in Id \ Rows : hash'[id] = Null
      BY <1>1
    <2>3. opened' \in [Proc -> {"closed", "counted", "open"}]
      BY <1>1 DEF LInv, TypeOK
    <2>4. QED
      BY <1>1, <1>2, <1>4, <2>1, <2>2, <2>3 DEF LInv, TypeOK
  <1>6. Chained'
    <2>1. ASSUME NEW id \in Rows PROVE hash'[id] = Written(id)'
      <3>1. \A i : Said(i)' = body[i]
        BY <1>1 DEF Said
      <3>2. Written(id)' = Rechained(id)
        BY <1>2, <3>1 DEF Written, Rechained
      <3>3. QED
        BY <1>3, <3>2
    <2>2. QED
      BY <1>2, <2>1 DEF Chained
  <1>7. Forged'
    BY <1>1 DEF Forged
  <1>8. QED
    BY <1>5, <1>6, <1>7 DEF LInv

LEMMA RewriteLInv == ASSUME LInv, NEW id \in Id, Rewrite(id) PROVE LInv'
  <1>1. /\ body[id] = "recorded" /\ body' = [body EXCEPT ![id] = "forged"]
        /\ rewrites' = rewrites \cup {id}
        /\ UNCHANGED <<hash, now, opened, minted, disordered>>
    BY DEF Rewrite
  <1>2. body \in [Id -> Body \cup {Null}] /\ id \notin rewrites
    BY <1>1 DEF LInv, TypeOK, Forged
  <1>3. Rows' = Rows /\ \A i : Before(i)' = Before(i)
    <2>1. Rows' = Rows
      BY <1>1, <1>2, NullAssumption DEF Rows, Body
    <2>2. QED
      BY <2>1 DEF Before
  <1>4. \A i \in Rows : Said(i)' = Said(i)
    BY <1>1, <1>2, <1>3 DEF Said, Rows
  <1>5. Unhashed' = Unhashed
    BY <1>1, <1>3 DEF Unhashed
  <1>6. TypeOK'
    BY <1>1, <1>2, <1>3, <1>5 DEF LInv, TypeOK, Body
  <1>7. Forged'
    BY <1>1, <1>2 DEF LInv, Forged, TypeOK
  <1>8. Chained'
    <2>1. ASSUME NEW i \in Rows PROVE Written(i)' = Written(i)
      <3>1. \A j \in Before(i) \cup {i} : j \in Rows
        BY DEF Before
      <3>2. QED
        BY <1>3, <1>4, <3>1, WrittenSame
    <2>2. QED
      BY <1>1, <1>3, <1>5, <2>1 DEF LInv, Chained
  <1>9. QED
    BY <1>6, <1>7, <1>8 DEF LInv

(* The stored hash at the end of a ledger's beginning is of that beginning. *)
LEMMA HeadWritten ==
  ASSUME LInv, Unhashed = {}, ~disordered,
         NEW S \in SUBSET Rows, \A i \in S : Before(i) \subseteq S
  PROVE  Stored(Last(S)) =
           [upto |-> Last(S), links |-> {<<Last(Before(i)), i, Said(i)>> : i \in S}]
  <1>1. S \in SUBSET Id /\ Rows \in SUBSET Id
    BY DEF Rows
  <1>2. CASE S = {}
    BY <1>2, <1>1, LastOf DEF Stored, Genesis
  <1>3. CASE S # {}
    <2>1. PICK h \in S : h = Last(S) /\ \A j \in S : j <= h
      BY <1>1, <1>3, LastOf
    <2>2. h \in Rows /\ h # Null /\ hash[h] # Null
      BY <1>1, <2>1, NullAssumption, IdIsInt DEF Unhashed
    <2>3. Stored(h) = Written(h)
      BY <2>2 DEF Stored, LInv, Chained
    <2>4. S = Before(h) \cup {h}
      <3>1. \A j \in S : j # h => j \in Before(h)
        <4> SUFFICES ASSUME NEW j \in S, j # h PROVE j \in Before(h)
          OBVIOUS
        <4>1. j \in Int /\ h \in Int /\ j <= h
          BY <1>1, <2>1, IdIsInt
        <4>2. j < h
          BY <4>1
        <4>3. QED
          BY <4>2 DEF Before
      <3>2. QED
        BY <3>1
    <2>5. QED
      BY <2>1, <2>3, <2>4 DEF Written
  <1>4. QED
    BY <1>2, <1>3

LEMMA AppendLInv == ASSUME LInv, NEW p \in Proc, Append(p) PROVE LInv'
  <1>1. PICK id \in Mintable(p) :
          /\ body' = [body EXCEPT ![id] = "recorded"]
          /\ hash' = [hash EXCEPT ![id] = EventHash(HeadHash, id, "recorded")]
          /\ minted' = [minted EXCEPT ![p] = id]
          /\ disordered' = (disordered \/ \E i \in Rows : id < i)
    BY DEF Append
  <1>2. opened[p] = "open" /\ UNCHANGED <<now, opened, rewrites>>
    BY DEF Append
  <1>3. id \in Id /\ id \notin Rows /\ id \in Int
    BY IdIsInt DEF Mintable
  <1>4. Unhashed = {}
    BY <1>2 DEF LInv, TypeOK
  <1>5. Rows' = Rows \cup {id}
    BY <1>1, <1>3, NullAssumption DEF Rows, LInv, TypeOK, Body
  <1>6. EventHash(HeadHash, id, "recorded") \in Hash
    BY <1>3, HeadIsHash, EventHashIsHash DEF LInv, Body
  <1>7. Unhashed' = {}
    <2>1. \A i \in Rows' : hash'[i] # Null
      BY <1>1, <1>3, <1>4, <1>5, <1>6, NullAssumption DEF Unhashed, LInv, TypeOK, Rows
    <2>2. QED
      BY <2>1 DEF Unhashed
  <1>8. TypeOK'
    <2>1. body' \in [Id -> Body \cup {Null}] /\ hash' \in [Id -> Hash \cup {Null}]
      BY <1>1, <1>3, <1>6 DEF LInv, TypeOK, Body
    <2>2. /\ opened' \in [Proc -> {"closed", "counted", "open"}]
          /\ minted' \in [Proc -> Int] /\ now' \in 0..MaxTime
      BY <1>1, <1>2, <1>3 DEF LInv, TypeOK
    <2>3. \A i \in Id \ Rows' : hash'[i] = Null
      BY <1>1, <1>3, <1>5 DEF LInv, TypeOK
    <2>4. disordered' \in BOOLEAN /\ rewrites' \subseteq Id
      BY <1>1, <1>2 DEF LInv, TypeOK
    <2>5. QED
      BY <1>7, <2>1, <2>2, <2>3, <2>4, Zenon DEF TypeOK
  <1>9. id \notin rewrites /\ Forged'
    <2>1. \A i \in rewrites : i \in Rows
      BY NullAssumption DEF LInv, Forged, TypeOK, Rows, Body
    <2>2. QED
      BY <1>1, <1>2, <1>3, <2>1 DEF LInv, Forged
  <1>10. Chained'
    <2>1. SUFFICES ASSUME ~disordered', NEW i \in Rows' PROVE hash'[i] = Written(i)'
      BY Zenon DEF Chained
    <2>2. ~disordered /\ \A j \in Rows : j < id
      <3>1. ~disordered /\ \A j \in Rows : ~(id < j) /\ j \in Int /\ j # id
        BY <1>1, <1>3, <2>1, IdIsInt DEF Rows
      <3>2. QED
        BY <1>3, <3>1
    <2>3. \A j \in Rows : Before(j)' = Before(j) /\ Said(j)' = Said(j)
      <3> SUFFICES ASSUME NEW j \in Rows PROVE Before(j)' = Before(j) /\ Said(j)' = Said(j)
        OBVIOUS
      <3>1. j \in Id /\ j \in Int /\ ~(id < j) /\ j # id
        BY <1>3, <2>2, IdIsInt DEF Rows
      <3>2. QED
        BY <1>1, <1>2, <1>3, <1>5, <3>1 DEF Before, Said, LInv, TypeOK
    <2>4. Before(id)' = Rows /\ Before(id) \cup Rows = Rows /\ Said(id)' = "recorded"
      <3>1. ~(id < id)
        BY <1>3
      <3>2. QED
        BY <1>1, <1>2, <1>3, <1>5, <2>2, <3>1 DEF Before, Said, LInv, TypeOK
    <2>5. CASE i \in Rows
      <3>1. Written(i)' = Written(i)
        <4>1. \A j \in Before(i) \cup {i} : j \in Rows
          BY <2>5 DEF Before
        <4>2. QED
          BY <2>3, <2>5, <4>1, WrittenSame
      <3>2. hash'[i] = hash[i]
        BY <1>1, <1>3, <2>5 DEF LInv, TypeOK, Rows
      <3>3. QED
        BY <1>4, <2>2, <2>5, <3>1, <3>2 DEF LInv, Chained
    <2>6. CASE i = id
      <3>1. HeadHash =
              [upto |-> Last(Rows), links |-> {<<Last(Before(j)), j, Said(j)>> : j \in Rows}]
        <4>1. \A j \in Rows : Before(j) \subseteq Rows
          BY DEF Before
        <4>2. QED
          BY <1>4, <2>2, <4>1, HeadWritten DEF HeadHash
      <3>2. Written(id)' = [upto |-> id,
              links |-> {<<Last(Before(j))', j, Said(j)'>> : j \in Rows \cup {id}}]
        BY <2>4 DEF Written
      <3>3. {<<Last(Before(j))', j, Said(j)'>> : j \in Rows \cup {id}} =
              {<<Last(Before(j)), j, Said(j)>> : j \in Rows} \cup {<<Last(Rows), id, "recorded">>}
        BY <2>3, <2>4
      <3>4. hash'[id] = EventHash(HeadHash, id, "recorded")
        BY <1>1, <1>3 DEF LInv, TypeOK
      <3>5. QED
        BY <2>6, <3>1, <3>2, <3>3, <3>4 DEF EventHash
    <2>7. QED
      BY <1>5, <2>5, <2>6
  <1>11. QED
    BY <1>8, <1>9, <1>10 DEF LInv

LEMMA NextLInv == LInv /\ [Next]_vars => LInv'
  <1> SUFFICES ASSUME LInv, [Next]_vars PROVE LInv'
    OBVIOUS
  <1>1. CASE UNCHANGED vars
    <2>1. UNCHANGED <<body, hash, now, opened, minted, disordered, rewrites>>
      BY <1>1 DEF vars
    <2>2. TypeOK'
      BY <2>1 DEF LInv, TypeOK, Rows, Unhashed
    <2>3. QED
      BY <2>1, <2>2, ElsewhereLInv
  <1>2. QED
    BY <1>1, OpenLInv, BackfillLInv, AppendLInv, ClockLInv, RewriteLInv DEF Next

(* In every reachable state of the ledger the columns keep their types and
   every row of an ordered ledger is hashed as it was written (append,
   backfill_chain). *)
THEOREM Invariance == Spec => []LInv
  BY InitLInv, NextLInv, PTL DEF Spec

(* Rows and hashes have the shapes the table declares, and only rows from
   before the chain lack a hash, until an open is done. *)
THEOREM TypeCorrect == Spec => []TypeOK
  <1>1. LInv => TypeOK
    BY DEF LInv
  <1>2. QED
    BY <1>1, Invariance, PTL

-----------------------------------------------------------------------------
(* What verification finds in an ordered ledger is what was edited since it
   was last hashed. *)
LEMMA BrokenAreRewrites ==
  ASSUME LInv, Unhashed = {}, ~disordered
  PROVE  Broken = rewrites
  <1>1. rewrites \subseteq Rows
    BY NullAssumption DEF LInv, TypeOK, Forged, Rows, Body
  <1>2. ASSUME NEW id \in Rows PROVE Mismatch(id) <=> id \in rewrites
    <2> DEFINE B == {<<Last(Before(i)), i, Said(i)>> : i \in Before(id)}
               t == <<Last(Before(id)), id, body[id]>>
               said == <<Last(Before(id)), id, Said(id)>>
    <2>1. id \in Id /\ ~(id < id) /\ id \in Int
      BY IdIsInt DEF Rows
    <2>2. Stored(Last(Before(id))) = [upto |-> Last(Before(id)), links |-> B]
      <3>1. \A i \in Before(id) : Before(i) \subseteq Before(id)
        <4> SUFFICES ASSUME NEW i \in Before(id), NEW j \in Before(i) PROVE j \in Before(id)
          OBVIOUS
        <4>1. i < id /\ j < i /\ j \in Rows /\ i \in Int /\ j \in Int
          BY IdIsInt DEF Before, Rows
        <4>2. j < id
          BY <2>1, <4>1
        <4>3. QED
          BY <4>1, <4>2 DEF Before
      <3>2. Before(id) \in SUBSET Rows
        BY DEF Before
      <3>3. QED
        BY <3>1, <3>2, HeadWritten
    <2>3. EventHash(Stored(Last(Before(id))), id, body[id]) = [upto |-> id, links |-> B \cup {t}]
      BY <2>2 DEF EventHash
    <2>4. Stored(id) = [upto |-> id, links |-> B \cup {said}]
      <3>1. Stored(id) = Written(id)
        BY <2>1, NullAssumption DEF Stored, LInv, Chained, Unhashed
      <3>2. Written(id).links = B \cup {said}
        BY DEF Written
      <3>3. QED
        BY <3>1, <3>2 DEF Written
    <2>5. CASE id \notin rewrites
      <3>1. said = t
        BY <2>5 DEF Said
      <3>2. QED
        BY <2>3, <2>4, <2>5, <3>1 DEF Mismatch
    <2>6. CASE id \in rewrites
      <3>1. body[id] = "forged" /\ Said(id) = "recorded"
        BY <2>6 DEF LInv, Forged, Said
      <3>2. t # said /\ t \notin B
        <4>1. \A i \in Before(id) : i # id
          BY <2>1 DEF Before
        <4>2. QED
          BY <3>1, <4>1
      <3>3. B \cup {t} # B \cup {said}
        BY <3>2
      <3>4. QED
        BY <2>3, <2>4, <2>6, <3>3 DEF Mismatch
    <2>7. QED
      BY <2>5, <2>6
  <1>3. QED
    BY <1>1, <1>2 DEF Broken, Mismatch, Rows

(* Verification (verify_chain) accepts a ledger nobody edited, whose appends
   took their ids in order, however many processes opened, rehashed and
   appended at once. *)
THEOREM OrderedLedgerHolds == Spec => []OrderedLedgerVerifies
  <1>1. LInv => OrderedLedgerVerifies
    BY BrokenAreRewrites DEF OrderedLedgerVerifies
  <1>2. QED
    BY <1>1, Invariance, PTL

(* "Or name the first broken link" (verify_chain, audit_verify): after edits to
   an ordered ledger verification names the earliest row edited, however many
   edits and later appends there are. *)
THEOREM RewriteIsNamedHolds == Spec => []RewriteIsNamed
  <1>1. ASSUME LInv, Unhashed = {}, ~disordered, rewrites # {}
        PROVE  FirstBreak \in rewrites /\ \A id \in rewrites : FirstBreak <= id
    <2>1. Broken = rewrites /\ rewrites \in SUBSET Id
      BY <1>1, BrokenAreRewrites DEF LInv, TypeOK
    <2>2. \E i \in rewrites : \A j \in rewrites : i <= j
      BY <1>1, <2>1, Ends DEF HasEnds
    <2>3. FirstBreak = CHOOSE i \in rewrites : \A j \in rewrites : i <= j
      BY <1>1, <2>1 DEF FirstBreak
    <2>4. QED
      BY <2>2, <2>3, Zenon
  <1>2. LInv => RewriteIsNamed
    BY <1>1 DEF RewriteIsNamed
  <1>3. QED
    BY <1>2, Invariance, PTL

-----------------------------------------------------------------------------
(* The follower only reads, so a followed ledger is a ledger. *)
THEOREM FollowedLedgerIsALedger == FollowSpec => Spec
  <1>1. FollowInit => Init
    BY DEF FollowInit
  <1>2. [FollowNext]_allvars => [Next]_vars
    BY DEF FollowNext, LedgerStep, ShowBacklog, SeedCursor, Poll, StopFollowing, allvars
  <1>3. QED
    BY <1>1, <1>2, PTL DEF FollowSpec, Spec

(* Rowids count the rows as they landed. *)
Landed ==
  /\ IsFiniteSet(Rows)
  /\ rowid \in [Id -> Nat]
  /\ \A i \in Rows : rowid[i] \in 1..MaxRowid

(* The cursor stands at a row that landed; what it has passed was printed or
   is excepted, and what was printed it has passed. *)
Followed ==
  /\ follower \in {"off", "backlog", "streaming"}
  /\ ~reprinted
  /\ shown \subseteq Rows
  /\ follower = "backlog" => Rows \subseteq shown \cup missed
  /\ follower = "streaming" =>
       /\ cursor \in 0..MaxRowid
       /\ \A i \in shown : rowid[i] <= cursor
       /\ \A i \in Rows : rowid[i] <= cursor => i \in shown \cup missed

FInv == LInv /\ Landed /\ Followed

LEMMA RowsFinite == IsFiniteSet(Rows) /\ MaxRowid \in Nat
  <1>1. IsFiniteSet(Id)
    BY BoundsAssumption, FS_Interval DEF Id
  <1>2. Rows \subseteq Id
    BY DEF Rows
  <1>3. IsFiniteSet(Rows)
    BY <1>1, <1>2, FS_Subset
  <1>4. QED
    BY <1>3, FS_CardinalityType DEF MaxRowid

LEMMA InitFInv == FollowInit => FInv
  <1> SUFFICES ASSUME FollowInit PROVE FInv
    OBVIOUS
  <1>1. LInv
    BY InitLInv DEF FollowInit
  <1>2. rowid = [id \in Id |-> IF id \in Rows THEN 1 + Cardinality(Before(id)) ELSE 0]
    BY DEF FollowInit
  <1>3. ASSUME NEW i \in Rows
        PROVE  Cardinality(Before(i)) \in Nat /\ Cardinality(Before(i)) + 1 <= MaxRowid
    <2>1. Before(i) \subseteq Rows /\ i \notin Before(i)
      BY IdIsInt DEF Before, Rows
    <2>2. IsFiniteSet(Before(i)) /\ Before(i) \cup {i} \subseteq Rows
      BY <2>1, RowsFinite, FS_Subset
    <2>3. Cardinality(Before(i) \cup {i}) = Cardinality(Before(i)) + 1
      BY <2>1, <2>2, FS_AddElement
    <2>4. Cardinality(Before(i) \cup {i}) <= Cardinality(Rows)
      BY <2>2, RowsFinite, FS_Subset
    <2>5. Cardinality(Before(i)) \in Nat
      BY <2>2, FS_CardinalityType
    <2>6. QED
      BY <2>3, <2>4, <2>5 DEF MaxRowid
  <1>4. Landed
    <2>1. \A i \in Rows : i \in Id /\ rowid[i] = 1 + Cardinality(Before(i))
      BY <1>2 DEF Rows
    <2>2. \A i \in Rows : rowid[i] \in 1..MaxRowid
      BY <1>3, <2>1, RowsFinite
    <2>3. rowid \in [Id -> Nat]
      BY <1>2, <1>3
    <2>4. QED
      BY <2>2, <2>3, RowsFinite DEF Landed
  <1>5. Followed
    BY DEF Followed, FollowInit
  <1>6. QED
    BY <1>1, <1>4, <1>5 DEF FInv

(* A step of the ledger adds at most one row and takes none away. *)
LEMMA LedgerGrows ==
  ASSUME LInv, Next
  PROVE  Rows' = Rows \/ \E id \in Id \ Rows : Rows' = Rows \cup {id}
  <1> USE DEF LInv, TypeOK, Body
  <1>1. CASE body' = body
    BY <1>1 DEF Rows
  <1>2. ASSUME NEW p \in Proc, Append(p)
        PROVE  \E id \in Id \ Rows : Rows' = Rows \cup {id}
    <2>1. PICK id \in Mintable(p) : body' = [body EXCEPT ![id] = "recorded"]
      BY <1>2 DEF Append
    <2>2. id \in Id \ Rows
      BY <2>1 DEF Mintable
    <2>3. Rows' = Rows \cup {id}
      BY <2>1, <2>2, NullAssumption DEF Rows
    <2>4. QED
      BY <2>2, <2>3
  <1>3. ASSUME NEW id \in Id, Rewrite(id) PROVE Rows' = Rows
    BY <1>3, NullAssumption DEF Rewrite, Rows
  <1>4. QED
    BY <1>1, <1>2, <1>3 DEF Next, Open, Backfill, Close, Clock

LEMMA LedgerStepFInv == ASSUME FInv, LedgerStep PROVE FInv'
  <1>1. LInv' /\ UNCHANGED <<follower, cursor, shown, reprinted>>
    BY NextLInv DEF FInv, LedgerStep, following
  <1>2. CASE Rows' = Rows
    <2>1. UNCHANGED <<rowid, missed>> /\ MaxRowid' = MaxRowid
      BY <1>2 DEF LedgerStep, MaxRowid
    <2>2. QED
      BY <1>1, <1>2, <2>1 DEF FInv, Landed, Followed
  <1>3. CASE Rows' # Rows
    <2>1. PICK id \in Rows' \ Rows :
            /\ rowid' = [rowid EXCEPT ![id] = MaxRowid + 1]
            /\ missed' = IF follower = "backlog" THEN missed \cup {id} ELSE missed
      BY <1>3 DEF LedgerStep
    <2>2. Rows' = Rows \cup {id} /\ id \in Id
      BY <1>3, <2>1, LedgerGrows DEF LedgerStep, FInv
    <2>3. IsFiniteSet(Rows)' /\ MaxRowid' = MaxRowid + 1 /\ MaxRowid \in Nat
      BY <2>1, <2>2, RowsFinite, FS_AddElement DEF MaxRowid
    <2>4. rowid \in [Id -> Nat] /\ Rows \subseteq Id
      BY DEF FInv, Landed, Rows
    <2>5. rowid'[id] = MaxRowid + 1 /\ \A i \in Rows : rowid'[i] = rowid[i]
      BY <2>1, <2>2, <2>4
    <2>6. Landed'
      <3>1. rowid' \in [Id -> Nat]
        BY <2>1, <2>2, <2>3, <2>4
      <3>2. \A i \in Rows' : rowid'[i] \in 1..MaxRowid'
        BY <2>2, <2>3, <2>5 DEF FInv, Landed
      <3>3. QED
        BY <2>3, <3>1, <3>2 DEF Landed
    <2>7. Followed'
      <3>1. follower = "streaming" => ~(rowid'[id] <= cursor) /\ cursor \in 0..MaxRowid'
        BY <2>3, <2>5 DEF FInv, Followed
      <3>2. \A i \in shown : rowid'[i] = rowid[i]
        BY <2>5 DEF FInv, Followed
      <3>3. QED
        BY <1>1, <2>1, <2>2, <2>5, <3>1, <3>2 DEF FInv, Followed
    <2>8. QED
      BY <1>1, <2>6, <2>7 DEF FInv
  <1>4. QED
    BY <1>2, <1>3

LEMMA FollowerFInv ==
  ASSUME FInv, ShowBacklog \/ SeedCursor \/ Poll \/ StopFollowing
  PROVE  FInv'
  <1>1. UNCHANGED vars /\ UNCHANGED rowid
    BY DEF ShowBacklog, SeedCursor, Poll, StopFollowing
  <1>2. LInv' /\ Rows' = Rows /\ MaxRowid' = MaxRowid
    BY <1>1, NextLInv DEF FInv, vars, Rows, MaxRowid
  <1>3. Landed'
    BY <1>1, <1>2 DEF FInv, Landed
  <1>4. CASE ShowBacklog
    <2>1. /\ follower' = "backlog" /\ shown' = Newest /\ missed' = Rows \ Newest
          /\ reprinted' = reprinted
      BY <1>4 DEF ShowBacklog
    <2>2. Newest \subseteq Rows
      BY DEF Newest
    <2>3. Followed'
      BY <1>2, <2>1, <2>2 DEF FInv, Followed
    <2>4. QED
      BY <1>2, <1>3, <2>3 DEF FInv
  <1>5. CASE SeedCursor
    <2>1. /\ follower = "backlog" /\ follower' = "streaming" /\ cursor' = MaxRowid
          /\ UNCHANGED <<shown, reprinted, missed>>
      BY <1>5 DEF SeedCursor
    <2>2. \A i \in Rows : rowid[i] <= MaxRowid
      BY RowsFinite DEF FInv, Landed
    <2>3. MaxRowid \in 0..MaxRowid
      BY RowsFinite
    <2>4. Followed'
      <3>1. Rows \subseteq shown \cup missed /\ shown \subseteq Rows /\ ~reprinted
        BY <2>1 DEF FInv, Followed
      <3>2. \A i \in shown : rowid[i] <= MaxRowid
        BY <2>2, <3>1
      <3>3. QED
        BY <1>1, <1>2, <2>1, <2>3, <3>1, <3>2 DEF Followed
    <2>5. QED
      BY <1>2, <1>3, <2>4 DEF FInv
  <1>6. CASE Poll
    <2> DEFINE new == {i \in Rows : rowid[i] > cursor}
    <2>1. /\ follower = "streaming" /\ UNCHANGED <<follower, missed>>
          /\ shown' = shown \cup new /\ reprinted' = (reprinted \/ new \cap shown # {})
          /\ cursor' \in {rowid[i] : i \in new} /\ \A i \in new : rowid[i] <= cursor'
      BY <1>6 DEF Poll, EventsAfter
    <2>2. /\ ~reprinted /\ cursor \in Int /\ shown \subseteq Rows
          /\ \A i \in shown : rowid[i] <= cursor
          /\ \A i \in Rows : rowid[i] <= cursor => i \in shown \cup missed
          /\ \A i \in Rows : rowid[i] \in 1..MaxRowid
      BY <2>1 DEF FInv, Followed, Landed
    <2>3. new \cap shown = {}
      BY <2>2
    <2>4. cursor' \in 0..MaxRowid /\ cursor < cursor'
      <3>1. PICK i \in new : cursor' = rowid[i]
        BY <2>1
      <3>2. QED
        BY <2>2, <3>1, RowsFinite
    <2>5. \A i \in shown \cup new : rowid[i] <= cursor'
      <3>1. \A i \in shown : rowid[i] \in Int /\ rowid[i] <= cursor
        BY <2>2
      <3>2. \A i \in shown : rowid[i] <= cursor'
        BY <2>2, <2>4, <3>1, RowsFinite
      <3>3. QED
        BY <2>1, <3>2
    <2>6. \A i \in Rows : i \in new \/ rowid[i] <= cursor
      BY <2>2
    <2> HIDE DEF new
    <2>7. shown' \subseteq Rows
      BY <2>1, <2>2 DEF new
    <2>8. QED
      BY <1>1, <1>2, <1>3, <2>1, <2>2, <2>3, <2>4, <2>5, <2>6, <2>7 DEF FInv, Followed
  <1>7. CASE StopFollowing
    BY <1>2, <1>3, <1>7 DEF StopFollowing, FInv, Followed
  <1>8. QED
    BY <1>2, <1>3, <1>4, <1>5, <1>6, <1>7 DEF FInv

(* "Stream witnessed events as they land" (audit_follow): the follower prints
   every event that lands once it streams, and none twice, however many land at
   once and whatever their ids and timestamps. *)
THEOREM FollowTellsHolds == FollowSpec => []FollowTellsEachEventOnce
  <1>1. FInv /\ [FollowNext]_allvars => FInv'
    <2> SUFFICES ASSUME FInv, [FollowNext]_allvars PROVE FInv'
      OBVIOUS
    <2>1. CASE UNCHANGED allvars
      <3>1. UNCHANGED vars /\ UNCHANGED <<rowid, follower, cursor, shown, reprinted, missed>>
        BY <2>1 DEF allvars
      <3>2. LInv' /\ Rows' = Rows /\ MaxRowid' = MaxRowid
        BY <3>1, NextLInv DEF FInv, vars, Rows, MaxRowid
      <3>3. QED
        BY <3>1, <3>2 DEF FInv, Landed, Followed
    <2>2. QED
      BY <2>1, LedgerStepFInv, FollowerFInv DEF FollowNext
  <1>2. FInv => FollowTellsEachEventOnce
    BY DEF FInv, Followed, FollowTellsEachEventOnce
  <1>3. QED
    BY <1>1, <1>2, InitFInv, PTL DEF FollowSpec

(* A followed ledger that is in order verifies, and names an edit. *)
THEOREM FollowedLedgerHolds == FollowSpec => [](OrderedLedgerVerifies /\ RewriteIsNamed)
  BY FollowedLedgerIsALedger, OrderedLedgerHolds, RewriteIsNamedHolds, PTL

-----------------------------------------------------------------------------
(* Bundles: the invariant that a merge keeps. *)

(* Some library has the pointer. *)
Leads(i, j) == \E l \in Library : superseded_by[l][i] = j

(* Every entry belongs to the fact it was written into, pointers lead to later
   versions of it, and a version succeeded one only, whatever library knows. *)
Lines ==
  /\ \A i \in Entry : fact[i] # None <=> i <= written
  /\ \A i \in Entry : i <= written => fact[i] <= i /\ fact[fact[i]] = fact[i]
  /\ \A l \in Library, i \in Entry : Has(l, i) => i <= written
  /\ \A l \in Library, i \in Entry :
       superseded_by[l][i] # None =>
         i < superseded_by[l][i] /\ fact[superseded_by[l][i]] = fact[i]
  /\ \A i, p, j \in Entry : Leads(i, j) /\ Leads(p, j) => i = p

(* A bundle's pointers are some library's; the last version of a fact that did
   not branch comes with the one before it. *)
Sound(b) ==
  /\ b.entries \subseteq {i \in Entry : fact[i] # None}
  /\ b.edges \subseteq b.entries \X b.entries
  /\ \A i \in Entry : b.next[i] # None => i \in b.entries /\ Leads(i, b.next[i])
  /\ \A k \in b.entries :
       b.whole /\ fact[k] \notin branched /\ b.next[k] = None /\ k # fact[k] =>
         \E p \in b.entries : b.next[p] = k

(* The entries here before the import whose pointers are still to be looked at,
   the one under dispute left out. *)
Unreached(c) ==
  IF c.at = "insert" THEN c.existed
  ELSE IF c.at = "dispute" THEN c.todo \ {Least(c.todo)} ELSE c.todo

Accounted(l, c, i) ==
  \/ superseded_by[l][i] = c.bundle.next[i]
  \/ \E e \in contradicts[l] : fact[e[1]] = fact[i]

(* What an import has done and knows. *)
Pass(l) ==
  LET c == importing[l]
  IN  /\ c.at = "idle" => c = Idle
      /\ Sound(c.bundle) /\ (l \notin torn => c.bundle.whole)
      /\ c.todo \subseteq c.bundle.entries
      /\ c.existed \subseteq c.bundle.entries \ c.todo
      /\ c.at # "insert" => c.existed = {}
      /\ \A i \in Entry : c.next[i] # None => superseded_by[l][i] = c.next[i]
      /\ \A i \in c.bundle.entries : Has(l, i) \/ (c.at = "insert" /\ i \in c.todo)
      /\ \A i \in c.bundle.entries :
           c.bundle.next[i] # None =>
             \/ i \in c.todo \/ i \in c.existed
             \/ superseded_by[l][i] = c.bundle.next[i]
             \/ c.at # "insert" /\ Accounted(l, c, i)
      /\ c.at = "dispute" =>
           /\ c.todo # {} /\ Forks(c, Least(c.todo))
           /\ Has(l, End(c.bundle.next, c.bundle.next[Least(c.todo)]))
           /\ c.head # None /\ Has(l, c.head)

(* A circulating version ends a line of live versions that starts with the
   fact, each pointing to the next. *)
Trunk(l, k, S) ==
  /\ {k, fact[k]} \subseteq S /\ S \subseteq {i \in Entry : status[l][i] = "live"}
  /\ \A i \in S : i # k => superseded_by[l][i] \in S
  /\ \A j \in S : j # fact[k] => \E i \in S : superseded_by[l][i] = j

Trunked(l, k) == \E S \in SUBSET Entry : Trunk(l, k, S)

(* The import has yet to reach the pointer that leads to it. *)
Due(l, k) ==
  LET c == importing[l]
  IN  /\ k \in c.bundle.entries /\ c.bundle.next[k] = None
      /\ \E p \in Unreached(c) : c.bundle.next[p] = k /\ superseded_by[l][p] # k

Circulates(l, k) == status[l][k] = "live" /\ superseded_by[l][k] = None

Merged(l) ==
  l \notin torn =>
    \A k \in Entry : fact[k] \notin branched =>
      /\ Circulates(l, k) => Trunked(l, k) \/ Due(l, k)
      /\ Has(l, k) /\ k # fact[k] => Contested(l, k)

MInv ==
  /\ BundleTypeOK /\ Lines
  /\ \A b \in files : Sound(b)
  /\ \A l \in Library : Pass(l) /\ Merged(l)

-----------------------------------------------------------------------------
(* The end of a chain. *)

LEMMA EntryBound == MaxEntries \in Nat /\ Entry \subseteq Nat /\ None \notin Entry
  BY BundleAssumption, NoneAssumption DEF Entry

Follows(next, w, n) ==
  \A k \in 0..n : k # n => w[k + 1] = IF next[w[k]] = None THEN w[k] ELSE next[w[k]]

(* End goes MaxEntries steps along the pointers. *)
LEMMA EndWalks ==
  ASSUME NEW next \in [Entry -> Entry \cup {None}], NEW i \in Entry
  PROVE  \E w \in [0..MaxEntries -> Entry] :
           w[0] = i /\ End(next, i) = w[MaxEntries] /\ Follows(next, w, MaxEntries)
  <1> DEFINE T == {n \in Nat : \E w \in [0..n -> Entry] : w[0] = i /\ Follows(next, w, n)}
             W == CHOOSE step : step = [k \in 0..MaxEntries |->
                    IF k = 0 THEN i
                    ELSE IF next[step[k - 1]] = None THEN step[k - 1]
                    ELSE next[step[k - 1]]]
  <1>0. MaxEntries \in Nat
    BY EntryBound
  <1>1. 0 \in T
    <2>1. [k \in 0..0 |-> i] \in [0..0 -> Entry] /\ Follows(next, [k \in 0..0 |-> i], 0)
      BY DEF Follows
    <2>2. QED
      BY <2>1
  <1>2. ASSUME NEW n \in Nat, n \in T PROVE n + 1 \in T
    <2>1. PICK w \in [0..n -> Entry] : w[0] = i /\ Follows(next, w, n)
      BY <1>2
    <2> DEFINE onward == IF next[w[n]] = None THEN w[n] ELSE next[w[n]]
               v == [k \in 0..n + 1 |-> IF k = n + 1 THEN onward ELSE w[k]]
    <2>2. onward \in Entry
      BY <2>1
    <2>3. v \in [0..n + 1 -> Entry] /\ v[0] = i
      BY <2>1, <2>2
    <2>4. ASSUME NEW k \in 0..n + 1, k # n + 1
          PROVE  v[k + 1] = IF next[v[k]] = None THEN v[k] ELSE next[v[k]]
      BY <2>1, <2>4 DEF Follows
    <2> HIDE DEF v
    <2>5. Follows(next, v, n + 1)
      BY <2>4 DEF Follows
    <2>6. QED
      BY <2>3, <2>5
  <1>3. MaxEntries \in T
    <2> HIDE DEF T
    <2>1. QED
      BY <1>0, <1>1, <1>2, SetInduction
  <1>4. PICK w \in [0..MaxEntries -> Entry] : w[0] = i /\ Follows(next, w, MaxEntries)
    BY <1>3
  <1>5. w = [k \in 0..MaxEntries |->
               IF k = 0 THEN i
               ELSE IF next[w[k - 1]] = None THEN w[k - 1] ELSE next[w[k - 1]]]
    <2>1. \A k \in 0..MaxEntries : k # 0 =>
            k - 1 \in 0..MaxEntries /\ k - 1 # MaxEntries /\ (k - 1) + 1 = k
      BY <1>0
    <2>2. \A k \in 0..MaxEntries :
            w[k] = IF k = 0 THEN i
                   ELSE IF next[w[k - 1]] = None THEN w[k - 1] ELSE next[w[k - 1]]
      BY <1>4, <2>1 DEF Follows
    <2>3. QED
      BY <2>2
  <1>6. W = [k \in 0..MaxEntries |->
               IF k = 0 THEN i
               ELSE IF next[W[k - 1]] = None THEN W[k - 1] ELSE next[W[k - 1]]]
    BY <1>5
  <1> DEFINE S == {k \in Nat : k <= MaxEntries => W[k] = w[k]}
  <1>7. MaxEntries \in S
    <2> HIDE DEF W
    <2>1. 0 \in S
      BY <1>0, <1>4, <1>6
    <2>2. ASSUME NEW n \in Nat, n \in S PROVE n + 1 \in S
      <3>1. CASE n + 1 <= MaxEntries
        <4>1. W[n + 1] = IF next[W[n]] = None THEN W[n] ELSE next[W[n]]
          BY <1>0, <1>6, <3>1
        <4>2. w[n + 1] = (IF next[w[n]] = None THEN w[n] ELSE next[w[n]]) /\ W[n] = w[n]
          BY <1>0, <1>4, <2>2, <3>1 DEF Follows
        <4>3. QED
          BY <4>1, <4>2
      <3>2. QED
        BY <3>1
    <2> HIDE DEF S
    <2>3. QED
      BY <1>0, <2>1, <2>2, SetInduction
  <1>8. End(next, i) = W[MaxEntries]
    BY Zenon DEF End
  <1> HIDE DEF W
  <1>9. QED
    BY <1>0, <1>4, <1>7, <1>8

(* It stays in what the pointers do not lead out of. *)
LEMMA EndStays ==
  ASSUME NEW next \in [Entry -> Entry \cup {None}], NEW Y, NEW i \in Entry, i \in Y,
         \A x \in Entry : x \in Y /\ next[x] # None => next[x] \in Y
  PROVE  End(next, i) \in Entry /\ End(next, i) \in Y
  <1>1. PICK w \in [0..MaxEntries -> Entry] :
          w[0] = i /\ End(next, i) = w[MaxEntries] /\ Follows(next, w, MaxEntries)
    BY EndWalks
  <1>2. MaxEntries \in Nat
    BY EntryBound
  <1> DEFINE T == {n \in Nat : n <= MaxEntries => w[n] \in Y}
  <1>3. 0 \in T
    BY <1>1
  <1>4. ASSUME NEW n \in Nat, n \in T PROVE n + 1 \in T
    BY <1>1, <1>2, <1>4 DEF Follows
  <1>5. MaxEntries \in T
    <2> HIDE DEF T
    <2>1. QED
      BY <1>2, <1>3, <1>4, SetInduction
  <1>6. QED
    BY <1>1, <1>2, <1>5

LEMMA EndOfHead ==
  ASSUME NEW next \in [Entry -> Entry \cup {None}], NEW k \in Entry, next[k] = None
  PROVE  End(next, k) = k
  <1>1. End(next, k) \in {k}
    BY EndStays
  <1>2. QED
    BY <1>1

LEMMA LeastIsThere ==
  ASSUME NEW S \in SUBSET Entry, S # {}
  PROVE  Least(S) \in S /\ \A j \in S : Least(S) <= j
  <1> DEFINE T == {n \in Nat : \A i \in S : i <= n => \E m \in S : \A j \in S : m <= j}
  <1>0. S \subseteq Nat /\ MaxEntries \in Nat
    BY EntryBound
  <1>1. 0 \in T
    BY DEF Entry
  <1>2. ASSUME NEW n \in Nat, n \in T PROVE n + 1 \in T
    <2>1. SUFFICES ASSUME NEW i \in S, i <= n + 1 PROVE \E m \in S : \A j \in S : m <= j
      OBVIOUS
    <2>2. CASE \E j \in S : j <= n
      BY <1>2, <2>2
    <2>3. CASE \A j \in S : ~(j <= n)
      <3>1. \A j \in S : i <= j
        BY <1>0, <2>1, <2>3
      <3>2. QED
        BY <3>1
    <2>4. QED
      BY <2>2, <2>3
  <1>3. MaxEntries \in T
    <2> HIDE DEF T
    <2>1. QED
      BY <1>0, <1>1, <1>2, SetInduction
  <1>4. PICK m \in S : \A j \in S : m <= j
    <2>1. PICK i \in S : TRUE
      OBVIOUS
    <2>2. i <= MaxEntries
      BY <1>0, <2>1 DEF Entry
    <2>3. QED
      BY <1>3, <2>2
  <1>5. QED
    BY <1>4 DEF Least

-----------------------------------------------------------------------------
(* What no step takes back, and a library that a step leaves alone. *)
Kept ==
  /\ \A i \in Entry : fact[i] # None => fact'[i] = fact[i]
  /\ branched \subseteq branched'
  /\ \A l \in Library, i \in Entry :
       superseded_by[l][i] # None => superseded_by'[l][i] = superseded_by[l][i]
  /\ \A l \in Library, i \in Entry : Has(l, i) => Has(l, i)'

Rests(l) ==
  /\ status'[l] = status[l] /\ superseded_by'[l] = superseded_by[l]
  /\ contradicts'[l] = contradicts[l]

LEMMA SoundKept ==
  ASSUME BundleTypeOK, Kept, NEW b \in BundleFile, Sound(b)
  PROVE  Sound(b)'
  <1>1. \A i \in Entry : b.next[i] # None => Leads(i, b.next[i])'
    <2> SUFFICES ASSUME NEW i \in Entry, b.next[i] # None PROVE Leads(i, b.next[i])'
      OBVIOUS
    <2>1. PICK l \in Library : superseded_by[l][i] = b.next[i]
      BY DEF Sound, Leads
    <2>2. superseded_by'[l][i] = b.next[i]
      BY <2>1 DEF Kept
    <2>3. QED
      BY <2>2 DEF Leads
  <1>2. \A i \in b.entries : i \in Entry /\ fact[i] # None /\ fact'[i] = fact[i]
    BY DEF Sound, Kept
  <1>3. QED
    BY <1>1, <1>2 DEF Sound, Kept, BundleFile

(* Where a row is, its fact is known. *)
LEMMA RowsHaveFacts ==
  ASSUME BundleTypeOK, Lines, NEW l \in Library, NEW i \in Entry, Has(l, i)
  PROVE  fact[i] \in Entry /\ fact[fact[i]] = fact[i] /\ i <= written
  BY DEF Lines, BundleTypeOK

LEMMA TrunkKept ==
  ASSUME BundleTypeOK, Lines, Kept, NEW l \in Library, NEW k \in Entry, NEW S,
         Trunk(l, k, S), status[l][k] = "live",
         \A i \in S : status'[l][i] = "live",
         \A i \in S : i # k => superseded_by[l][i] # None,
         \A i \in S : superseded_by[l][i] # None => superseded_by'[l][i] = superseded_by[l][i]
  PROVE  Trunk(l, k, S)'
  <1>1. fact'[k] = fact[k]
    BY RowsHaveFacts, EntryBound DEF Kept, Has
  <1>2. None \notin Entry /\ S \subseteq Entry
    BY EntryBound DEF Trunk
  <1>3. \A j \in S : j # fact[k] => \E i \in S : superseded_by'[l][i] = j
    BY <1>2 DEF Trunk
  <1>4. QED
    BY <1>1, <1>2, <1>3 DEF Trunk

LEMMA TrunkLinks ==
  ASSUME NEW l, NEW k, NEW S, Trunk(l, k, S)
  PROVE  \A i \in S : i # k => superseded_by[l][i] # None
  BY EntryBound DEF Trunk

LEMMA CompanyKept ==
  ASSUME MInv, Kept, NEW l \in Library, l \notin torn, NEW k \in Entry,
         Has(l, k), fact'[k] # k, fact'[k] \notin branched'
  PROVE  Contested(l, k)'
  <1>1. BundleTypeOK /\ Lines /\ Merged(l)
    BY DEF MInv
  <1>2. \A i \in Entry : Has(l, i) => fact[i] # None /\ fact'[i] = fact[i]
    BY <1>1, RowsHaveFacts, EntryBound DEF Kept
  <1>3. PICK j \in Entry \ {k} : Has(l, j) /\ fact[j] = fact[k]
    BY <1>1, <1>2 DEF Merged, Contested, Kept
  <1>4. QED
    BY <1>2, <1>3 DEF Contested, Kept

(* An import whose record a step leaves alone. *)
LEMMA PassKept ==
  ASSUME MInv, Kept, NEW l \in Library,
         importing'[l] = importing[l], l \notin torn' => l \notin torn,
         \A e \in contradicts[l] : \E d \in contradicts'[l] : fact'[d[1]] = fact[e[1]]
  PROVE  Pass(l)'
  <1> DEFINE c == importing[l]
  <1>1. /\ BundleTypeOK /\ Lines /\ Pass(l)
        /\ c \in Call /\ c.bundle \in BundleFile
    BY DEF MInv, BundleTypeOK, Call
  <1>2. Sound(c.bundle)'
    BY <1>1, SoundKept DEF Pass
  <1>3. \A i \in Entry :
          c.bundle.next[i] # None /\ Accounted(l, c, i) => Accounted(l, c, i)'
    <2> SUFFICES ASSUME NEW i \in Entry, c.bundle.next[i] # None, Accounted(l, c, i)
                 PROVE  Accounted(l, c, i)'
      OBVIOUS
    <2>1. fact[i] # None /\ fact'[i] = fact[i]
      BY <1>1 DEF Pass, Sound, Kept
    <2>2. CASE superseded_by[l][i] = c.bundle.next[i]
      BY <2>2 DEF Accounted, Kept
    <2>3. CASE \E e \in contradicts[l] : fact[e[1]] = fact[i]
      BY <2>1, <2>3 DEF Accounted
    <2>4. QED
      BY <2>2, <2>3 DEF Accounted
  <1>4. c.bundle.entries \subseteq Entry
    BY <1>1 DEF BundleFile
  <1>5. c.at = "dispute" =>
          c.head \in Entry /\ End(c.bundle.next, c.bundle.next[Least(c.todo)]) \in Entry
    <2> SUFFICES ASSUME c.at = "dispute"
                 PROVE  /\ c.head \in Entry
                        /\ End(c.bundle.next, c.bundle.next[Least(c.todo)]) \in Entry
      OBVIOUS
    <2>1. c.head \in Entry /\ c.todo # {} /\ c.todo \subseteq Entry
          /\ c.bundle.next[Least(c.todo)] # None
      BY <1>1, <1>4 DEF Pass, Call, Forks
    <2>2. Least(c.todo) \in Entry
      BY <2>1, LeastIsThere
    <2>3. c.bundle.next \in [Entry -> Entry \cup {None}] /\ c.bundle.next[Least(c.todo)] \in Entry
      BY <1>1, <2>1, <2>2 DEF BundleFile
    <2>4. End(c.bundle.next, c.bundle.next[Least(c.todo)]) \in Entry
      BY <2>3, EndStays
    <2>5. QED
      BY <2>1, <2>4
  <1>6. QED
    BY <1>1, <1>2, <1>3, <1>4, <1>5 DEF Pass, Kept

(* A version that circulated and still does keeps its line, if what was live
   is, and if what it is tied by points where it did. *)
LEMMA LineKept ==
  ASSUME MInv, Kept, NEW l \in Library, l \notin torn, NEW k \in Entry,
         fact[k] \notin branched, Circulates(l, k), Circulates(l, k)',
         \A i \in Entry : status[l][i] = "live" => status'[l][i] = "live",
         importing'[l] = importing[l],
         \A i \in Entry : superseded_by'[l][i] = k => superseded_by[l][i] = k
  PROVE  Trunked(l, k)' \/ Due(l, k)'
  <1>1. BundleTypeOK /\ Lines /\ (Trunked(l, k) \/ Due(l, k))
    BY DEF MInv, Merged
  <1>2. CASE Trunked(l, k)
    <2>1. PICK S \in SUBSET Entry : Trunk(l, k, S)
      BY <1>2 DEF Trunked
    <2>2. \A i \in S : status[l][i] = "live"
      BY <2>1 DEF Trunk
    <2>3. Trunk(l, k, S)'
      <3> \A i \in S : superseded_by[l][i] # None =>
             superseded_by'[l][i] = superseded_by[l][i]
        BY DEF Kept
      <3> QED
        BY <1>1, <2>1, <2>2, TrunkKept, TrunkLinks DEF Circulates
    <2>4. QED
      BY <2>3 DEF Trunked
  <1>3. CASE Due(l, k)
    <2>1. Unreached(importing[l]) \subseteq Entry
      BY <1>1 DEF BundleTypeOK, Call, Unreached
    <2>2. QED
      BY <1>3, <2>1 DEF Due
  <1>4. QED
    BY <1>1, <1>2, <1>3

LEMMA OtherStays ==
  ASSUME MInv, Kept, NEW l \in Library, Rests(l), importing'[l] = importing[l],
         l \in torn' <=> l \in torn
  PROVE  Pass(l)' /\ Merged(l)'
  <1>1. BundleTypeOK /\ Lines
    BY DEF MInv
  <1>2. \A i \in Entry : Has(l, i) => fact[i] # None /\ fact'[i] = fact[i]
    BY <1>1, RowsHaveFacts, EntryBound DEF Kept
  <1>3. Pass(l)'
    <2>1. \A e \in contradicts[l] : fact'[e[1]] = fact[e[1]]
      BY <1>1, <1>2 DEF BundleTypeOK
    <2>2. QED
      BY <2>1, PassKept DEF Rests
  <1>4. Merged(l)'
    <2> SUFFICES ASSUME l \notin torn, NEW k \in Entry, fact'[k] \notin branched'
                 PROVE  /\ Circulates(l, k)' => Trunked(l, k)' \/ Due(l, k)'
                        /\ Has(l, k)' /\ k # fact'[k] => Contested(l, k)'
      BY DEF Merged
    <2>1. Has(l, k)' <=> Has(l, k)
      BY DEF Rests, Has
    <2>2. Circulates(l, k)' => Circulates(l, k) /\ Has(l, k)
      BY DEF Circulates, Rests, Has
    <2>3. Has(l, k) => fact[k] \notin branched
      BY <1>2 DEF Kept
    <2>4. Circulates(l, k)' => Trunked(l, k)' \/ Due(l, k)'
      BY <2>2, <2>3, LineKept DEF Rests
    <2>5. QED
      BY <2>1, <2>4, CompanyKept
  <1>5. QED
    BY <1>3, <1>4

(* So a step of one library keeps the invariant if it does so there. *)
Alone(l) ==
  \A m \in Library \ {l} :
    Rests(m) /\ importing'[m] = importing[m] /\ (m \in torn' <=> m \in torn)

LEMMA StepKeeps ==
  ASSUME MInv, Kept, NEW l \in Library, Alone(l), BundleTypeOK', Lines',
         \A b \in files' : Sound(b)', Pass(l)', Merged(l)'
  PROVE  MInv'
  <1>1. \A m \in Library \ {l} : Pass(m)' /\ Merged(m)'
    BY OtherStays DEF Alone
  <1>2. QED
    BY <1>1 DEF MInv

LEMMA TypesKept ==
  ASSUME BundleTypeOK, written' \in 0..MaxEntries,
         fact' \in [Entry -> Entry \cup {None}],
         status' \in [Library -> [Entry -> {"absent", "live", "pending", "rejected"}]],
         \A m \in Library, i \in Entry : Has(m, i) => Has(m, i)',
         UNCHANGED <<superseded_by, contradicts, files, imports, importing, torn, branched>>
  PROVE  BundleTypeOK'
  <1>1. \A m \in Library, i \in Entry :
          superseded_by[m][i] # None => superseded_by[m][i] \in Entry
    BY DEF BundleTypeOK
  <1>2. \A m \in Library : \A e \in contradicts[m] : e[1] \in Entry /\ e[2] \in Entry
    BY DEF BundleTypeOK
  <1>3. QED
    BY <1>1, <1>2 DEF BundleTypeOK

LEMMA FilesKept ==
  ASSUME MInv, Kept, files' = files
  PROVE  \A b \in files' : Sound(b)'
  BY SoundKept DEF MInv, BundleTypeOK

-----------------------------------------------------------------------------
(* Sessions and the desk. *)
LEMMA RememberMerges ==
  ASSUME MInv, NEW l \in Library, Remember(l) PROVE MInv'
  <1> DEFINE new == written + 1
  <1>1. /\ BundleTypeOK /\ Lines /\ new \in Entry /\ Merged(l)
        /\ fact' = [fact EXCEPT ![new] = new] /\ written' = new
        /\ status' = [status EXCEPT ![l][new] = "live"]
        /\ UNCHANGED <<superseded_by, contradicts, exchanged, importing, torn, branched>>
    BY DEF Remember, MInv
  <1>2. new \notin 1..written /\ written \in Nat /\ None \notin Entry /\ Entry \subseteq Nat
    BY <1>1, EntryBound DEF BundleTypeOK
  <1>3. /\ fact[new] = None /\ fact'[new] = new
        /\ \A m \in Library : ~Has(m, new)
        /\ \A i \in Entry : i # new => fact'[i] = fact[i]
        /\ \A i \in Entry : fact[i] # new
    <2>1. \A i \in Entry : fact[i] # None => fact[i] <= i /\ i <= written
      BY <1>1 DEF Lines
    <2>2. QED
      BY <1>1, <1>2, <2>1 DEF Lines, BundleTypeOK
  <1>4. /\ \A i \in Entry : Has(l, i)' <=> Has(l, i) \/ i = new
        /\ \A m \in Library \ {l}, i \in Entry : Has(m, i)' <=> Has(m, i)
    BY <1>1 DEF Has, BundleTypeOK
  <1>5. Kept
    BY <1>1, <1>3, <1>4 DEF Kept
  <1>6. BundleTypeOK'
    <2>1. /\ written' \in 0..MaxEntries /\ fact' \in [Entry -> Entry \cup {None}]
          /\ status' \in [Library -> [Entry -> {"absent", "live", "pending", "rejected"}]]
      BY <1>1, <1>2, EntryBound DEF BundleTypeOK, Entry
    <2>2. \A m \in Library, i \in Entry : Has(m, i) => Has(m, i)'
      BY <1>4
    <2>3. QED
      BY <1>1, <2>1, <2>2, TypesKept DEF exchanged
  <1>7. Lines'
    <2>1. \A i \in Entry : fact'[i] # None <=> i <= new
      BY <1>1, <1>2, <1>3 DEF Lines
    <2>2. \A i \in Entry : i <= new => fact'[i] <= i /\ fact'[fact'[i]] = fact'[i]
      <3> SUFFICES ASSUME NEW i \in Entry, i <= new
                   PROVE  fact'[i] <= i /\ fact'[fact'[i]] = fact'[i]
        OBVIOUS
      <3>1. CASE i = new
        BY <1>2, <1>3, <3>1
      <3>2. CASE i # new
        <4>1. i <= written
          BY <1>2, <3>2
        <4>2. fact[i] \in Entry /\ fact[i] # new /\ fact'[i] = fact[i]
          BY <1>1, <1>3, <3>2, <4>1 DEF Lines, BundleTypeOK
        <4>3. QED
          BY <1>1, <1>3, <4>1, <4>2 DEF Lines
      <3>3. QED
        BY <3>1, <3>2
    <2>3. \A m \in Library, i \in Entry : Has(m, i)' => i <= new
      BY <1>1, <1>2, <1>4 DEF Lines
    <2>4. \A m \in Library, i \in Entry :
            superseded_by[m][i] # None =>
              i < superseded_by[m][i] /\ fact'[superseded_by[m][i]] = fact'[i]
      <3> SUFFICES ASSUME NEW m \in Library, NEW i \in Entry, superseded_by[m][i] # None
                   PROVE  i < superseded_by[m][i] /\ fact'[superseded_by[m][i]] = fact'[i]
        OBVIOUS
      <3>1. superseded_by[m][i] \in Entry /\ Has(m, i) /\ Has(m, superseded_by[m][i])
        BY <1>1 DEF BundleTypeOK
      <3>2. i # new /\ superseded_by[m][i] # new
        BY <1>3, <3>1
      <3>3. QED
        BY <1>1, <1>3, <3>1, <3>2 DEF Lines
    <2>5. \A i, p, j \in Entry : Leads(i, j)' /\ Leads(p, j)' => i = p
      BY <1>1 DEF Lines, Leads
    <2>6. QED
      BY <1>1, <2>1, <2>2, <2>3, <2>4, <2>5 DEF Lines
  <1>8. Alone(l)
    BY <1>1 DEF Alone, Rests, BundleTypeOK
  <1>9. Pass(l)'
    <2>1. \A e \in contradicts[l] : fact'[e[1]] = fact[e[1]]
      BY <1>1, <1>3 DEF BundleTypeOK
    <2>2. QED
      BY <1>1, <1>5, <2>1, PassKept
  <1>10. Merged(l)'
    <2> SUFFICES ASSUME l \notin torn, NEW k \in Entry, fact'[k] \notin branched
                 PROVE  /\ Circulates(l, k)' => Trunked(l, k)' \/ Due(l, k)'
                        /\ Has(l, k)' /\ k # fact'[k] => Contested(l, k)'
      BY <1>1 DEF Merged
    <2>1. CASE k = new
      <3>1. Circulates(l, k)' => Trunk(l, k, {k})'
        BY <1>3, <2>1 DEF Trunk, Circulates
      <3>2. QED
        BY <1>3, <2>1, <3>1 DEF Trunked
    <2>2. CASE k # new
      <3>1. Circulates(l, k)' => Circulates(l, k)
        BY <1>1, <2>2 DEF Circulates, BundleTypeOK
      <3>2. \A i \in Entry : status[l][i] = "live" => status'[l][i] = "live"
        BY <1>1 DEF BundleTypeOK
      <3>3. QED
        BY <1>1, <1>3, <1>4, <1>5, <2>2, <3>1, <3>2, LineKept, CompanyKept
    <2>3. QED
      BY <2>1, <2>2
  <1>11. QED
    BY <1>1, <1>5, <1>6, <1>7, <1>8, <1>9, <1>10, FilesKept, StepKeeps DEF exchanged

LEMMA JudgeMerges ==
  ASSUME MInv, NEW l \in Library, NEW i \in Entry, NEW to \in {"live", "rejected"},
         Judge(l, i, to)
  PROVE  MInv'
  <1>1. /\ BundleTypeOK /\ Lines /\ Merged(l) /\ status[l][i] = "pending"
        /\ status' = [status EXCEPT ![l][i] = to]
        /\ branched' = (IF to = "live" /\ Contested(l, i) THEN branched \cup {fact[i]} ELSE branched)
        /\ UNCHANGED <<written_vars, superseded_by, contradicts, exchanged, importing, torn>>
    BY DEF Judge, Branches, MInv
  <1>2. \A m \in Library, j \in Entry : Has(m, j)' <=> Has(m, j)
    BY <1>1 DEF Has, BundleTypeOK
  <1>3. Kept
    BY <1>1, <1>2 DEF Kept, written_vars
  <1>4. fact[i] \in Entry /\ fact[fact[i]] = fact[i]
    BY <1>1, RowsHaveFacts DEF Has
  <1>5. BundleTypeOK'
    BY <1>1, <1>2, <1>4 DEF BundleTypeOK, exchanged, written_vars
  <1>6. Lines'
    BY <1>1, <1>2 DEF Lines, Leads, written_vars
  <1>7. Alone(l)
    BY <1>1 DEF Alone, Rests, BundleTypeOK
  <1>8. Pass(l)'
    BY <1>1, <1>3, PassKept DEF written_vars
  <1>9. Merged(l)'
    <2> SUFFICES ASSUME l \notin torn, NEW k \in Entry, fact[k] \notin branched'
                 PROVE  /\ Circulates(l, k)' => Trunked(l, k)' \/ Due(l, k)'
                        /\ Has(l, k) /\ k # fact[k] => Contested(l, k)'
      BY <1>1, <1>2 DEF Merged, written_vars
    <2>1. ASSUME Circulates(l, k)' PROVE Trunked(l, k)' \/ Due(l, k)'
      <3>1. CASE k = i
        <4>1. to = "live" /\ ~Contested(l, i)
          BY <1>1, <2>1, <3>1 DEF Circulates, BundleTypeOK
        <4>2. fact[i] = i
          BY <1>1, <1>3, <3>1, <4>1 DEF Merged, Has, Kept
        <4>3. Trunk(l, k, {k})'
          BY <1>1, <2>1, <3>1, <4>2 DEF Trunk, Circulates, written_vars
        <4>4. QED
          BY <4>3 DEF Trunked
      <3>2. CASE k # i
        <4>1. Circulates(l, k) /\ fact[k] \notin branched
          BY <1>1, <2>1, <3>2 DEF Circulates, BundleTypeOK
        <4>2. \A j \in Entry : status[l][j] = "live" => status'[l][j] = "live"
          BY <1>1 DEF BundleTypeOK
        <4>3. QED
          BY <1>1, <1>3, <2>1, <4>1, <4>2, LineKept
      <3>3. QED
        BY <3>1, <3>2
    <2>2. QED
      BY <1>1, <1>3, <2>1, CompanyKept DEF written_vars
  <1>10. QED
    BY <1>1, <1>3, <1>5, <1>6, <1>7, <1>8, <1>9, FilesKept, StepKeeps DEF exchanged

LEMMA ReviseMerges ==
  ASSUME MInv, NEW l \in Library, NEW i \in Entry, Revise(l, i) PROVE MInv'
  <1>0. PICK new \in Entry : new = written + 1
    BY DEF Revise
  <1> DEFINE moved(j) == IF j = i THEN new ELSE j
  <1>1. PICK to \in {"live", "pending"} :
          /\ status[l][i] = "pending" => to = "pending"
          /\ status' = [status EXCEPT ![l][new] = to]
    BY <1>0 DEF Revise
  <1>2. /\ BundleTypeOK /\ Lines /\ Pass(l) /\ Merged(l)
        /\ Has(l, i) /\ superseded_by[l][i] = None
        /\ fact' = [fact EXCEPT ![new] = fact[i]] /\ written' = new
        /\ superseded_by' = [superseded_by EXCEPT ![l][i] = new]
        /\ contradicts' = [contradicts EXCEPT ![l] =
                             {<<moved(e[1]), moved(e[2])>> : e \in contradicts[l]}]
        /\ branched' = (IF status[l][i] = "rejected" \/ (status[l][i] = "live" /\ Untied(l, i))
                        THEN branched \cup {fact[i]} ELSE branched)
        /\ UNCHANGED <<exchanged, importing, torn>>
    BY <1>0 DEF Revise, Branches, MInv
  <1>3. /\ new \notin 1..written /\ written \in Nat /\ None \notin Entry /\ Entry \subseteq Nat
        /\ \A j \in Entry : j <= new <=> j <= written \/ j = new
    BY <1>0, <1>2, EntryBound DEF BundleTypeOK
  <1>4. fact[i] \in Entry /\ fact[fact[i]] = fact[i] /\ i <= written /\ fact[i] <= i
    BY <1>2, RowsHaveFacts DEF Lines
  <1>5. /\ fact[new] = None /\ fact'[new] = fact[i] /\ i # new
        /\ \A m \in Library : ~Has(m, new)
        /\ \A j \in Entry : j # new => fact'[j] = fact[j]
        /\ \A j \in Entry : fact[j] # new
    <2>1. \A j \in Entry : fact[j] # None => fact[j] <= j /\ j <= written
      BY <1>2 DEF Lines
    <2>2. QED
      BY <1>0, <1>2, <1>3, <1>4, <2>1 DEF Lines, BundleTypeOK
  <1>6. /\ \A j \in Entry : Has(l, j)' <=> Has(l, j) \/ j = new
        /\ \A m \in Library \ {l}, j \in Entry : Has(m, j)' <=> Has(m, j)
    BY <1>1, <1>2 DEF Has, BundleTypeOK
  <1>7. /\ superseded_by'[l][i] = new
        /\ \A j \in Entry : j # i => superseded_by'[l][j] = superseded_by[l][j]
        /\ \A m \in Library \ {l} : superseded_by'[m] = superseded_by[m]
    BY <1>2 DEF BundleTypeOK
  <1>8. Kept
    BY <1>2, <1>5, <1>6, <1>7 DEF Kept
  <1>9. BundleTypeOK'
    <2>1. /\ written' \in 0..MaxEntries /\ fact' \in [Entry -> Entry \cup {None}]
          /\ status' \in [Library -> [Entry -> {"absent", "live", "pending", "rejected"}]]
          /\ superseded_by' \in [Library -> [Entry -> Entry \cup {None}]]
      BY <1>0, <1>1, <1>2, <1>3, <1>4, EntryBound DEF BundleTypeOK, Entry
    <2>2. ASSUME NEW m \in Library, NEW j \in Entry, NEW x \in Entry,
                 superseded_by'[m][j] = x
          PROVE  Has(m, j)' /\ Has(m, x)'
      <3>1. \A y \in Entry : Has(m, y) => Has(m, y)'
        BY <1>6
      <3>2. CASE m = l /\ j = i
        BY <1>2, <1>6, <1>7, <2>2, <3>1, <3>2
      <3>3. CASE ~(m = l /\ j = i)
        <4>1. superseded_by[m][j] = x
          BY <1>7, <2>2, <3>3
        <4>2. Has(m, j) /\ Has(m, x)
          BY <1>2, <1>3, <4>1 DEF BundleTypeOK
        <4>3. QED
          BY <3>1, <4>2
      <3>4. QED
        BY <3>2, <3>3
    <2>3. ASSUME NEW e \in contradicts[l]
          PROVE  /\ <<moved(e[1]), moved(e[2])>> \in Entry \X Entry
                 /\ Has(l, moved(e[1]))' /\ Has(l, moved(e[2]))'
      <3>1. e[1] \in Entry /\ e[2] \in Entry /\ Has(l, e[1]) /\ Has(l, e[2])
        BY <1>2 DEF BundleTypeOK
      <3>2. moved(e[1]) \in Entry /\ moved(e[2]) \in Entry
        BY <1>2, <3>1
      <3>3. Has(l, moved(e[1]))' /\ Has(l, moved(e[2]))'
        BY <1>6, <3>1
      <3>4. QED
        BY <3>2, <3>3
    <2>4. /\ contradicts' \in [Library -> SUBSET (Entry \X Entry)]
          /\ \A m \in Library : \A e \in contradicts'[m] : Has(m, e[1])' /\ Has(m, e[2])'
      <3>1. contradicts'[l] = {<<moved(e[1]), moved(e[2])>> : e \in contradicts[l]}
            /\ \A m \in Library \ {l} : contradicts'[m] = contradicts[m]
        BY <1>2 DEF BundleTypeOK
      <3>2. contradicts'[l] \in SUBSET (Entry \X Entry)
            /\ \A e \in contradicts'[l] : Has(l, e[1])' /\ Has(l, e[2])'
        <4>1. ASSUME NEW d \in contradicts'[l]
              PROVE  d \in Entry \X Entry /\ Has(l, d[1])' /\ Has(l, d[2])'
          <5>1. PICK e \in contradicts[l] : d = <<moved(e[1]), moved(e[2])>>
            BY <3>1, <4>1
          <5>2. d[1] = moved(e[1]) /\ d[2] = moved(e[2])
            BY <5>1
          <5> HIDE DEF moved
          <5>3. QED
            BY <2>3, <5>1, <5>2
        <4>2. QED
          BY <4>1
      <3>3. \A m \in Library \ {l} : contradicts'[m] \in SUBSET (Entry \X Entry)
            /\ \A e \in contradicts'[m] : Has(m, e[1])' /\ Has(m, e[2])'
        BY <1>2, <1>6, <3>1 DEF BundleTypeOK
      <3>4. contradicts' \in [Library -> SUBSET (Entry \X Entry)]
        <4>1. DOMAIN contradicts' = Library /\ contradicts' = [m \in Library |-> contradicts'[m]]
          BY <1>2 DEF BundleTypeOK
        <4>2. QED
          BY <3>2, <3>3, <4>1
      <3>5. QED
        BY <3>2, <3>3, <3>4
    <2>5. files' \subseteq BundleFile /\ imports' \in 0..MaxImports /\ importing' \in [Library -> Call]
          /\ torn' \subseteq Library /\ branched' \subseteq Entry
      BY <1>2, <1>4 DEF BundleTypeOK, exchanged
    <2>6. \A m \in Library, j \in Entry :
            (superseded_by[m][j] # None => Has(m, j) /\ Has(m, superseded_by[m][j]))'
      BY <2>1, <2>2
    <2>7. QED
      BY <2>1, <2>4, <2>5, <2>6 DEF BundleTypeOK, Has
  <1>10. Lines'
    <2>1. \A j \in Entry : fact'[j] # None <=> j <= new
      BY <1>2, <1>3, <1>4, <1>5 DEF Lines
    <2>2. ASSUME NEW j \in Entry, j <= new
          PROVE  fact'[j] <= j /\ fact'[fact'[j]] = fact'[j]
      <3>1. CASE j = new
        <4>1. fact[i] # new /\ fact'[fact[i]] = fact[fact[i]]
          BY <1>4, <1>5
        <4>2. fact[i] <= new
          <5>1. fact[i] \in Nat /\ i \in Nat /\ written \in Nat
            BY <1>3, <1>4
          <5>2. QED
            BY <1>0, <1>4, <5>1
        <4>3. QED
          BY <1>4, <1>5, <3>1, <4>1, <4>2
      <3>2. CASE j # new
        <4>1. j <= written
          BY <1>3, <2>2, <3>2
        <4>2. fact[j] \in Entry /\ fact[j] <= j /\ fact[fact[j]] = fact[j]
          BY <1>2, <4>1 DEF Lines, BundleTypeOK
        <4>3. fact[j] # new /\ fact'[j] = fact[j]
          BY <1>5, <3>2
        <4>4. fact'[fact[j]] = fact[fact[j]]
          BY <1>5, <4>2, <4>3
        <4>5. QED
          BY <4>2, <4>3, <4>4
      <3>3. QED
        BY <3>1, <3>2
    <2>3. \A m \in Library, j \in Entry : Has(m, j)' => j <= new
      BY <1>2, <1>3, <1>6 DEF Lines
    <2>4. ASSUME NEW m \in Library, NEW j \in Entry, superseded_by'[m][j] # None
          PROVE  j < superseded_by'[m][j] /\ fact'[superseded_by'[m][j]] = fact'[j]
      <3>1. CASE m = l /\ j = i
        BY <1>0, <1>2, <1>3, <1>4, <1>5, <1>7, <3>1 DEF BundleTypeOK
      <3>2. CASE ~(m = l /\ j = i)
        <4>1. superseded_by'[m][j] = superseded_by[m][j]
          BY <1>7, <3>2
        <4>2. superseded_by[m][j] \in Entry /\ Has(m, j) /\ Has(m, superseded_by[m][j])
          BY <1>2, <2>4, <4>1 DEF BundleTypeOK
        <4>3. j # new /\ superseded_by[m][j] # new
          BY <1>5, <4>2
        <4>4. QED
          <5>1. j < superseded_by[m][j] /\ fact[superseded_by[m][j]] = fact[j]
            BY <1>2, <2>4, <4>1 DEF Lines
          <5>2. QED
            BY <1>5, <4>1, <4>2, <4>3, <5>1
      <3>3. QED
        BY <3>1, <3>2
    <2>5. ASSUME NEW x \in Entry, NEW p \in Entry, NEW j \in Entry, Leads(x, j)', Leads(p, j)'
          PROVE  x = p
      <3>1. \A y \in Entry : ~Leads(y, new)
        BY <1>2, <1>3, <1>5 DEF Leads, BundleTypeOK
      <3>2. \A y \in Entry : Leads(y, j)' => Leads(y, j) \/ (y = i /\ j = new)
        BY <1>7 DEF Leads
      <3>3. QED
        BY <1>2, <2>5, <3>1, <3>2 DEF Lines
    <2>6. QED
      BY <1>2, <2>1, <2>2, <2>3, <2>4, <2>5 DEF Lines
  <1>11. Alone(l)
    BY <1>1, <1>2 DEF Alone, Rests, BundleTypeOK
  <1>12. Pass(l)'
    <2>1. ASSUME NEW e \in contradicts[l]
          PROVE  \E d \in contradicts'[l] : fact'[d[1]] = fact[e[1]]
      <3>1. e[1] \in Entry /\ e[1] # new
        BY <1>2, <1>5 DEF BundleTypeOK
      <3>2. <<moved(e[1]), moved(e[2])>> \in contradicts'[l]
        BY <1>2 DEF BundleTypeOK
      <3>3. fact'[moved(e[1])] = fact[e[1]]
        BY <1>5, <3>1
      <3>4. QED
        BY <3>2, <3>3
    <2>2. QED
      BY <1>2, <1>8, <2>1, PassKept
  <1>13. Merged(l)'
    <2> SUFFICES ASSUME l \notin torn, NEW k \in Entry, fact'[k] \notin branched'
                 PROVE  /\ Circulates(l, k)' => Trunked(l, k)' \/ Due(l, k)'
                        /\ Has(l, k)' /\ k # fact'[k] => Contested(l, k)'
      BY <1>2 DEF Merged
    <2>1. CASE k = new
      <3>1. Contested(l, k)'
        BY <1>2, <1>5, <1>6, <2>1 DEF Contested
      <3>2. ASSUME Circulates(l, k)' PROVE Trunked(l, k)'
        <4>1. to = "live" /\ status[l][i] = "live"
          BY <1>1, <1>2, <1>5, <2>1, <3>2 DEF Circulates, Has, BundleTypeOK
        <4>2. Circulates(l, i) /\ ~Untied(l, i) /\ fact[i] \notin branched
          BY <1>2, <1>5, <2>1, <4>1 DEF Circulates
        <4>3. Trunked(l, i)
          <5>1. CASE fact[i] = i
            <6>1. Trunk(l, i, {i})
              BY <4>1, <5>1 DEF Trunk
            <6>2. QED
              BY <6>1 DEF Trunked
          <5>2. CASE fact[i] # i
            <6>1. PICK p \in Entry : superseded_by[l][p] = i
              BY <4>2, <5>2 DEF Untied
            <6>2. ASSUME Due(l, i) PROVE FALSE
              <7>1. Unreached(importing[l]) \subseteq Entry /\ importing[l].bundle \in BundleFile
                BY <1>2 DEF BundleTypeOK, Call, Unreached
              <7>2. PICK q \in Entry : importing[l].bundle.next[q] = i /\ superseded_by[l][q] # i
                BY <6>2, <7>1 DEF Due
              <7>3. Leads(q, i)
                BY <1>2, <1>3, <7>2 DEF Pass, Sound
              <7>4. Leads(p, i)
                BY <6>1 DEF Leads
              <7>5. QED
                BY <1>2, <6>1, <7>2, <7>3, <7>4 DEF Lines
            <6>3. QED
              BY <1>2, <4>2, <6>2 DEF Merged
          <5>3. QED
            BY <5>1, <5>2
        <4>4. PICK S \in SUBSET Entry : Trunk(l, i, S)
          BY <4>3 DEF Trunked
        <4>5. Trunk(l, k, S \cup {new})'
          <5>1. new \notin S
            BY <1>5, <4>4 DEF Trunk, Has
          <5>2. \A x \in S : status'[l][x] = "live"
            BY <1>1, <1>2, <4>4, <5>1 DEF Trunk, BundleTypeOK
          <5>3. \A x \in S \cup {new} : x # new => superseded_by'[l][x] \in S \cup {new}
            BY <1>7, <4>4 DEF Trunk
          <5>4. \A j \in S \cup {new} : j # fact[i] => \E x \in S \cup {new} : superseded_by'[l][x] = j
            <6>1. i \in S
              BY <4>4 DEF Trunk
            <6>2. ASSUME NEW j \in S, j # fact[i] PROVE \E x \in S : superseded_by'[l][x] = j
              BY <1>2, <1>3, <1>7, <4>4, <6>2 DEF Trunk
            <6>3. QED
              BY <1>7, <6>1, <6>2
          <5>5. QED
            <6>1. S \cup {new} \subseteq {x \in Entry : status'[l][x] = "live"}
              BY <2>1, <3>2, <4>4, <5>2 DEF Trunk, Circulates
            <6>2. {k, fact'[k]} \subseteq S \cup {new}
              BY <1>5, <2>1, <4>4 DEF Trunk
            <6>3. QED
              BY <1>5, <2>1, <5>3, <5>4, <6>1, <6>2 DEF Trunk
        <4>6. S \cup {new} \in SUBSET Entry
          OBVIOUS
        <4>7. QED
          BY <4>5, <4>6 DEF Trunked
      <3>3. QED
        BY <3>1, <3>2
    <2>2. CASE k # new
      <3>1. Circulates(l, k)' => Circulates(l, k)
        BY <1>1, <1>2, <1>3, <1>7, <2>2 DEF Circulates, BundleTypeOK
      <3>2. \A j \in Entry : status[l][j] = "live" => status'[l][j] = "live"
        BY <1>1, <1>2, <1>5 DEF Has, BundleTypeOK
      <3>3. fact'[k] = fact[k] /\ fact[k] \notin branched
        BY <1>5, <1>8, <2>2 DEF Kept
      <3>4. \A j \in Entry : superseded_by'[l][j] = k => superseded_by[l][j] = k
        BY <1>7, <2>2
      <3>5. QED
        BY <1>2, <1>6, <1>8, <2>2, <3>1, <3>2, <3>3, <3>4, LineKept, CompanyKept
    <2>3. QED
      BY <2>1, <2>2
  <1>14. QED
    BY <1>2, <1>8, <1>9, <1>10, <1>11, <1>12, <1>13, FilesKept, StepKeeps DEF exchanged

-----------------------------------------------------------------------------
(* Bundle files. *)

(* A library that keeps its rows keeps its lines, if no pointer an import has
   yet to reach is forgotten. *)
LEMMA MergedStill ==
  ASSUME MInv, NEW l \in Library,
         UNCHANGED <<written_vars, status, superseded_by, branched>>,
         l \notin torn' => l \notin torn,
         \A k \in Entry : Due(l, k) => Due(l, k)'
  PROVE  Merged(l)'
  <1>1. Merged(l)
    BY DEF MInv
  <1>2. fact' = fact /\ status' = status /\ superseded_by' = superseded_by /\ branched' = branched
    BY DEF written_vars
  <1>3. \A k \in Entry : /\ Trunked(l, k) => Trunked(l, k)'
                         /\ Contested(l, k) => Contested(l, k)'
                         /\ Circulates(l, k)' => Circulates(l, k)
                         /\ Has(l, k)' => Has(l, k)
    BY <1>2 DEF Trunked, Trunk, Contested, Circulates, Has
  <1>4. QED
    BY <1>1, <1>2, <1>3 DEF Merged

LEMMA CallMerges ==
  ASSUME MInv, NEW l \in Library, NEW call \in Call, Goes(l, call),
         UNCHANGED <<written_vars, rows, files, branched>>, imports' \in 0..MaxImports,
         torn' = torn \/ torn' = torn \cup {l}, Pass(l)', Merged(l)'
  PROVE  MInv'
  <1>1. BundleTypeOK /\ Lines
    BY DEF MInv
  <1>2. Kept
    BY DEF Kept, written_vars, rows, Has
  <1>3. BundleTypeOK'
    <2>1. importing' \in [Library -> Call] /\ torn' \subseteq Library
      BY <1>1 DEF BundleTypeOK, Goes
    <2>2. QED
      BY <1>1, <2>1 DEF BundleTypeOK, written_vars, rows, Has
  <1>4. Lines'
    BY <1>1 DEF Lines, Leads, written_vars, rows, Has
  <1>5. Alone(l)
    BY <1>1 DEF Alone, Rests, BundleTypeOK, Goes, rows
  <1>6. QED
    BY <1>2, <1>3, <1>4, <1>5, FilesKept, StepKeeps

LEMMA IdleIsCall == Idle \in Call /\ Blank \in BundleFile
  BY DEF Idle, Blank, Call, BundleFile

LEMMA IdleIsSound == Sound(Idle.bundle)
  BY EntryBound DEF Idle, Blank, Sound

LEMMA IdleIsSoundNext == (Sound(Idle.bundle))'
  <1>1. Sound(Idle.bundle)
    BY IdleIsSound
  <1>2. QED
    BY <1>1, PTL

LEMMA IdlePasses ==
  ASSUME NEW l, importing[l] = Idle PROVE Pass(l)
  <1>1. Sound(Idle.bundle) /\ Idle.bundle.whole
    BY IdleIsSound DEF Idle, Blank
  <1>2. QED
    BY <1>1 DEF Pass, Idle, Blank

LEMMA StopMerges ==
  ASSUME MInv, NEW l \in Library, Fails(l),
         UNCHANGED <<written_vars, rows, exchanged, branched>>
  PROVE  MInv'
  <1>1. Goes(l, Idle) /\ torn' = torn \cup {l} /\ BundleTypeOK
    BY DEF Fails, MInv
  <1>2. importing'[l] = Idle
    BY <1>1 DEF Goes, BundleTypeOK
  <1>3. Pass(l)'
    <2>1. Sound(Idle.bundle)' /\ Idle.bundle.whole
      BY IdleIsSoundNext DEF Idle, Blank
    <2>2. QED
      BY <1>2, <2>1 DEF Pass, Idle, Blank
  <1>4. Merged(l)'
    BY <1>1 DEF Merged
  <1>5. QED
    BY <1>1, <1>3, <1>4, IdleIsCall, CallMerges DEF BundleTypeOK, exchanged

LEMMA ExportSound ==
  ASSUME MInv, NEW l \in Library
  PROVE  Export(l) \in BundleFile /\ Sound(Export(l))
  <1> DEFINE b == Export(l)
             entries == {i \in Entry : Travels(l, i)}
  <1>1. BundleTypeOK /\ Lines /\ Merged(l) /\ None \notin Entry
    BY EntryBound DEF MInv
  <1>2. /\ b.entries = entries
        /\ b.next = [i \in Entry |-> IF i \in entries THEN superseded_by[l][i] ELSE None]
        /\ b.edges = {e \in contradicts[l] : e[1] \in entries /\ e[2] \in entries}
        /\ b.whole = (l \notin torn /\ importing[l] = Idle)
    BY DEF Export
  <1>3. b \in BundleFile
    BY <1>1 DEF BundleFile, Export, BundleTypeOK
  <1> HIDE DEF b
  <1>4. \A i \in entries : status[l][i] = "live" /\ Has(l, i) /\ fact[i] # None
    BY <1>1, RowsHaveFacts DEF Travels, Has
  <1>5. \A i \in Entry : b.next[i] # None => i \in b.entries /\ Leads(i, b.next[i])
    BY <1>2 DEF Leads
  <1>6. b.edges \subseteq b.entries \X b.entries
    BY <1>1, <1>2 DEF BundleTypeOK
  <1>7. ASSUME NEW k \in b.entries, b.whole, fact[k] \notin branched,
               b.next[k] = None, k # fact[k]
        PROVE  \E p \in b.entries : b.next[p] = k
    <2>1. k \in Entry /\ Circulates(l, k) /\ l \notin torn /\ importing[l] = Idle
      BY <1>2, <1>4, <1>7 DEF Circulates
    <2>2. ~Due(l, k)
      BY <2>1 DEF Due, Idle, Blank
    <2>3. PICK S \in SUBSET Entry : Trunk(l, k, S)
      BY <1>1, <1>7, <2>1, <2>2 DEF Merged, Trunked
    <2>4. PICK p \in S : superseded_by[l][p] = k
      BY <1>7, <2>3 DEF Trunk
    <2>5. p \in entries
      BY <2>3, <2>4 DEF Trunk, Travels
    <2>6. QED
      BY <1>2, <2>4, <2>5
  <1>8. b.entries \subseteq {i \in Entry : fact[i] # None}
    BY <1>2, <1>4
  <1>9. Sound(b)
    BY <1>5, <1>6, <1>7, <1>8 DEF Sound
  <1>10. QED
    BY <1>3, <1>9 DEF b

LEMMA WriteFileMerges ==
  ASSUME MInv, NEW l \in Library, WriteFile(l) PROVE MInv'
  <1>1. /\ BundleTypeOK /\ Lines /\ files' = files \cup {Export(l)}
        /\ UNCHANGED <<written_vars, rows, imports, importing, torn, branched>>
    BY DEF WriteFile, MInv
  <1>2. Kept
    BY <1>1 DEF Kept, written_vars, rows, Has
  <1>3. BundleTypeOK'
    BY <1>1, ExportSound DEF BundleTypeOK, written_vars, rows, Has
  <1>4. Lines'
    BY <1>1 DEF Lines, Leads, written_vars, rows, Has
  <1>5. \A b \in files' : Sound(b)'
    <2>1. \A b \in files' : Sound(b) /\ b \in BundleFile
      BY <1>1, ExportSound DEF MInv, BundleTypeOK
    <2>2. QED
      BY <1>1, <1>2, <2>1, SoundKept
  <1>6. \A m \in Library : Pass(m)' /\ Merged(m)'
    BY <1>1, <1>2, OtherStays DEF Rests, rows
  <1>7. QED
    BY <1>3, <1>4, <1>5, <1>6 DEF MInv

LEMMA ImportMerges ==
  ASSUME MInv, NEW l \in Library, NEW b \in files, NEW pending \in BOOLEAN,
         Import(l, b, pending)
  PROVE  MInv'
  <1> DEFINE call == [Idle EXCEPT !.at = "insert", !.bundle = b, !.pending = pending,
                                  !.todo = b.entries]
  <1>1. /\ BundleTypeOK /\ Sound(b) /\ b \in BundleFile
        /\ importing[l] = Idle /\ imports < MaxImports /\ imports' = imports + 1
        /\ Goes(l, call)
        /\ torn' = (IF b.whole THEN torn ELSE torn \cup {l})
        /\ UNCHANGED <<written_vars, rows, files, branched>>
    BY DEF Import, MInv, BundleTypeOK, Goes
  <1>2. Kept
    BY <1>1 DEF Kept, written_vars, rows, Has
  <1>3. /\ call \in Call /\ call.at = "insert" /\ call.bundle = b /\ call.todo = b.entries
        /\ call.existed = {} /\ \A i \in Entry : call.next[i] = None
    BY <1>1, IdleIsCall DEF Call, Idle, BundleFile
  <1> HIDE DEF call
  <1>4. importing'[l] = call
    BY <1>1 DEF Goes, BundleTypeOK
  <1>5. Sound(b)'
    BY <1>1, <1>2, SoundKept
  <1>6. Pass(l)'
    BY <1>1, <1>3, <1>4, <1>5 DEF Pass
  <1>7. \A k \in Entry : ~Due(l, k)
    BY <1>1 DEF Due, Idle, Blank
  <1>8. Merged(l)'
    BY <1>1, <1>7, MergedStill DEF rows
  <1>9. imports' \in 0..MaxImports
    BY <1>1, BundleAssumption DEF BundleTypeOK
  <1>10. QED
    BY <1>1, <1>3, <1>6, <1>8, <1>9, CallMerges

-----------------------------------------------------------------------------
(* Pass 1. *)

LEMMA InsertedMerges ==
  ASSUME MInv, NEW l \in Library, Inserted(l) PROVE MInv'
  <1>0. PICK c \in Call : c = importing[l]
    BY DEF MInv, BundleTypeOK
  <1> DEFINE call == [c EXCEPT !.at = "pointers", !.todo = c.existed, !.existed = {}]
  <1>1. /\ BundleTypeOK /\ Pass(l) /\ c \in Call /\ c.at = "insert" /\ c.todo = {}
        /\ Goes(l, call)
        /\ UNCHANGED <<written_vars, rows, exchanged, torn, branched>>
    BY <1>0 DEF Inserted, MInv, BundleTypeOK
  <1>2. /\ call \in Call /\ call.at = "pointers" /\ call.bundle = c.bundle
        /\ call.todo = c.existed /\ call.existed = {} /\ call.next = c.next
    BY <1>1 DEF Call
  <1> HIDE DEF call
  <1>3. importing'[l] = call
    BY <1>1 DEF Goes, BundleTypeOK
  <1>4. Kept
    BY <1>1 DEF Kept, written_vars, rows, Has
  <1>5. Sound(c.bundle)'
    BY <1>0, <1>1, <1>4, SoundKept DEF Pass, Call
  <1>6. Pass(l)'
    <2>1. /\ Sound(call.bundle)' /\ (l \notin torn' => call.bundle.whole)
          /\ call.todo \subseteq call.bundle.entries
          /\ \A i \in Entry : call.next[i] # None => superseded_by'[l][i] = call.next[i]
          /\ \A i \in call.bundle.entries : Has(l, i)'
      BY <1>0, <1>1, <1>2, <1>5 DEF Pass, rows, Has
    <2>2. \A i \in call.bundle.entries :
            call.bundle.next[i] # None =>
              i \in call.todo \/ superseded_by'[l][i] = call.bundle.next[i]
      BY <1>0, <1>1, <1>2 DEF Pass, rows
    <2>3. QED
      BY <1>2, <1>3, <2>1, <2>2 DEF Pass
  <1>7. \A k \in Entry : Due(l, k) => Due(l, k)'
    BY <1>0, <1>1, <1>2, <1>3 DEF Due, Unreached, rows
  <1>8. Merged(l)'
    BY <1>1, <1>7, MergedStill DEF rows
  <1>9. QED
    BY <1>1, <1>2, <1>6, <1>8, CallMerges DEF exchanged, BundleTypeOK

(* A pointer that some library has already, set in another. *)
LEMMA LinesLinked ==
  ASSUME BundleTypeOK, Lines, NEW l \in Library, NEW i \in Entry,
         NEW next \in Entry \cup {None}, next # None => Leads(i, next),
         superseded_by' = [superseded_by EXCEPT ![l][i] = next],
         fact' = fact, written' = written,
         \A m \in Library, j \in Entry : Has(m, j)' => j <= written
  PROVE  Lines'
  <1>1. ASSUME NEW x \in Entry, NEW y \in Entry, NEW m \in Library, superseded_by'[m][x] = y
        PROVE  Leads(x, y)
    <2>1. CASE m = l /\ x = i
      BY <1>1, <2>1, EntryBound DEF BundleTypeOK
    <2>2. CASE ~(m = l /\ x = i)
      BY <1>1, <2>2 DEF BundleTypeOK, Leads
    <2>3. QED
      BY <2>1, <2>2
  <1>2. ASSUME NEW x \in Entry, NEW y \in Entry, Leads(x, y)
        PROVE  x < y /\ fact[y] = fact[x]
    BY <1>2, EntryBound DEF Lines, Leads
  <1>3. superseded_by' \in [Library -> [Entry -> Entry \cup {None}]]
    BY DEF BundleTypeOK
  <1>4. ASSUME NEW m \in Library, NEW j \in Entry, superseded_by'[m][j] # None
        PROVE  j < superseded_by'[m][j] /\ fact[superseded_by'[m][j]] = fact[j]
    <2>1. PICK y \in Entry : y = superseded_by'[m][j]
      BY <1>3, <1>4
    <2>2. QED
      BY <1>1, <1>2, <2>1
  <1>5. \A x, p, j \in Entry : Leads(x, j)' /\ Leads(p, j)' => x = p
    BY <1>1 DEF Lines, Leads
  <1>6. QED
    BY <1>4, <1>5 DEF Lines

LEMMA KeysLinked ==
  ASSUME BundleTypeOK, NEW l \in Library, NEW i \in Entry, NEW next \in Entry \cup {None},
         superseded_by' = [superseded_by EXCEPT ![l][i] = next],
         Has(l, i)', next # None => Has(l, next)',
         \A m \in Library, j \in Entry : Has(m, j) => Has(m, j)'
  PROVE  \A m \in Library, j \in Entry :
           (superseded_by[m][j] # None => Has(m, j) /\ Has(m, superseded_by[m][j]))'
  <1>1. superseded_by' \in [Library -> [Entry -> Entry \cup {None}]]
    BY DEF BundleTypeOK
  <1>2. ASSUME NEW m \in Library, NEW j \in Entry, NEW x \in Entry, superseded_by'[m][j] = x
        PROVE  Has(m, j)' /\ Has(m, x)'
    <2>1. CASE m = l /\ j = i
      BY <1>2, <2>1, EntryBound DEF BundleTypeOK
    <2>2. CASE ~(m = l /\ j = i)
      <3>1. superseded_by[m][j] = x
        BY <1>2, <2>2 DEF BundleTypeOK
      <3>2. Has(m, j) /\ Has(m, x)
        BY <3>1, EntryBound DEF BundleTypeOK
      <3>3. QED
        BY <3>2
    <2>3. QED
      BY <2>1, <2>2
  <1>3. QED
    BY <1>1, <1>2

RowComes(l, i, next) ==
  /\ importing[l].at = "insert" /\ i \in importing[l].todo
  /\ \A j \in importing[l].todo : i <= j
  /\ next = importing[l].bundle.next[i] /\ ~Has(l, i) /\ Refers(l, next)
  /\ status' = [status EXCEPT ![l][i] = Arrives(importing[l], i)]
  /\ superseded_by' = [superseded_by EXCEPT ![l][i] = next]
  /\ Goes(l, [importing[l] EXCEPT !.todo = @ \ {i}])
  /\ UNCHANGED <<contradicts, torn, written_vars, exchanged, branched>>

LEMMA RowInsertedMerges ==
  ASSUME MInv, NEW l \in Library, NEW i \in Entry, NEW next, RowComes(l, i, next)
  PROVE  MInv'
  <1>0. PICK c \in Call : c = importing[l]
    BY DEF MInv, BundleTypeOK
  <1> DEFINE call == [c EXCEPT !.todo = c.todo \ {i}]
             b == c.bundle
  <1>1. /\ BundleTypeOK /\ Lines /\ Pass(l) /\ Merged(l) /\ c \in Call /\ b \in BundleFile
        /\ Sound(b) /\ None \notin Entry
        /\ next \in Entry \cup {None} /\ (next # None => Has(l, next) /\ Leads(i, next))
        /\ ~Has(l, i)
        /\ UNCHANGED <<contradicts, torn, written_vars, exchanged, branched>>
    BY <1>0, EntryBound
    DEF MInv, BundleTypeOK, Call, BundleFile, Pass, Sound, Refers, RowComes
  <1>17. /\ c.at = "insert" /\ i \in c.todo /\ \A j \in c.todo : i <= j
         /\ (l \notin torn => b.whole) /\ c.todo \subseteq b.entries
         /\ c.existed \subseteq b.entries \ c.todo
         /\ \A j \in Entry : c.next[j] # None => superseded_by[l][j] = c.next[j]
         /\ \A j \in b.entries : Has(l, j) \/ j \in c.todo
         /\ \A j \in b.entries : b.next[j] # None =>
              j \in c.todo \/ j \in c.existed \/ superseded_by[l][j] = b.next[j]
         /\ b.entries \subseteq Entry /\ next = b.next[i]
    BY <1>0, <1>1 DEF Pass, BundleFile, RowComes
  <1>2. /\ call \in Call /\ call.at = "insert" /\ call.bundle = b /\ call.next = c.next
        /\ call.todo = c.todo \ {i} /\ call.existed = c.existed
    <2>1. c.todo \ {i} \in SUBSET Entry
      BY <1>17
    <2>2. QED
      BY <1>1, <1>17, <2>1 DEF Call
  <1> HIDE DEF call
  <1>18. superseded_by' = [superseded_by EXCEPT ![l][i] = next]
    BY DEF RowComes
  <1>3. importing'[l] = call /\ importing' = [importing EXCEPT ![l] = call]
    BY <1>0, <1>1 DEF Goes, BundleTypeOK, RowComes, call
  <1>4. Arrives(c, i) \in {"live", "pending"}
    BY DEF Arrives
  <1>5. /\ status'[l][i] = Arrives(c, i) /\ superseded_by'[l][i] = next
        /\ superseded_by[l][i] = None
        /\ \A j \in Entry : j # i => /\ status'[l][j] = status[l][j]
                                     /\ superseded_by'[l][j] = superseded_by[l][j]
        /\ \A m \in Library \ {l} :
             status'[m] = status[m] /\ superseded_by'[m] = superseded_by[m]
    BY <1>0, <1>1 DEF BundleTypeOK, RowComes
  <1>6. /\ \A j \in Entry : Has(l, j)' <=> Has(l, j) \/ j = i
        /\ \A m \in Library \ {l}, j \in Entry : Has(m, j)' <=> Has(m, j)
    BY <1>4, <1>5 DEF Has
  <1>7. Kept
    BY <1>1, <1>5, <1>6 DEF Kept, written_vars
  <1>8. i \in b.entries /\ fact[i] # None /\ i <= written /\ fact' = fact /\ written' = written
    BY <1>1, <1>17 DEF Sound, Lines, written_vars
  <1>9. BundleTypeOK'
    <2>1. /\ status' \in [Library -> [Entry -> {"absent", "live", "pending", "rejected"}]]
          /\ superseded_by' \in [Library -> [Entry -> Entry \cup {None}]]
          /\ importing' \in [Library -> Call]
      <3>1. importing' \in [Library -> Call]
        BY <1>1, <1>2, <1>3 DEF BundleTypeOK
      <3>2. status' \in [Library -> [Entry -> {"absent", "live", "pending", "rejected"}]]
        BY <1>0, <1>1, <1>4 DEF BundleTypeOK, RowComes
      <3>3. superseded_by' \in [Library -> [Entry -> Entry \cup {None}]]
        BY <1>1 DEF BundleTypeOK, RowComes
      <3>4. QED
        BY <3>1, <3>2, <3>3
    <2>2. \A m \in Library, j \in Entry : Has(m, j) => Has(m, j)'
      BY <1>6
    <2>4. \A m \in Library, j \in Entry :
            (superseded_by[m][j] # None => Has(m, j) /\ Has(m, superseded_by[m][j]))'
      <3>1. Has(l, i)' /\ (next # None => Has(l, next)')
        BY <1>1, <1>6
      <3>2. QED
        BY <1>1, <1>18, <2>2, <3>1, KeysLinked
    <2>5. \A m \in Library : \A e \in contradicts'[m] : Has(m, e[1])' /\ Has(m, e[2])'
      BY <1>1, <2>2 DEF BundleTypeOK
    <2>6. QED
      BY <1>1, <2>1, <2>4, <2>5 DEF BundleTypeOK, Has, exchanged, written_vars
  <1>11. ASSUME NEW x \in Entry, NEW y \in Entry, Leads(x, y)
         PROVE  x < y /\ fact[y] = fact[x]
    BY <1>1, <1>11 DEF Lines, Leads
  <1>12. Lines'
    <2>1. \A m \in Library, j \in Entry : Has(m, j)' => j <= written
      BY <1>1, <1>6, <1>8 DEF Lines
    <2>2. QED
      BY <1>1, <1>8, <1>18, <2>1, LinesLinked
  <1>13. Alone(l)
    BY <1>1, <1>3, <1>5 DEF Alone, Rests, BundleTypeOK
  <1>14. Pass(l)'
    <2>1. Sound(b)'
      BY <1>1, <1>7, SoundKept
    <2>2. /\ call.todo \subseteq b.entries /\ call.existed \subseteq b.entries \ call.todo
          /\ (l \notin torn' => b.whole)
          /\ \A j \in Entry : call.next[j] # None => superseded_by'[l][j] = call.next[j]
BY <1>1, <1>2, <1>7, <1>17 DEF Kept
    <2>3. ASSUME NEW j \in b.entries
          PROVE  /\ Has(l, j)' \/ j \in call.todo
                 /\ b.next[j] # None =>
                      j \in call.todo \/ j \in call.existed \/ superseded_by'[l][j] = b.next[j]
      <3>1. j \in Entry
        BY <1>1 DEF BundleFile
      <3>2. CASE j = i
        BY <1>5, <1>6, <1>17, <3>2
      <3>3. CASE j # i
        BY <1>17, <1>2, <1>5, <1>6, <3>1, <3>3
      <3>4. QED
        BY <3>2, <3>3
    <2>4. QED
      BY <1>2, <1>3, <2>1, <2>2, <2>3 DEF Pass
  <1>15. Merged(l)'
    <2> SUFFICES ASSUME l \notin torn, NEW k \in Entry, fact[k] \notin branched
                 PROVE  /\ Circulates(l, k)' => Trunked(l, k)' \/ Due(l, k)'
                        /\ Has(l, k)' /\ k # fact[k] => Contested(l, k)'
      BY <1>1, <1>8 DEF Merged
    <2>1. b.whole
      BY <1>17
    <2>2. ASSUME k = i, k # fact[k], next = None
          PROVE  \E p \in c.existed : b.next[p] = i /\ superseded_by[l][p] # i /\ p # i
                                       /\ Has(l, p) /\ fact[p] = fact[i]
      <3>1. PICK p \in b.entries : b.next[p] = i
        BY <1>1, <1>8, <1>17, <2>1, <2>2 DEF Sound
      <3>2. p \in Entry /\ Leads(p, i)
        BY <1>1, <3>1 DEF Sound, BundleFile
      <3>3. p < i /\ fact[p] = fact[i]
        BY <1>11, <3>2
      <3>4. p \notin c.todo
        BY <1>17, <3>2, <3>3, EntryBound
      <3>5. superseded_by[l][p] # i
        BY <1>1, <3>2 DEF BundleTypeOK
      <3>6. p \in c.existed /\ Has(l, p)
        BY <1>1, <1>17, <3>1, <3>4, <3>5
      <3>7. p # i
        BY <1>17, <3>2, <3>4
      <3>8. QED
        BY <3>1, <3>3, <3>5, <3>6, <3>7
    <2>3. CASE k = i
      <3>1. ASSUME Circulates(l, k)', k # fact[k] PROVE Due(l, k)'
        <4>1. next = None
          BY <1>5, <2>3, <3>1 DEF Circulates
        <4>2. PICK p \in c.existed : b.next[p] = i /\ superseded_by[l][p] # i /\ p # i
          BY <2>2, <2>3, <3>1, <4>1
        <4>3. p \in Entry
          BY <1>1 DEF Call
        <4>4. superseded_by'[l][p] # k
          BY <1>5, <2>3, <4>2, <4>3
        <4>5. QED
          BY <1>17, <1>2, <1>3, <1>8, <2>3, <4>1, <4>2, <4>4 DEF Due, Unreached
      <3>2. ASSUME Circulates(l, k)', k = fact[k] PROVE Trunked(l, k)'
        <4>1. Trunk(l, k, {k})'
          BY <1>8, <3>2 DEF Trunk, Circulates
        <4>2. QED
          BY <4>1 DEF Trunked
      <3>3. ASSUME k # fact[k] PROVE Contested(l, k)'
        <4>1. CASE next = None
          <5>1. PICK p \in c.existed : p # i /\ Has(l, p) /\ fact[p] = fact[i]
            BY <2>2, <2>3, <3>3, <4>1
          <5>2. p \in Entry
            BY <1>1 DEF Call
          <5>3. QED
            BY <1>6, <1>8, <2>3, <5>1, <5>2 DEF Contested
        <4>2. CASE next # None
          <5>1. next \in Entry /\ Has(l, next) /\ fact[next] = fact[i] /\ next # i
            BY <1>1, <1>11, <4>2
          <5>2. QED
            BY <1>6, <1>8, <2>3, <5>1 DEF Contested
        <4>3. QED
          BY <4>1, <4>2
      <3>4. QED
        BY <3>1, <3>2, <3>3
    <2>4. CASE k # i
      <3>1. Circulates(l, k)' => Circulates(l, k)
        BY <1>5, <2>4 DEF Circulates
      <3>2. ASSUME Circulates(l, k)', Trunked(l, k) PROVE Trunked(l, k)'
        <4>1. PICK S \in SUBSET Entry : Trunk(l, k, S)
          BY <3>2 DEF Trunked
        <4>2. \A j \in S : status[l][j] = "live" /\ j # i
            BY <1>1, <4>1 DEF Trunk, Has
        <4>3. \A j \in S : status'[l][j] = "live" /\ superseded_by'[l][j] = superseded_by[l][j]
          BY <1>5, <4>1, <4>2
        <4>4. Trunk(l, k, S)'
          BY <1>1, <1>7, <3>1, <3>2, <4>1, <4>2, <4>3, TrunkKept, TrunkLinks DEF Circulates
        <4>5. QED
          BY <4>4 DEF Trunked
      <3>3. ASSUME Due(l, k) PROVE Due(l, k)'
        <4>1. PICK p \in c.existed : b.next[p] = k /\ superseded_by[l][p] # k
          BY <1>0, <1>17, <3>3 DEF Due, Unreached
        <4>2. p \in Entry /\ p # i
          BY <1>17
        <4>3. superseded_by'[l][p] # k
          BY <1>5, <4>1, <4>2
        <4>4. QED
          BY <1>0, <1>17, <1>2, <1>3, <3>3, <4>1, <4>3 DEF Due, Unreached
      <3>4. Circulates(l, k) => Trunked(l, k) \/ Due(l, k)
        BY <1>1 DEF Merged
      <3>5. Has(l, k)' /\ k # fact[k] => Contested(l, k)'
        BY <1>1, <1>6, <1>7, <1>8, <2>4, CompanyKept
      <3>6. QED
        BY <3>1, <3>2, <3>3, <3>4, <3>5
    <2>5. QED
      BY <2>3, <2>4
  <1>16. QED
    BY <1>1, <1>7, <1>9, <1>12, <1>13, <1>14, <1>15, FilesKept, StepKeeps DEF exchanged

LEMMA InsertRowMerges ==
  ASSUME MInv, NEW l \in Library, InsertRow(l) PROVE MInv'
  <1>0. PICK c \in Call : c = importing[l]
    BY DEF MInv, BundleTypeOK
  <1> DEFINE b == c.bundle
  <1>1. /\ BundleTypeOK /\ Lines /\ Pass(l) /\ c \in Call /\ b \in BundleFile
        /\ c.at = "insert" /\ c.todo # {}
        /\ UNCHANGED <<written_vars, exchanged, branched>>
    BY <1>0 DEF InsertRow, MInv, BundleTypeOK, Call
  <1>2. PICK i \in Entry : i = Least(c.todo) /\ i \in c.todo /\ \A j \in c.todo : i <= j
    BY <1>1, LeastIsThere DEF Call
  <1>3. CASE /\ Has(l, i)
             /\ Goes(l, [[c EXCEPT !.todo = @ \ {i}] EXCEPT !.existed = @ \cup {i},
                                                     !.next[i] = superseded_by[l][i]])
             /\ UNCHANGED <<rows, torn>>
    <2>0. PICK had \in Entry \cup {None} : had = superseded_by[l][i]
      BY <1>1, <1>2 DEF BundleTypeOK, Call
    <2> DEFINE call == [[c EXCEPT !.todo = @ \ {i}] EXCEPT !.existed = @ \cup {i},
                                                    !.next[i] = had]
    <2>1. /\ call \in Call /\ call.at = "insert" /\ call.bundle = b
          /\ call.todo = c.todo \ {i} /\ call.existed = c.existed \cup {i}
          /\ call.next = [c.next EXCEPT ![i] = had]
      <3>1. i \in Entry /\ c.existed \cup {i} \subseteq Entry
        BY <1>1, <1>2 DEF Call
      <3>2. QED
        BY <1>1, <3>1 DEF Call
    <2> HIDE DEF call
    <2>2. importing'[l] = call /\ Goes(l, call)
      BY <1>0, <1>1, <1>3, <2>0 DEF Goes, BundleTypeOK, call
    <2>3. Kept /\ superseded_by' = superseded_by /\ status' = status /\ torn' = torn
      BY <1>1, <1>3 DEF Kept, written_vars, rows, Has
    <2>4. Sound(b)'
      BY <1>0, <1>1, <2>3, SoundKept DEF Pass
    <2>5. Pass(l)'
      <3>1. /\ call.todo \subseteq b.entries /\ call.existed \subseteq b.entries \ call.todo
            /\ (l \notin torn' => b.whole)
        BY <1>0, <1>1, <1>2, <2>1, <2>3 DEF Pass
      <3>2. \A j \in Entry : call.next[j] # None => superseded_by'[l][j] = call.next[j]
        BY <1>0, <1>1, <2>0, <2>1, <2>3 DEF Pass, Call
      <3>3. ASSUME NEW j \in b.entries
            PROVE  /\ Has(l, j)' \/ j \in call.todo
                   /\ b.next[j] # None =>
                        j \in call.todo \/ j \in call.existed \/ superseded_by'[l][j] = b.next[j]
        BY <1>0, <1>1, <1>3, <2>1, <2>3 DEF Pass, Has
      <3>4. QED
        BY <2>1, <2>2, <2>4, <3>1, <3>2, <3>3 DEF Pass
    <2>6. \A k \in Entry : Due(l, k) => Due(l, k)'
      BY <1>0, <1>1, <2>1, <2>2, <2>3 DEF Due, Unreached
    <2>7. Merged(l)'
      BY <1>1, <1>3, <2>6, MergedStill DEF rows
    <2>8. QED
      BY <1>1, <1>3, <2>1, <2>2, <2>5, <2>7, CallMerges DEF exchanged, BundleTypeOK
  <1>4. CASE /\ ~Has(l, i) /\ Refers(l, b.next[i])
             /\ status' = [status EXCEPT ![l][i] = Arrives(c, i)]
             /\ superseded_by' = [superseded_by EXCEPT ![l][i] = b.next[i]]
             /\ Goes(l, [c EXCEPT !.todo = @ \ {i}])
             /\ UNCHANGED <<contradicts, torn>>
    <2>1. RowComes(l, i, b.next[i])
      BY <1>0, <1>1, <1>2, <1>4 DEF RowComes
    <2>2. QED
      BY <2>1, RowInsertedMerges
  <1>5. CASE Fails(l) /\ UNCHANGED rows
    BY <1>1, <1>5, StopMerges
  <1>6. QED
    BY <1>0, <1>2, <1>3, <1>4, <1>5 DEF InsertRow

-----------------------------------------------------------------------------
(* Pass 2, and the edges of pass 3. *)

(* What an import that reconciles pointers knows. *)
Reconciles(l, c, i) ==
  /\ c = importing[l] /\ c.bundle \in BundleFile /\ Sound(c.bundle)
  /\ (l \notin torn => c.bundle.whole)
  /\ i = Least(c.todo) /\ i \in c.todo /\ i \in Entry
  /\ c.todo \subseteq c.bundle.entries /\ c.bundle.entries \subseteq Entry /\ c.existed = {}
  /\ \A j \in Entry : c.next[j] # None => superseded_by[l][j] = c.next[j]
  /\ \A j \in c.bundle.entries : Has(l, j)
  /\ \A j \in c.bundle.entries :
       c.bundle.next[j] # None => j \in c.todo \/ Accounted(l, c, j)

LEMMA Reconciling ==
  ASSUME MInv, NEW l \in Library, importing[l].at \in {"pointers", "dispute"},
         importing[l].todo # {}
  PROVE  \E c \in Call, i \in Entry : Reconciles(l, c, i)
  <1>1. PICK c \in Call : c = importing[l]
    BY DEF MInv, BundleTypeOK
  <1>2. PICK i \in Entry : i = Least(c.todo) /\ i \in c.todo
    BY <1>1, LeastIsThere DEF Call
  <1>3. Pass(l) /\ c.bundle \in BundleFile
    BY DEF MInv, Call
  <1> DEFINE b == c.bundle
  <1>4. /\ Sound(b) /\ (l \notin torn => b.whole) /\ c.todo \subseteq b.entries
        /\ c.existed = {}
        /\ \A j \in Entry : c.next[j] # None => superseded_by[l][j] = c.next[j]
    BY <1>1, <1>3 DEF Pass
  <1>5. \A j \in b.entries : Has(l, j)
    BY <1>1, <1>3 DEF Pass
  <1>6. \A j \in b.entries : b.next[j] # None => j \in c.todo \/ Accounted(l, c, j)
    BY <1>1, <1>3, <1>4 DEF Pass, Accounted
  <1>7. b.entries \subseteq Entry
    BY <1>3 DEF BundleFile
  <1>8. Reconciles(l, c, i)
    BY <1>1, <1>2, <1>3, <1>4, <1>5, <1>6, <1>7 DEF Reconciles
  <1>9. QED
    BY <1>8

LEMMA ReconciledIsCall ==
  ASSUME NEW c \in Call, NEW i \in Entry
  PROVE  /\ Reconciled(c, i) \in Call /\ Reconciled(c, i).at = "pointers"
         /\ Reconciled(c, i).bundle = c.bundle /\ Reconciled(c, i).existed = c.existed
         /\ Reconciled(c, i).todo = c.todo \ {i}
         /\ Reconciled(c, i).next = [c.next EXCEPT ![i] = None]
  <1>1. c.todo \ {i} \in SUBSET Entry /\ c.existed \in SUBSET Entry
    BY DEF Call
  <1>2. QED
    BY <1>1 DEF Call, Reconciled

LEMMA ReconciledPasses ==
  ASSUME MInv, Kept, NEW l \in Library, NEW c \in Call, NEW i \in Entry,
         Reconciles(l, c, i), importing'[l] = Reconciled(c, i), torn' = torn,
         \A e \in contradicts[l] : \E d \in contradicts'[l] : fact'[d[1]] = fact[e[1]],
         c.bundle.next[i] # None =>
           \/ superseded_by'[l][i] = c.bundle.next[i]
           \/ \E e \in contradicts'[l] : fact'[e[1]] = fact'[i]
  PROVE  Pass(l)'
  <1> DEFINE b == c.bundle
             d == Reconciled(c, i)
  <1>1. /\ d \in Call /\ d.at = "pointers" /\ d.bundle = b /\ d.existed = {}
        /\ d.todo = c.todo \ {i} /\ d.next = [c.next EXCEPT ![i] = None]
    BY ReconciledIsCall DEF Reconciles
  <1> HIDE DEF d
  <1>2. BundleTypeOK /\ b \in BundleFile /\ Sound(b)' /\ importing'[l] = d
    BY SoundKept DEF MInv, Reconciles, d
  <1>3. \A j \in Entry : d.next[j] # None => superseded_by'[l][j] = d.next[j]
    BY <1>1 DEF Reconciles, Kept, Call
  <1>4. \A j \in b.entries : Has(l, j)'
    BY DEF Reconciles, Kept
  <1>5. ASSUME NEW j \in b.entries, b.next[j] # None
        PROVE  \/ j \in d.todo
               \/ superseded_by'[l][j] = b.next[j]
               \/ \E e \in contradicts'[l] : fact'[e[1]] = fact'[j]
    <2>1. CASE j = i
      BY <1>5, <2>1
    <2>2. CASE j # i
      <3>1. j \in Entry /\ (j \in d.todo \/ Accounted(l, c, j))
        BY <1>1, <1>5, <2>2 DEF Reconciles
      <3>2. fact[j] # None /\ fact'[j] = fact[j]
        BY <3>1 DEF Reconciles, Sound, Kept
      <3>3. CASE superseded_by[l][j] = b.next[j]
        BY <1>5, <3>1, <3>3 DEF Kept
      <3>4. CASE \E e \in contradicts[l] : fact[e[1]] = fact[j]
        BY <3>2, <3>4
      <3>5. QED
        BY <3>1, <3>3, <3>4 DEF Accounted
    <2>3. QED
      BY <2>1, <2>2
  <1>6. d.todo \subseteq b.entries /\ (l \notin torn' => b.whole)
    BY <1>1 DEF Reconciles
  <1>7. QED
    <2> HIDE DEF b
    <2>1. ASSUME NEW j \in b.entries, b.next[j] # None
          PROVE  j \in d.todo \/ Accounted(l, importing[l], j)'
      BY <1>1, <1>2, <1>5, <2>1 DEF Accounted
    <2>2. QED
      BY <1>1, <1>2, <1>3, <1>4, <1>6, <2>1 DEF Pass

LEMMA AgreesMerges ==
  ASSUME MInv, NEW l \in Library, Agrees(l) PROVE MInv'
  <1>1. PICK c \in Call, i \in Entry : Reconciles(l, c, i)
    BY Reconciling DEF Agrees
  <1>2. /\ BundleTypeOK /\ c.at = "pointers" /\ ~Forks(c, i)
        /\ (c.next[i] = None => c.bundle.next[i] = None)
        /\ Goes(l, Reconciled(c, i))
        /\ UNCHANGED <<written_vars, rows, exchanged, torn, branched>>
    BY <1>1 DEF Agrees, Reconciles, MInv
  <1>3. Kept
    BY <1>2 DEF Kept, written_vars, rows, Has
  <1>4. c.bundle.next[i] # None => superseded_by[l][i] = c.bundle.next[i]
    BY <1>1, <1>2 DEF Forks, Reconciles
  <1>5. importing'[l] = Reconciled(c, i)
    BY <1>2 DEF Goes, BundleTypeOK
  <1>6. Pass(l)'
    BY <1>1, <1>2, <1>3, <1>4, <1>5, ReconciledPasses DEF rows, written_vars
  <1> DEFINE d == Reconciled(c, i)
  <1>10. /\ d \in Call /\ d.at = "pointers" /\ d.bundle = c.bundle
         /\ d.todo = c.todo \ {i}
    BY ReconciledIsCall
  <1> HIDE DEF d
  <1>7. ASSUME NEW k \in Entry, Due(l, k) PROVE Due(l, k)'
    <2>1. PICK p \in c.todo : c.bundle.next[p] = k /\ superseded_by[l][p] # k
      BY <1>1, <1>2, <1>7 DEF Due, Unreached, Reconciles
    <2>2. p # i
      BY <1>4, <2>1, EntryBound
    <2>3. p \in d.todo /\ superseded_by'[l][p] # k
      BY <1>2, <1>10, <2>1, <2>2 DEF rows
    <2>4. importing'[l] = d
      BY <1>5 DEF d
    <2>5. QED
      BY <1>1, <1>7, <1>10, <2>1, <2>3, <2>4 DEF Due, Unreached, Reconciles
  <1>8. Merged(l)'
    BY <1>2, <1>7, MergedStill DEF rows
  <1>9. QED
    BY <1>2, <1>6, <1>8, ReconciledIsCall, CallMerges DEF exchanged, BundleTypeOK

LEMMA ImportedMerges ==
  ASSUME MInv, NEW l \in Library, Imported(l) PROVE MInv'
  <1>1. /\ BundleTypeOK /\ importing[l].at = "pointers" /\ importing[l].todo = {}
        /\ Goes(l, Idle) /\ UNCHANGED <<written_vars, rows, exchanged, torn, branched>>
    BY DEF Imported, MInv
  <1>2. importing'[l] = Idle
    BY <1>1 DEF Goes, BundleTypeOK
  <1>3. Pass(l)'
    <2>1. Sound(Idle.bundle)' /\ Idle.bundle.whole
      BY IdleIsSoundNext DEF Idle, Blank
    <2>2. QED
      BY <1>2, <2>1 DEF Pass, Idle, Blank
  <1>4. \A k \in Entry : ~Due(l, k)
    BY <1>1 DEF Due, Unreached
  <1>5. Merged(l)'
    BY <1>1, <1>4, MergedStill DEF rows
  <1>6. QED
    BY <1>1, <1>3, <1>5, IdleIsCall, CallMerges DEF exchanged, BundleTypeOK

(* The pointers of a bundle stay within a fact. *)
LEMMA EndInFact ==
  ASSUME BundleTypeOK, Lines, NEW b \in BundleFile, Sound(b), NEW i \in Entry,
         b.next[i] # None
  PROVE  /\ b.next[i] \in Entry /\ End(b.next, b.next[i]) \in Entry
         /\ fact[End(b.next, b.next[i])] = fact[i]
  <1> DEFINE Y == {x \in Entry : fact[x] = fact[i]}
  <1>1. b.next \in [Entry -> Entry \cup {None}]
    BY DEF BundleFile
  <1>2. ASSUME NEW x \in Entry, b.next[x] # None
        PROVE  b.next[x] \in Entry /\ fact[b.next[x]] = fact[x]
    BY <1>1, <1>2, EntryBound DEF Sound, Leads, Lines
  <1>3. b.next[i] \in Entry /\ b.next[i] \in Y
    BY <1>2
  <1>4. \A x \in Entry : x \in Y /\ b.next[x] # None => b.next[x] \in Y
    BY <1>2
  <1>5. End(b.next, b.next[i]) \in Entry /\ End(b.next, b.next[i]) \in Y
    <2> HIDE DEF Y
    <2>1. QED
      BY <1>1, <1>3, <1>4, EndStays
  <1>6. QED
    BY <1>3, <1>5

(* An edge between rows of the library. *)
LEMMA EdgeMerges ==
  ASSUME MInv, NEW l \in Library, NEW call \in Call, Goes(l, call),
         NEW e \in Entry \X Entry, Has(l, e[1]), Has(l, e[2]),
         contradicts' = [contradicts EXCEPT ![l] = @ \cup {e}],
         UNCHANGED <<written_vars, status, superseded_by, exchanged, torn, branched>>,
         Pass(l)', Merged(l)'
  PROVE  MInv'
  <1>1. BundleTypeOK /\ Lines
    BY DEF MInv
  <1>2. Kept
    BY DEF Kept, written_vars, Has
  <1>3. /\ contradicts'[l] = contradicts[l] \cup {e}
        /\ \A m \in Library \ {l} : contradicts'[m] = contradicts[m]
        /\ contradicts' \in [Library -> SUBSET (Entry \X Entry)]
    BY <1>1 DEF BundleTypeOK
  <1>4. \A m \in Library : \A d \in contradicts'[m] : Has(m, d[1]) /\ Has(m, d[2])
    BY <1>1, <1>3 DEF BundleTypeOK
  <1>5. BundleTypeOK'
    <2>1. importing' \in [Library -> Call]
      BY <1>1 DEF BundleTypeOK, Goes
    <2>2. \A m \in Library : \A d \in contradicts'[m] : Has(m, d[1])' /\ Has(m, d[2])'
      BY <1>4 DEF Has
    <2>3. QED
      BY <1>1, <1>3, <2>1, <2>2 DEF BundleTypeOK, written_vars, exchanged, Has
  <1>6. Lines'
    BY <1>1 DEF Lines, Leads, written_vars, Has
  <1>7. Alone(l)
    BY <1>1, <1>3 DEF Alone, Rests, BundleTypeOK, Goes
  <1>8. QED
    BY <1>2, <1>5, <1>6, <1>7, FilesKept, StepKeeps DEF exchanged

LEMMA DisputeMerges ==
  ASSUME MInv, NEW l \in Library, Dispute(l) PROVE MInv'
  <1>0. Pass(l) /\ importing[l].at = "dispute" /\ importing[l].todo # {}
    BY DEF MInv, Pass, Dispute
  <1>1. PICK c \in Call, i \in Entry : Reconciles(l, c, i)
    BY <1>0, Reconciling
  <1> DEFINE rival == End(c.bundle.next, c.bundle.next[i])
  <1>2. /\ BundleTypeOK /\ Lines
        /\ contradicts' = [contradicts EXCEPT ![l] = @ \cup {<<rival, c.head>>}]
        /\ Goes(l, Reconciled(c, i))
        /\ UNCHANGED <<written_vars, status, superseded_by, exchanged, torn, branched>>
    BY <1>1 DEF Dispute, Reconciles, MInv
  <1>3. /\ c.at = "dispute" /\ Has(l, rival) /\ c.head \in Entry /\ Has(l, c.head)
        /\ c.bundle.next[i] # None
    BY <1>0, <1>1 DEF Pass, Reconciles, Forks, Call
  <1>4. rival \in Entry /\ fact[rival] = fact[i]
    BY <1>1, <1>2, <1>3, EndInFact DEF Reconciles
  <1> HIDE DEF rival
  <1>5. Kept
    BY <1>2 DEF Kept, written_vars, Has
  <1>6. importing'[l] = Reconciled(c, i) /\ contradicts'[l] = contradicts[l] \cup {<<rival, c.head>>}
    BY <1>2 DEF Goes, BundleTypeOK
  <1>7. Pass(l)'
    <2>1. \A e \in contradicts[l] : \E d \in contradicts'[l] : fact'[d[1]] = fact[e[1]]
      BY <1>2, <1>6 DEF written_vars
    <2>2. \E e \in contradicts'[l] : fact'[e[1]] = fact'[i]
      <3>1. <<rival, c.head>> \in contradicts'[l] /\ <<rival, c.head>>[1] = rival
        BY <1>6
      <3>2. fact' = fact
        BY <1>2 DEF written_vars
      <3>3. QED
        BY <1>4, <3>1, <3>2
    <2>3. QED
      BY <1>1, <1>2, <1>5, <1>6, <2>1, <2>2, ReconciledPasses
  <1>8. ASSUME NEW k \in Entry, Due(l, k) PROVE Due(l, k)'
    <2> DEFINE d == Reconciled(c, i)
    <2>1. d.at = "pointers" /\ d.bundle = c.bundle /\ d.todo = c.todo \ {i}
      BY ReconciledIsCall
    <2>2. importing'[l] = d
      BY <1>6
    <2> HIDE DEF d
    <2>3. PICK p \in c.todo \ {i} : c.bundle.next[p] = k /\ superseded_by[l][p] # k
      BY <1>1, <1>3, <1>8 DEF Due, Unreached, Reconciles
    <2>4. QED
      BY <1>1, <1>2, <1>8, <2>1, <2>2, <2>3 DEF Due, Unreached, Reconciles
  <1>9. Merged(l)'
    BY <1>2, <1>8, MergedStill
  <1>10. QED
    <2>1. <<rival, c.head>> \in Entry \X Entry
      BY <1>3, <1>4
    <2>2. QED
      BY <1>2, <1>3, <1>7, <1>9, <2>1, ReconciledIsCall, EdgeMerges

LEMMA BundleEdgeMerges ==
  ASSUME MInv, NEW l \in Library, NEW e \in Entry \X Entry, Edge(l, e) PROVE MInv'
  <1>0. PICK c \in Call : c = importing[l]
    BY DEF MInv, BundleTypeOK
  <1> DEFINE b == [c.bundle EXCEPT !.edges = c.bundle.edges \ {e}]
             call == [c EXCEPT !.bundle = b]
  <1>1. /\ BundleTypeOK /\ Pass(l) /\ c.at = "pointers" /\ c.todo = {}
        /\ e \in c.bundle.edges /\ c.bundle \in BundleFile
        /\ contradicts' = [contradicts EXCEPT ![l] = @ \cup {e}]
        /\ Goes(l, call)
        /\ UNCHANGED <<written_vars, status, superseded_by, exchanged, torn, branched>>
    <2>1. call = [c EXCEPT !.bundle.edges = @ \ {e}]
      BY DEF Call
    <2>2. QED
      BY <1>0, <2>1 DEF Edge, MInv, Call
  <1>2. /\ b \in BundleFile /\ b.entries = c.bundle.entries /\ b.next = c.bundle.next
        /\ b.whole = c.bundle.whole /\ b.edges \subseteq c.bundle.edges
    BY <1>1 DEF BundleFile
  <1> HIDE DEF b
  <1>3. /\ call \in Call /\ call.at = "pointers" /\ call.bundle = b /\ call.todo = {}
        /\ call.existed = c.existed /\ call.next = c.next
    BY <1>1, <1>2 DEF Call
  <1> HIDE DEF call
  <1>4. importing'[l] = call /\ contradicts'[l] = contradicts[l] \cup {e}
    BY <1>1 DEF Goes, BundleTypeOK
  <1>5. Kept
    BY <1>1 DEF Kept, written_vars, Has
  <1>6. Sound(b)'
    <2>1. Sound(b)
      BY <1>0, <1>1, <1>2 DEF Pass, Sound
    <2>2. QED
      BY <1>1, <1>2, <1>5, <2>1, SoundKept
  <1>7. Pass(l)'
    <2>1. /\ call.existed = {} /\ (l \notin torn' => b.whole)
          /\ \A j \in Entry : call.next[j] # None => superseded_by'[l][j] = call.next[j]
          /\ \A j \in b.entries : Has(l, j)'
      BY <1>0, <1>1, <1>2, <1>3 DEF Pass, Has
    <2>2. ASSUME NEW j \in b.entries, b.next[j] # None
          PROVE  \/ superseded_by'[l][j] = b.next[j]
                 \/ \E d \in contradicts'[l] : fact'[d[1]] = fact'[j]
      <3>1. Accounted(l, c, j)
        BY <1>0, <1>1, <1>2, <2>2 DEF Pass, Accounted
      <3>2. QED
        BY <1>1, <1>2, <1>4, <3>1 DEF Accounted, written_vars
    <2>3. QED
      BY <1>3, <1>4, <1>6, <2>1, <2>2 DEF Pass, Accounted
  <1>8. \A k \in Entry : ~Due(l, k)
    BY <1>0, <1>1 DEF Due, Unreached
  <1>9. Merged(l)'
    BY <1>1, <1>8, MergedStill
  <1>10. Has(l, e[1]) /\ Has(l, e[2])
    BY <1>0, <1>1 DEF Pass, Sound
  <1>11. QED
    BY <1>1, <1>3, <1>7, <1>9, <1>10, EdgeMerges

(* A line goes on: its last version points to a live successor. *)
LEMMA TrunkGrows ==
  ASSUME NEW l \in Library, NEW i \in Entry, NEW k \in Entry, NEW S, Trunk(l, i, S),
         superseded_by[l][i] = None, superseded_by'[l][i] = k, fact'[k] = fact[i],
         \A x \in Entry : x # i => superseded_by'[l][x] = superseded_by[l][x],
         \A x \in S \cup {k} : status'[l][x] = "live"
  PROVE  Trunk(l, k, S \cup {k})'
  <1>1. S \subseteq Entry /\ i \in S /\ fact[i] \in S /\ None \notin Entry
    BY EntryBound DEF Trunk
  <1>2. \A x \in S \cup {k} : x # k => superseded_by'[l][x] \in S \cup {k}
    BY <1>1 DEF Trunk
  <1>3. ASSUME NEW j \in S \cup {k}, j # fact[i]
        PROVE  \E x \in S : superseded_by'[l][x] = j
    <2>1. CASE j \in S
      <3>1. PICK x \in S : superseded_by[l][x] = j
        BY <1>3, <2>1 DEF Trunk
      <3>2. x # i
        BY <1>1, <2>1, <3>1
      <3>3. QED
        BY <1>1, <3>1, <3>2
    <2>2. CASE j = k
      BY <1>1, <2>2
    <2>3. QED
      BY <2>1, <2>2
  <1>4. QED
    BY <1>1, <1>2, <1>3 DEF Trunk

LEMMA FastForwardMerges ==
  ASSUME MInv, NEW l \in Library, FastForward(l) PROVE MInv'
  <1>1. PICK c \in Call, i \in Entry : Reconciles(l, c, i)
    BY Reconciling DEF FastForward
  <1> DEFINE next == c.bundle.next[i]
             d == Reconciled(c, i)
  <1>2. CASE Fails(l) /\ UNCHANGED <<superseded_by, branched>>
    <2>1. UNCHANGED <<written_vars, rows, exchanged, branched>>
      BY <1>2 DEF FastForward, rows
    <2>2. QED
      BY <1>2, <2>1, StopMerges
  <1>3. ASSUME superseded_by[l][i] = None, Has(l, next), next # None, c.at = "pointers",
               superseded_by' = [superseded_by EXCEPT ![l][i] = next],
               Goes(l, d), Branches(i, status[l][i] # "live"), torn' = torn,
               UNCHANGED <<written_vars, status, contradicts, exchanged>>
        PROVE  MInv'
    <2>1. /\ BundleTypeOK /\ Lines /\ Merged(l) /\ Pass(l) /\ None \notin Entry
          /\ c.bundle \in BundleFile /\ Sound(c.bundle) /\ i \in c.bundle.entries
      BY <1>1, EntryBound DEF MInv, Reconciles
    <2>2. next \in Entry /\ Leads(i, next) /\ fact[next] = fact[i] /\ i # next
      <3>1. next \in Entry /\ Leads(i, next)
        BY <1>3, <2>1 DEF Sound, BundleFile
      <3>2. QED
        BY <2>1, <3>1, EntryBound DEF Lines, Leads
    <2>3. /\ d \in Call /\ d.at = "pointers" /\ d.bundle = c.bundle /\ d.todo = c.todo \ {i}
      BY ReconciledIsCall
    <2>4. importing'[l] = d
      BY <1>3, <2>1 DEF Goes, BundleTypeOK
    <2> HIDE DEF d
    <2>5. /\ superseded_by'[l][i] = next
          /\ \A j \in Entry : j # i => superseded_by'[l][j] = superseded_by[l][j]
          /\ \A m \in Library \ {l} : superseded_by'[m] = superseded_by[m]
          /\ fact' = fact /\ written' = written /\ status' = status /\ contradicts' = contradicts
      BY <1>3, <2>1 DEF BundleTypeOK, written_vars
    <2>6. /\ branched' = (IF status[l][i] # "live" THEN branched \cup {fact[i]} ELSE branched)
          /\ fact[i] \in Entry
      BY <1>3, <2>1, RowsHaveFacts DEF Branches, Sound, Lines, BundleTypeOK
    <2>7. \A m \in Library, j \in Entry : Has(m, j)' <=> Has(m, j)
      BY <2>5 DEF Has
    <2>8. Kept
      BY <1>3, <2>5, <2>6, <2>7 DEF Kept
    <2>9. BundleTypeOK'
      <3>1. \A m \in Library, j \in Entry :
              (superseded_by[m][j] # None => Has(m, j) /\ Has(m, superseded_by[m][j]))'
        <4>1. Has(l, i)' /\ Has(l, next)'
          BY <1>1, <1>3, <2>1, <2>2, <2>7 DEF Reconciles
        <4>2. QED
          BY <1>3, <2>1, <2>2, <2>7, <4>1, KeysLinked
      <3>2. /\ superseded_by' \in [Library -> [Entry -> Entry \cup {None}]]
            /\ importing' \in [Library -> Call] /\ branched' \subseteq Entry
            /\ status' = status /\ contradicts' = contradicts /\ fact' = fact
            /\ written' = written /\ files' = files /\ imports' = imports /\ torn' = torn
        BY <1>3, <2>1, <2>2, <2>3, <2>5, <2>6 DEF BundleTypeOK, Goes, exchanged
      <3>3. \A m \in Library : \A e \in contradicts'[m] : Has(m, e[1])' /\ Has(m, e[2])'
        BY <2>1, <2>5 DEF BundleTypeOK, Has
      <3>4. QED
        BY <2>1, <3>1, <3>2, <3>3 DEF BundleTypeOK, Has
    <2>10. Lines'
      <3>1. \A m \in Library, j \in Entry : Has(m, j)' => j <= written
        BY <2>1, <2>7 DEF Lines
      <3>2. QED
        BY <1>3, <2>1, <2>2, <2>5, <3>1, LinesLinked
    <2>11. Alone(l)
      BY <1>3, <2>1, <2>5 DEF Alone, Rests, BundleTypeOK, Goes
    <2>12. Pass(l)'
      <3>1. importing'[l] = Reconciled(c, i)
        BY <2>4 DEF d
      <3>2. QED
        BY <1>1, <1>3, <2>5, <2>8, <3>1, ReconciledPasses
    <2>13. Merged(l)'
      <3> SUFFICES ASSUME l \notin torn, NEW k \in Entry, fact[k] \notin branched'
                   PROVE  /\ Circulates(l, k)' => Trunked(l, k)' \/ Due(l, k)'
                          /\ Has(l, k)' /\ k # fact[k] => Contested(l, k)'
        BY <1>3, <2>5 DEF Merged
      <3>1. fact[k] \notin branched
        BY <2>6
      <3>2. ASSUME Circulates(l, k)' PROVE Trunked(l, k)' \/ Due(l, k)'
        <4>1. k # i /\ Circulates(l, k)
          BY <2>1, <2>2, <2>5, <3>2 DEF Circulates
        <4>2. CASE Trunked(l, k)
          <5>1. PICK S \in SUBSET Entry : Trunk(l, k, S)
            BY <4>2 DEF Trunked
          <5>2. /\ \A j \in S : status'[l][j] = "live"
                /\ \A j \in S : superseded_by[l][j] # None => superseded_by'[l][j] = superseded_by[l][j]
            BY <2>5, <2>8, <5>1 DEF Trunk, Kept
          <5>3. Trunk(l, k, S)'
            BY <2>1, <2>8, <4>1, <5>1, <5>2, TrunkKept, TrunkLinks DEF Circulates
          <5>4. QED
            BY <5>3 DEF Trunked
        <4>3. CASE Due(l, k)
          <5>1. PICK p \in c.todo : c.bundle.next[p] = k /\ superseded_by[l][p] # k
            BY <1>1, <1>3, <4>3 DEF Due, Unreached, Reconciles
          <5>2. CASE p # i
            <6>1. p \in d.todo /\ p \in Entry
              BY <1>1, <2>3, <5>1, <5>2 DEF Reconciles
            <6>2. superseded_by'[l][p] # k
              BY <2>5, <5>1, <5>2, <6>1
            <6>3. QED
              BY <1>1, <2>3, <2>4, <4>3, <5>1, <6>1, <6>2 DEF Due, Unreached, Reconciles
          <5>3. CASE p = i
            <6>1. k = next /\ fact[k] = fact[i]
              BY <2>2, <5>1, <5>3
            <6>2. Circulates(l, i) /\ fact[i] \notin branched
              BY <1>3, <2>6, <6>1 DEF Circulates
            <6>3. ~Due(l, i)
              BY <1>1, <1>3 DEF Due, Reconciles
            <6>4. PICK S \in SUBSET Entry : Trunk(l, i, S)
              BY <2>1, <6>2, <6>3 DEF Merged, Trunked
            <6>5. \A x \in S \cup {k} : status'[l][x] = "live"
              BY <2>5, <3>2, <6>4 DEF Trunk, Circulates
            <6>6. superseded_by'[l][i] = k /\ fact'[k] = fact[i]
              BY <2>5, <6>1
            <6>7. Trunk(l, k, S \cup {k})' /\ S \cup {k} \in SUBSET Entry
              BY <1>3, <2>5, <6>4, <6>5, <6>6, TrunkGrows
            <6>8. QED
              BY <6>7 DEF Trunked
          <5>4. QED
            BY <5>2, <5>3
        <4>4. QED
          BY <2>1, <3>1, <4>1, <4>2, <4>3 DEF Merged
      <3>3. QED
        BY <2>5, <2>7, <2>8, <3>2, CompanyKept
    <2>14. QED
      BY <1>3, <2>8, <2>9, <2>10, <2>11, <2>12, <2>13, FilesKept, StepKeeps DEF exchanged
  <1>4. \/ Fails(l) /\ UNCHANGED <<superseded_by, branched>>
        \/ /\ superseded_by[l][i] = None /\ Has(l, next) /\ next # None /\ c.at = "pointers"
           /\ superseded_by' = [superseded_by EXCEPT ![l][i] = next]
           /\ Goes(l, d) /\ Branches(i, status[l][i] # "live") /\ torn' = torn
           /\ UNCHANGED <<written_vars, status, contradicts, exchanged>>
    BY <1>1 DEF FastForward, Reconciles
  <1>5. QED
    BY <1>2, <1>3, <1>4

(* The rival of a fork is in nobody's line: the pointers of a bundle do not
   lead into one from outside. *)
LEMMA RivalIsOutside ==
  ASSUME BundleTypeOK, Lines, NEW l \in Library, NEW b \in BundleFile, Sound(b),
         NEW i \in Entry, b.next[i] # None, superseded_by[l][i] # b.next[i],
         NEW k \in Entry, fact[k] # None, NEW S, Trunk(l, k, S)
  PROVE  End(b.next, b.next[i]) \notin S
  <1> DEFINE Y == Entry \ S
  <1>1. b.next \in [Entry -> Entry \cup {None}] /\ None \notin Entry /\ Entry \subseteq Nat
    BY EntryBound DEF BundleFile
  <1>2. ASSUME NEW x \in Entry, b.next[x] # None, b.next[x] \in S
        PROVE  x \in S /\ superseded_by[l][x] = b.next[x]
    <2>1. PICK y \in Entry : y = b.next[x]
      BY <1>1, <1>2
    <2>2. Leads(x, y)
      BY <1>2, <2>1 DEF Sound
    <2>3. x < y /\ fact[y] = fact[x]
      BY <1>1, <2>2 DEF Lines, Leads
    <2>4. y # fact[k]
      <3>1. SUFFICES ASSUME y = fact[k] PROVE FALSE
        OBVIOUS
      <3>2. fact[y] = y
        BY <3>1 DEF Lines
      <3>3. y <= x
        <4>1. x <= written /\ fact[x] = y
          BY <1>1, <2>1, <2>3, <3>2 DEF Lines
        <4>2. QED
          BY <4>1 DEF Lines
      <3>4. x \in Nat /\ y \in Nat
        BY <1>1, <2>1
      <3>5. QED
        BY <2>3, <3>3, <3>4
    <2>5. PICK z \in S : superseded_by[l][z] = y
      BY <1>2, <2>1, <2>4 DEF Trunk
    <2>6. Leads(z, y) /\ z \in Entry
      BY <2>5 DEF Leads, Trunk
    <2>7. z = x
      BY <2>2, <2>6 DEF Lines
    <2>8. QED
      BY <2>1, <2>5, <2>7
  <1>3. b.next[i] \in Entry /\ b.next[i] \in Y
    BY <1>1, <1>2
  <1>4. \A x \in Entry : x \in Y /\ b.next[x] # None => b.next[x] \in Y
    BY <1>1, <1>2
  <1>5. End(b.next, b.next[i]) \in Y
    <2> HIDE DEF Y
    <2>1. QED
      BY <1>1, <1>3, <1>4, EndStays
  <1>6. QED
    BY <1>5

LEMMA ForkMerges ==
  ASSUME MInv, NEW l \in Library, Fork(l) PROVE MInv'
  <1>1. PICK c \in Call, i \in Entry : Reconciles(l, c, i)
    BY Reconciling DEF Fork
  <1> DEFINE b == c.bundle
             rival == End(b.next, b.next[i])
             head == End(superseded_by[l], c.next[i])
  <1>2. CASE Fails(l) /\ UNCHANGED status
    <2>1. UNCHANGED <<written_vars, rows, exchanged, branched>>
      BY <1>2 DEF Fork, rows
    <2>2. QED
      BY <1>2, <2>1, StopMerges
  <1>3. ASSUME c.at = "pointers", Forks(c, i), Has(l, rival),
               status' = [status EXCEPT ![l][rival] = "pending"],
               Goes(l, [c EXCEPT !.at = "dispute", !.head = head]), torn' = torn,
               UNCHANGED <<written_vars, superseded_by, contradicts, exchanged, branched>>
        PROVE  MInv'
    <2>1. /\ BundleTypeOK /\ Lines /\ Merged(l) /\ None \notin Entry
          /\ b \in BundleFile /\ Sound(b) /\ b.next \in [Entry -> Entry \cup {None}]
          /\ c.next[i] # None /\ b.next[i] # None /\ c.next[i] # b.next[i]
          /\ superseded_by[l][i] = c.next[i] /\ c.existed = {}
      BY <1>1, <1>3, EntryBound DEF MInv, Reconciles, BundleFile, Forks
    <2>2. rival \in Entry /\ fact[rival] = fact[i]
      BY <2>1, EndInFact
    <2>3. head \in Entry /\ Has(l, head)
      <3> DEFINE Y == {x \in Entry : Has(l, x)}
      <3>1. superseded_by[l] \in [Entry -> Entry \cup {None}]
        BY <2>1 DEF BundleTypeOK
      <3>2. c.next[i] \in Entry /\ c.next[i] \in Y
        BY <2>1, <3>1 DEF BundleTypeOK
      <3>3. \A x \in Entry : x \in Y /\ superseded_by[l][x] # None => superseded_by[l][x] \in Y
        BY <2>1, <3>1 DEF BundleTypeOK
      <3>4. head \in Entry /\ head \in Y
        <4> HIDE DEF Y
        <4>1. QED
          BY <3>1, <3>2, <3>3, EndStays
      <3>5. QED
        BY <3>4
    <2>4. PICK found \in Entry : found = head /\ Has(l, found)
      BY <2>3
    <2> DEFINE d == [c EXCEPT !.at = "dispute", !.head = found]
    <2>5. /\ d \in Call /\ d.at = "dispute" /\ d.bundle = b /\ d.todo = c.todo
          /\ d.existed = {} /\ d.next = c.next /\ d.head = found
      BY <2>1 DEF Call
    <2>6. importing'[l] = d /\ importing' = [importing EXCEPT ![l] = d]
      BY <1>3, <2>1, <2>4 DEF Goes, BundleTypeOK
    <2> HIDE DEF d, rival, head
    <2>7. /\ status'[l][rival] = "pending"
          /\ \A j \in Entry : j # rival => status'[l][j] = status[l][j]
          /\ \A m \in Library \ {l} : status'[m] = status[m]
          /\ fact' = fact /\ written' = written
      BY <1>3, <2>1, <2>2 DEF BundleTypeOK, written_vars
    <2>8. \A m \in Library, j \in Entry : Has(m, j)' <=> Has(m, j)
      <3>1. \A j \in Entry : Has(l, j)' <=> Has(l, j)
        BY <1>3, <2>7 DEF Has
      <3>2. QED
        BY <2>7, <3>1 DEF Has
    <2>9. Kept
      BY <1>3, <2>7, <2>8 DEF Kept
    <2>10. BundleTypeOK'
      <3>1. /\ status' \in [Library -> [Entry -> {"absent", "live", "pending", "rejected"}]]
            /\ importing' \in [Library -> Call]
        BY <1>3, <2>1, <2>2, <2>5, <2>6 DEF BundleTypeOK
      <3>2. \A m \in Library, j \in Entry :
              (superseded_by[m][j] # None => Has(m, j) /\ Has(m, superseded_by[m][j]))'
        BY <1>3, <2>1, <2>8 DEF BundleTypeOK
      <3>3. \A m \in Library : \A e \in contradicts'[m] : Has(m, e[1])' /\ Has(m, e[2])'
        BY <1>3, <2>1, <2>8 DEF BundleTypeOK
      <3>4. QED
        BY <1>3, <2>1, <2>7, <3>1, <3>2, <3>3 DEF BundleTypeOK, exchanged, Has
    <2>11. Lines'
      BY <1>3, <2>1, <2>7, <2>8 DEF Lines, Leads
    <2>12. Alone(l)
      BY <1>3, <2>1, <2>6, <2>7 DEF Alone, Rests, BundleTypeOK
    <2>13. Pass(l)'
      <3>1. Sound(b)'
        BY <2>1, <2>9, SoundKept
      <3>2. /\ (l \notin torn' => b.whole) /\ c.todo \subseteq b.entries
            /\ \A j \in Entry : c.next[j] # None => superseded_by'[l][j] = c.next[j]
            /\ \A j \in b.entries : Has(l, j)'
        BY <1>1, <1>3, <2>9 DEF Reconciles, Kept
      <3>3. ASSUME NEW j \in b.entries, b.next[j] # None
            PROVE  j \in c.todo \/ Accounted(l, importing[l], j)'
        <4>1. j \in c.todo \/ Accounted(l, c, j)
          BY <1>1, <3>3 DEF Reconciles
        <4>2. QED
          BY <1>3, <2>5, <2>6, <2>7, <4>1 DEF Accounted
      <3>4. Forks(d, Least(d.todo)) /\ d.todo # {} /\ Least(d.todo) = i
        BY <1>1, <2>1, <2>5 DEF Forks, Reconciles
      <3>5. Has(l, rival)' /\ Has(l, found)'
        BY <1>3, <2>2, <2>4, <2>8
      <3>6. Has(l, End(b.next, b.next[i]))'
        BY <3>5 DEF rival
      <3> HIDE DEF b
      <3>7. QED
        BY <2>1, <2>5, <2>6, <3>1, <3>2, <3>3, <3>4, <3>5, <3>6 DEF Pass
    <2>14. Merged(l)'
      <3> SUFFICES ASSUME l \notin torn, NEW k \in Entry, fact[k] \notin branched
                   PROVE  /\ Circulates(l, k)' => Trunked(l, k)' \/ Due(l, k)'
                          /\ Has(l, k)' /\ k # fact[k] => Contested(l, k)'
        BY <1>3, <2>7 DEF Merged
      <3>1. ASSUME Circulates(l, k)' PROVE Trunked(l, k)' \/ Due(l, k)'
        <4>1. k # rival /\ Circulates(l, k)
          BY <1>3, <2>7, <3>1 DEF Circulates
        <4>2. CASE Trunked(l, k)
          <5>1. PICK S \in SUBSET Entry : Trunk(l, k, S)
            BY <4>2 DEF Trunked
          <5>2. rival \notin S
            <6>1. fact[k] # None
              BY <2>1, <4>1, RowsHaveFacts DEF Circulates, Has
            <6>2. QED
              BY <2>1, <5>1, <6>1, RivalIsOutside DEF rival
          <5>3. /\ \A j \in S : status'[l][j] = "live"
                /\ \A j \in S : superseded_by[l][j] # None => superseded_by'[l][j] = superseded_by[l][j]
            BY <1>3, <2>7, <5>1, <5>2 DEF Trunk
          <5>4. Trunk(l, k, S)'
            BY <2>1, <2>9, <4>1, <5>1, <5>3, TrunkKept, TrunkLinks DEF Circulates
          <5>5. QED
            BY <5>4 DEF Trunked
        <4>3. CASE Due(l, k)
          <5>1. PICK p \in c.todo : b.next[p] = k /\ superseded_by[l][p] # k
            BY <1>1, <1>3, <4>3 DEF Due, Unreached, Reconciles
          <5>2. b.next[k] = None /\ k \in b.entries
            BY <1>1, <4>3 DEF Due, Reconciles
          <5>3. p # i
            <6>1. End(b.next, k) = k
              BY <2>1, <5>2, EndOfHead
            <6>2. QED
              BY <4>1, <5>1, <6>1 DEF rival
          <5>4. p \in d.todo \ {Least(d.todo)}
            BY <1>1, <2>5, <5>1, <5>3 DEF Reconciles
          <5>5. QED
            BY <1>3, <2>5, <2>6, <5>1, <5>2, <5>4 DEF Due, Unreached
        <4>4. QED
          BY <2>1, <4>1, <4>2, <4>3 DEF Merged
      <3>2. QED
        BY <1>3, <2>7, <2>8, <2>9, <3>1, CompanyKept
    <2>15. QED
      BY <1>3, <2>9, <2>10, <2>11, <2>12, <2>13, <2>14, FilesKept, StepKeeps DEF exchanged
  <1>4. \/ Fails(l) /\ UNCHANGED status
        \/ /\ c.at = "pointers" /\ Forks(c, i) /\ Has(l, rival)
           /\ status' = [status EXCEPT ![l][rival] = "pending"]
           /\ Goes(l, [c EXCEPT !.at = "dispute", !.head = head]) /\ torn' = torn
           /\ UNCHANGED <<written_vars, superseded_by, contradicts, exchanged, branched>>
    BY <1>1 DEF Fork, Quarantined, Reconciles
  <1>5. QED
    BY <1>2, <1>3, <1>4

-----------------------------------------------------------------------------
(* The theorems. *)
LEMMA InitMerges == BundleInit => MInv
  <1> SUFFICES ASSUME BundleInit PROVE MInv
    OBVIOUS
  <1>1. /\ written = 0 /\ fact = [i \in Entry |-> None]
        /\ status = [l \in Library |-> [i \in Entry |-> "absent"]]
        /\ superseded_by = [l \in Library |-> [i \in Entry |-> None]]
        /\ contradicts = [l \in Library |-> {}] /\ files = {} /\ imports = 0
        /\ importing = [l \in Library |-> Idle] /\ torn = {} /\ branched = {}
    BY DEF BundleInit
  <1>2. \A l \in Library, i \in Entry : ~Has(l, i) /\ superseded_by[l][i] = None
    BY <1>1 DEF Has
  <1>3. BundleTypeOK
    BY <1>1, <1>2, BundleAssumption, IdleIsCall DEF BundleTypeOK
  <1>4. Lines
    <2>1. \A i \in Entry : i \in Nat \ {0}
      BY DEF Entry
    <2>2. \A i, j \in Entry : ~Leads(i, j)
      BY <1>2, EntryBound DEF Leads
    <2>3. QED
      BY <1>1, <1>2, <2>1, <2>2 DEF Lines
  <1>5. ASSUME NEW l \in Library PROVE Pass(l) /\ Merged(l)
    <2>1. Pass(l)
      BY <1>1, IdlePasses
    <2>2. Merged(l)
      BY <1>2 DEF Merged, Circulates, Has
    <2>3. QED
      BY <2>1, <2>2
  <1>6. QED
    BY <1>1, <1>3, <1>4, <1>5 DEF MInv

LEMMA NextMerges == MInv /\ [BundleNext]_bundlevars => MInv'
  <1> SUFFICES ASSUME MInv, [BundleNext]_bundlevars PROVE MInv'
    OBVIOUS
  <1>1. CASE UNCHANGED bundlevars
    <2>1. /\ UNCHANGED <<written, fact, status, superseded_by, contradicts>>
          /\ UNCHANGED <<files, imports, importing, torn, branched>>
      BY <1>1 DEF bundlevars, written_vars, rows, exchanged
    <2>2. Kept
      BY <2>1 DEF Kept, Has
    <2>3. BundleTypeOK' /\ Lines'
      BY <2>1 DEF MInv, BundleTypeOK, Lines, Leads, Has
    <2>4. \A m \in Library : Pass(m)' /\ Merged(m)'
      BY <2>1, <2>2, OtherStays DEF Rests
    <2>5. QED
      BY <2>1, <2>2, <2>3, <2>4, FilesKept DEF MInv
  <1>2. ASSUME NEW l \in Library, NEW i \in Entry,
               Revise(l, i) \/ \E to \in {"live", "rejected"} : Judge(l, i, to)
        PROVE  MInv'
    BY <1>2, ReviseMerges, JudgeMerges
  <1>3. ASSUME NEW l \in Library,
               \/ Remember(l) \/ WriteFile(l)
               \/ \E bundle \in files, pending \in BOOLEAN : Import(l, bundle, pending)
        PROVE  MInv'
    BY <1>3, RememberMerges, WriteFileMerges, ImportMerges
  <1>4. ASSUME NEW l \in Library, InsertRow(l) \/ Inserted(l)
        PROVE  MInv'
    BY <1>4, InsertRowMerges, InsertedMerges
  <1>5. ASSUME NEW l \in Library, FastForward(l) \/ Fork(l) \/ Dispute(l) \/ Agrees(l)
        PROVE  MInv'
    BY <1>5, FastForwardMerges, ForkMerges, DisputeMerges, AgreesMerges
  <1>6. ASSUME NEW l \in Library, (\E e \in Entry \X Entry : Edge(l, e)) \/ Imported(l)
        PROVE  MInv'
    BY <1>6, BundleEdgeMerges, ImportedMerges
  <1>7. ASSUME NEW l \in Library, Stops(l) PROVE MInv'
    BY <1>7, StopMerges DEF Stops
  <1>8. QED
    BY <1>1, <1>2, <1>3, <1>4, <1>5, <1>6, <1>7 DEF BundleNext

LEMMA MergesInvariance == BundleSpec => []MInv
  BY InitMerges, NextMerges, PTL DEF BundleSpec

(* The columns of every library are what the schema says, pointers and edges
   name rows that are there (the foreign keys of `entries` and `links`), and a
   bundle file or a running import is a well-formed one. *)
THEOREM BundleTypeCorrect == BundleSpec => []BundleTypeOK
  <1>1. MInv => BundleTypeOK
    BY DEF MInv
  <1>2. QED
    BY <1>1, MergesInvariance, PTL

(* Two lines of one fact that both end in a library are one line. *)
LEMMA OneTrunk ==
  ASSUME BundleTypeOK, Lines, NEW l \in Library, NEW k \in Entry, NEW m \in Entry,
         NEW S, Trunk(l, k, S), NEW R, Trunk(l, m, R), fact[m] = fact[k],
         superseded_by[l][k] = None, superseded_by[l][m] = None
  PROVE  k = m
  <1> DEFINE T == {n \in Nat : \A j \in S : j <= n => j \in R}
  <1>1. S \subseteq Entry /\ R \subseteq Entry /\ Entry \subseteq Nat /\ MaxEntries \in Nat
        /\ None \notin Entry
    BY EntryBound DEF Trunk
  <1>2. 0 \in T
    <2>1. \A j \in Entry : ~(j <= 0)
      BY <1>1 DEF Entry
    <2>2. QED
      BY <1>1, <2>1
  <1>3. ASSUME NEW n \in Nat, n \in T PROVE n + 1 \in T
    <2>1. SUFFICES ASSUME NEW j \in S, j = n + 1 PROVE j \in R
      BY <1>1, <1>3
    <2>2. CASE j = fact[k]
      BY <2>2 DEF Trunk
    <2>3. CASE j # fact[k]
      <3>1. PICK i \in S : superseded_by[l][i] = j
        BY <2>3 DEF Trunk
      <3>2. i < j
        BY <1>1, <3>1 DEF Lines
      <3>3. i \in R
        BY <1>1, <1>3, <2>1, <3>2
      <3>4. i # m
        BY <1>1, <3>1
      <3>5. QED
        BY <3>1, <3>3, <3>4 DEF Trunk
    <2>4. QED
      BY <2>2, <2>3
  <1>4. MaxEntries \in T
    <2> HIDE DEF T
    <2>1. QED
      BY <1>1, <1>2, <1>3, SetInduction
  <1>5. k \in R
    BY <1>1, <1>4 DEF Trunk, Entry
  <1>6. QED
    BY <1>1, <1>5 DEF Trunk

(* "Forked supersession never auto-resolves" (bundle.rs): however bundles are
   passed around, between any number of libraries whose sessions and desks go
   on meanwhile, a whole import leaves no fact with two live heads. *)
THEOREM MergeNeverDoublesHolds == BundleSpec => []MergeNeverDoublesAFact
  <1>1. MInv => MergeNeverDoublesAFact
    <2> SUFFICES ASSUME MInv, NEW l \in Library, NEW f \in Entry,
                        importing[l] = Idle, l \notin torn, f \notin branched
                 PROVE  Cardinality(Circulating(l, f)) <= 1
      BY DEF MergeNeverDoublesAFact
    <2>1. BundleTypeOK /\ Lines /\ Merged(l)
      BY DEF MInv
    <2>2. ASSUME NEW k \in Circulating(l, f)
          PROVE  k \in Entry /\ fact[k] = f /\ Circulates(l, k) /\ Trunked(l, k)
      <3>1. k \in Entry /\ fact[k] = f /\ Circulates(l, k)
        BY DEF Circulating, Circulates
      <3>2. ~Due(l, k)
        BY DEF Due, Idle, Blank
      <3>3. QED
        BY <2>1, <3>1, <3>2 DEF Merged
    <2>3. ASSUME NEW k \in Circulating(l, f), NEW m \in Circulating(l, f) PROVE k = m
      <3>1. PICK S \in SUBSET Entry : Trunk(l, k, S)
        BY <2>2 DEF Trunked
      <3>2. PICK R \in SUBSET Entry : Trunk(l, m, R)
        BY <2>2 DEF Trunked
      <3>3. QED
        BY <2>1, <2>2, <3>1, <3>2, OneTrunk DEF Circulates
    <2>4. CASE Circulating(l, f) = {}
      BY <2>4, FS_EmptySet
    <2>5. CASE Circulating(l, f) # {}
      <3>1. PICK k \in Circulating(l, f) : TRUE
        BY <2>5
      <3>2. Circulating(l, f) = {k}
        BY <2>3, <3>1
      <3>3. Cardinality({k}) = 1
        BY FS_Singleton
      <3>4. QED
        BY <3>2, <3>3
    <2>6. QED
      BY <2>4, <2>5
  <1>2. QED
    BY <1>1, MergesInvariance, PTL

(* Pointer reconciliation (pass 2 of `import`) leaves none out: at the end of an
   import each pointer of the bundle is the library's too, or an edge names the
   dispute over its fact. *)
THEOREM PointersAccountedHolds == BundleSpec => PointersAccountedFor
  <1>1. MInv /\ [BundleNext]_bundlevars =>
          [\A l \in Library :
             Imported(l) =>
               \A i \in importing[l].bundle.entries :
                 LET next == importing[l].bundle.next[i]
                 IN  next # None =>
                       \/ superseded_by[l][i] = next
                       \/ \E e \in contradicts[l] : fact[e[1]] = fact[i]]_bundlevars
    <2> SUFFICES ASSUME MInv, NEW l \in Library, Imported(l),
                        NEW i \in importing[l].bundle.entries,
                        importing[l].bundle.next[i] # None
                 PROVE  \/ superseded_by[l][i] = importing[l].bundle.next[i]
                        \/ \E e \in contradicts[l] : fact[e[1]] = fact[i]
      OBVIOUS
    <2>1. Pass(l) /\ importing[l].at = "pointers" /\ importing[l].todo = {}
      BY DEF MInv, Imported
    <2>2. QED
      BY <2>1 DEF Pass, Accounted
  <1>2. QED
    BY <1>1, MergesInvariance, PTL DEF BundleSpec, PointersAccountedFor
=============================================================================
