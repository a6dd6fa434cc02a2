---------------------------- MODULE StacksProofs -----------------------------
(***************************************************************************)
(* Proofs about the restricted stacks, for any names, terminals, sessions, *)
(* rows, keys and times: whatever commands interleave, material rests only *)
(* in live heads and in the shelf's mode, it opens with the keystore's key *)
(* unless that key was overwritten, and an agent that got a value held a   *)
(* grant and has a ledger line.                                            *)
(***************************************************************************)
EXTENDS Custody, Walks, TLAPS

(* A set that has its key. *)
Sealing(c) == c.at \in {"sealing", "store"}

(* A reader whose ledger line is written. *)
PastTheLedger(c) ==
  c.at = "open" \/ c.got \/ (c.op = "secret_read" /\ c.at \in {"mint", "key"})

(* What a command in flight has read and may still rely on. *)
Holds(p, c) ==
  /\ c.at = "mint" =>
       /\ c.key \in 1..minted
       /\ c.op \in {"set", "read", "secret_read"}
       /\ c.op = "set" => c.name \in Name
  /\ Sealing(c) => c.name \in Name /\ c.key \in (1..minted) \cup {Plain}
  /\ Sealing(c) /\ ~overwritten => c.key \in {Plain, item}
  /\ c.at = "store" => mode = ModeOf(c.key)
  /\ c.at = "shred" => c.row \in Rows
  /\ c.at = "grant" => c.name \in Name /\ c.to \in Actor
  /\ c.at = "claim" => c.name \in Name
  /\ c.at = "key" => c.op = "secret_read"
  /\ PastTheLedger(c) => c.said = "disclosure"
  /\ p \in Session =>
       /\ c.op \in {"none", "secret_read"}
       /\ c.granted \/ PastTheLedger(c) => c.covered

Calls == \A p \in Process : Holds(p, doing[p])

NamedRows == \A i \in Rows : name[i] \in Name

IInv ==
  /\ TypeOK
  /\ Calls
  /\ NamedRows
  /\ OnlyTheStockIsSealed
  /\ ShelfKeepsItsMode
  /\ SealedStockOpensUnlessOverwritten

-----------------------------------------------------------------------------
(* NULL is none of the numbers or names, and the ranges are of integers. *)
LEMMA Numbers ==
  /\ None \notin Id /\ None \notin Key /\ None # Plain /\ None \notin Name
  /\ Id \subseteq Nat /\ Key \subseteq Nat /\ Plain \notin Key /\ Plain \in Int
  /\ MaxRows \in Nat /\ MaxKeys \in Nat /\ Forever \in Nat
  BY BoundsAssumption, NoneAssumption DEF Id, Key, Plain, Forever

(* A command that has ended remembers nothing but its ledger line. *)
LEMMA IdleIsACall ==
  /\ Idle \in Call
  /\ Idle.at = "idle" /\ Idle.op = "none" /\ Idle.got = FALSE /\ Idle.granted = FALSE
  <1>1. 0 \in 0..Forever
    BY BoundsAssumption DEF Forever
  <1>2. QED
    BY <1>1 DEF Idle, Call

(* A process between commands relies on nothing. *)
LEMMA IdleHolds ==
  ASSUME NEW p \in Process
  PROVE  Holds(p, Idle)
  BY IdleIsACall DEF Holds, Sealing, PastTheLedger

(* Nor does one whose command ended without the value. *)
LEMMA EndsHolds ==
  ASSUME NEW p \in Process, NEW c \in Call
  PROVE  Ends(c) \in Call /\ Holds(p, Ends(c))
  <1>1. c.said \in {"nothing", "disclosure"}
    BY DEF Call
  <1>2. Ends(c) \in Call
    BY <1>1, IdleIsACall DEF Ends, Call
  <1>3. Ends(c).at = "idle" /\ Ends(c).op = "none"
        /\ Ends(c).got = FALSE /\ Ends(c).granted = FALSE
    BY DEF Idle, Ends
  <1>4. QED
    BY <1>2, <1>3 DEF Holds, Sealing, PastTheLedger

(* A step of one command disturbs no other whose knowledge survives it. *)
LEMMA OthersGoOn ==
  ASSUME TypeOK, Calls, NEW p \in Process, NEW c \in Call,
         doing' = [doing EXCEPT ![p] = c], Holds(p, c)',
         \A q \in Process, d \in Call : Holds(q, d) => Holds(q, d)'
  PROVE  doing' \in [Process -> Call] /\ Calls'
  <1>1. doing' \in [Process -> Call] /\ doing'[p] = c
    BY DEF TypeOK
  <1>2. ASSUME NEW q \in Process
        PROVE  Holds(q, doing[q])'
    <2>1. CASE q = p
      BY <1>1, <2>1 DEF Holds, Sealing, PastTheLedger, ModeOf
    <2>2. CASE q # p
      <3>1. PICK d \in Call : d = doing[q] /\ doing'[q] = d
        BY <2>2 DEF TypeOK
      <3>2. Holds(q, d)'
        BY <3>1 DEF Calls
      <3>3. QED
        BY <3>1, <3>2 DEF Holds, Sealing, PastTheLedger, ModeOf
    <2>3. QED
      BY <2>1, <2>2
  <1>3. QED
    BY <1>1, <1>2 DEF Calls

(* What commands know depends on the rows, the mode and the keys only, ... *)
LEMMA KnowledgeOfReads ==
  ASSUME UNCHANGED <<rows, mode, keys>>
  PROVE  \A q \in Process, d \in Call : Holds(q, d) => Holds(q, d)'
  BY DEF Holds, Sealing, PastTheLedger, ModeOf, Rows, keys

Expiries == [Name \X (Actor \cup Claim) -> 0..Forever]

(* ... so a step that leaves those alone keeps what holds of them, ... *)
LEMMA ShelfUntouched ==
  ASSUME IInv, doing' \in [Process -> Call], Calls',
         grants' \in Expiries, now' \in 0..MaxTime, UNCHANGED <<stock, mode, keys>>
  PROVE  IInv'
  <1>1. TypeOK'
    BY DEF IInv, TypeOK, stock, keys, Rows, Expiries
  <1>2. NamedRows' /\ OnlyTheStockIsSealed'
    BY DEF IInv, NamedRows, OnlyTheStockIsSealed, Stock, Rows, stock
  <1>3. ShelfKeepsItsMode' /\ SealedStockOpensUnlessOverwritten'
    BY DEF IInv, ShelfKeepsItsMode, SealedStockOpensUnlessOverwritten,
           SealedStockOpens, ModeOf, Rows, stock, keys
  <1>4. QED
    BY <1>1, <1>2, <1>3 DEF IInv

(* ... and so does one that only moves a command on. *)
LEMMA CommandGoesOn ==
  ASSUME IInv, NEW p \in Process, NEW c \in Call,
         doing' = [doing EXCEPT ![p] = c], Holds(p, c),
         grants' \in Expiries, now' \in 0..MaxTime, UNCHANGED <<stock, mode, keys>>
  PROVE  IInv'
  <1>1. UNCHANGED <<rows, mode, keys>>
    BY DEF stock
  <1>2. Holds(p, c)'
    BY <1>1, KnowledgeOfReads
  <1>3. doing' \in [Process -> Call] /\ Calls'
    BY <1>1, <1>2, KnowledgeOfReads, OthersGoOn DEF IInv
  <1>4. QED
    BY <1>3, ShelfUntouched

(* The same for a step that only reads. *)
LEMMA ReadingStep ==
  ASSUME IInv, NEW p \in Process, NEW c \in Call,
         doing' = [doing EXCEPT ![p] = c], Holds(p, c),
         UNCHANGED <<stock, mode, grants, keys, now>>
  PROVE  IInv'
  BY CommandGoesOn DEF IInv, TypeOK, Expiries

-----------------------------------------------------------------------------
(* The empty shelf satisfies the inductive invariant. *)
LEMMA InitIInv == Init => IInv
  <1> SUFFICES ASSUME Init PROVE IInv
    OBVIOUS
  <1>1. Rows = {}
    BY DEF Init, Rows
  <1>2. \A p \in Process : doing[p] = Idle
    BY DEF Init
  <1>3. doing \in [Process -> Call] /\ Calls
    BY <1>2, IdleHolds, IdleIsACall DEF Init, Calls
  <1>4. grants \in [Name \X (Actor \cup Claim) -> 0..Forever]
    <2>1. PICK legacy \in SUBSET (Name \X Claim) :
            grants = [g \in Name \X (Actor \cup Claim) |->
                        IF g \in legacy THEN Forever ELSE 0]
      BY DEF Init
    <2>2. 0 \in 0..Forever /\ Forever \in 0..Forever
      BY Numbers
    <2>3. QED
      BY <2>1, <2>2
  <1>5. TypeOK
    <2>1. /\ 0 \in 0..MaxRows /\ 0 \in 0..MaxKeys /\ 0 \in 0..MaxTime
          /\ rows = 0 /\ minted = 0 /\ now = 0
      BY BoundsAssumption DEF Init
    <2>2. /\ name \in [Id -> Name \cup {None}]
          /\ sealed \in [Id -> Key \cup {Plain, None}]
          /\ superseded_by \in [Id -> Id \cup {None}]
          /\ shredded \in [Id -> BOOLEAN]
          /\ \A i \in Id : sealed[i] = None /\ superseded_by[i] = None /\ ~shredded[i]
      BY DEF Init
    <2>3. item = None /\ mode = None /\ overwritten = FALSE
      BY DEF Init
    <2>4. QED
      BY <1>1, <1>3, <1>4, <2>1, <2>2, <2>3 DEF TypeOK
  <1>6. QED
    BY <1>1, <1>3, <1>5, Numbers
       DEF Init, IInv, NamedRows, OnlyTheStockIsSealed, Stock, ShelfKeepsItsMode,
           SealedStockOpensUnlessOverwritten, SealedStockOpens, Key

(* Only what is retired loses its material here: the rows, their names and
   their links are as they were. *)
LEMMA FewerSealed ==
  ASSUME IInv, NEW row \in Rows,
         sealed' = [sealed EXCEPT ![row] = None],
         shredded' = [shredded EXCEPT ![row] = TRUE],
         UNCHANGED <<rows, name, superseded_by, mode, keys>>
  PROVE  /\ OnlyTheStockIsSealed' /\ ShelfKeepsItsMode'
         /\ SealedStockOpensUnlessOverwritten'
  <1>1. row \in Id /\ Rows' = Rows /\ Rows \subseteq Id
    BY Numbers DEF IInv, TypeOK, Rows, Id
  <1>2. \A i \in Rows : sealed'[i] \in {sealed[i], None}
                      /\ (sealed'[i] = None <=> sealed[i] = None \/ i = row)
    BY <1>1 DEF IInv, TypeOK
  <1>3. \A n \in Name : Stock(n)' = Stock(n) \ {row}
    <2>1. \A i \in Rows : ~shredded'[i] <=> ~shredded[i] /\ i # row
      BY <1>1 DEF IInv, TypeOK
    <2>2. QED
      BY <1>1, <2>1 DEF Stock
  <1>4. OnlyTheStockIsSealed'
    BY <1>1, <1>2, <1>3 DEF IInv, OnlyTheStockIsSealed, NamedRows
  <1>5. ShelfKeepsItsMode' /\ SealedStockOpensUnlessOverwritten'
    BY <1>1, <1>2, Numbers
       DEF IInv, ShelfKeepsItsMode, SealedStockOpensUnlessOverwritten,
           SealedStockOpens, ModeOf, keys
  <1>6. QED
    BY <1>4, <1>5

(* shred destroys the row it found, whatever became of it since. *)
LEMMA ShredStep ==
  ASSUME IInv, NEW h \in Hand, Shred(h)
  PROVE  IInv'
  <1>1. PICK row \in Rows : row = doing[h].row
    BY DEF Shred, At, IInv, Calls, Holds, Process
  <1>2. /\ sealed' = [sealed EXCEPT ![row] = None]
        /\ shredded' = [shredded EXCEPT ![row] = TRUE]
        /\ doing' = [doing EXCEPT ![h] = Idle]
        /\ UNCHANGED <<rows, name, superseded_by, mode, grants, keys, now>>
    BY <1>1 DEF Shred, Goes
  <1>3. doing' \in [Process -> Call] /\ Calls'
    <2>1. h \in Process /\ Idle \in Call /\ Holds(h, Idle)
      BY IdleHolds, IdleIsACall DEF Process
    <2>2. \A q \in Process, d \in Call : Holds(q, d) => Holds(q, d)'
      BY <1>2, KnowledgeOfReads
    <2>3. Holds(h, Idle)'
      BY <2>1, <2>2
    <2>4. QED
      BY <1>2, <2>1, <2>2, <2>3, OthersGoOn DEF IInv
  <1>4. TypeOK'
    BY <1>2, <1>3, Numbers DEF IInv, TypeOK, Rows, keys, Id
  <1>5. NamedRows'
    BY <1>2 DEF IInv, NamedRows, Rows
  <1>6. QED
    BY <1>2, <1>3, <1>4, <1>5, FewerSealed DEF IInv

-----------------------------------------------------------------------------
(* The steps that read, witness, or write a grant. *)

LEMMA StopsStep ==
  ASSUME IInv, NEW p \in Process, Stops(p)
  PROVE  IInv'
  BY IdleHolds, IdleIsACall, ReadingStep DEF Stops, Goes

(* No command relies on the clock. *)
LEMMA TickStep ==
  ASSUME IInv, Tick
  PROVE  IInv'
  <1>1. now' \in 0..MaxTime
    BY BoundsAssumption DEF IInv, TypeOK, Tick
  <1>2. UNCHANGED <<rows, mode, keys, doing>>
    BY DEF Tick, stock
  <1>3. doing' \in [Process -> Call] /\ Calls'
    <2>1. doing' \in [Process -> Call]
      BY <1>2 DEF IInv, TypeOK
    <2>2. QED
      BY <1>2, <2>1 DEF IInv, Calls, Holds, Sealing, PastTheLedger, ModeOf, Rows, keys
  <1>4. QED
    BY <1>1, <1>3, ShelfUntouched DEF Tick, IInv, TypeOK, Expiries

(* A shred has found a row of the shelf. *)
LEMMA FindShredStep ==
  ASSUME IInv, NEW h \in Hand, NEW n \in Name, FindShred(h, n)
  PROVE  IInv'
  <1>1. FirstRow(Stock(n)) \in Rows /\ Rows \subseteq Id
    <2>1. Rows \subseteq Id
      BY Numbers DEF IInv, TypeOK, Rows, Id
    <2>2. PICK i \in Stock(n) : TRUE
      BY DEF FindShred
    <2>3. \A j, k \in Stock(n) : j <= k
      BY <2>1, Numbers DEF IInv, OnlyTheStockIsSealed, Stock
    <2>4. FirstRow(Stock(n)) \in Stock(n)
      BY <2>2, <2>3 DEF FirstRow
    <2>5. QED
      BY <2>1, <2>4 DEF Stock
  <1>2. PICK c \in Call :
          c = [Idle EXCEPT !.op = "shred", !.at = "shred", !.name = n,
                           !.row = FirstRow(Stock(n))]
    BY <1>1, IdleIsACall DEF Call
  <1>3. c.at = "shred" /\ c.op = "shred" /\ c.row \in Rows
        /\ c.got = FALSE
    BY <1>1, <1>2, IdleIsACall DEF Idle
  <1>4. h \in Process /\ h \notin Session
    BY ActorsAreSeparate DEF Process
  <1>5. Holds(h, c)
    BY <1>3, <1>4 DEF Holds, Sealing, PastTheLedger
  <1>6. QED
    BY <1>2, <1>4, <1>5, ReadingStep DEF FindShred, Begin, Goes

(* A grant has its name and its actor. *)
LEMMA CheckGrantStep ==
  ASSUME IInv, NEW h \in Hand, NEW n \in Name, NEW a \in Actor,
         NEW until \in 1..Forever, CheckGrant(h, n, a, until)
  PROVE  IInv'
  <1>1. until \in 0..Forever
    BY Numbers
  <1>2. PICK c \in Call :
          c = [Idle EXCEPT !.op = "grant", !.at = "grant", !.name = n,
                           !.to = a, !.until = until]
    BY <1>1, IdleIsACall DEF Call
  <1>3. c.at = "grant" /\ c.op = "grant" /\ c.name = n /\ c.to = a
        /\ c.got = FALSE
    BY <1>2, IdleIsACall DEF Idle
  <1>4. h \in Process /\ h \notin Session
    BY ActorsAreSeparate DEF Process
  <1>5. Holds(h, c)
    BY <1>3, <1>4 DEF Holds, Sealing, PastTheLedger
  <1>6. QED
    BY <1>2, <1>4, <1>5, ReadingStep DEF CheckGrant, Begin, Goes

(* A grant written leaves the stock and every other command alone. *)
LEMMA GrantStep ==
  ASSUME IInv, NEW h \in Hand, Grant(h)
  PROVE  IInv'
  <1>1. h \in Process /\ doing[h] \in Call /\ Holds(h, doing[h])
    BY DEF IInv, TypeOK, Calls, Process
  <1>2. doing[h].name \in Name /\ doing[h].to \in Actor /\ doing[h].until \in 0..Forever
    BY <1>1 DEF Grant, At, Holds, Call
  <1>3. grants' \in Expiries
    BY <1>2 DEF Grant, IInv, TypeOK, Expiries
  <1>4. QED
    BY <1>1, <1>3, IdleHolds, IdleIsACall, CommandGoesOn DEF Grant, Goes, IInv, TypeOK

(* So does a row of the grants that goes, for an actor or a name. *)
LEMMA RevokeStep ==
  ASSUME IInv, NEW h \in Hand, NEW n \in Name, NEW g \in Actor \cup Claim,
         grants' = [grants EXCEPT ![<<n, g>>] = 0],
         UNCHANGED <<stock, mode, keys, now, doing>>
  PROVE  IInv'
  <1>1. grants' \in Expiries
    BY Numbers DEF IInv, TypeOK, Expiries
  <1>2. PICK c \in Call : c = doing[h] /\ Holds(h, c)
    BY DEF IInv, TypeOK, Calls, Process
  <1>3. doing' = [doing EXCEPT ![h] = c]
    BY <1>2 DEF IInv, TypeOK
  <1>4. h \in Process
    BY DEF Process
  <1>5. QED
    BY <1>1, <1>2, <1>3, <1>4, CommandGoesOn DEF IInv, TypeOK

-----------------------------------------------------------------------------
(* The reader's steps.  A grant that a query finds live covers the call. *)

LEMMA LiveCovers ==
  ASSUME IInv, NEW s \in Session, NEW c \in Call, c.name \in Name,
         NEW g \in {ActorOf[s], ClaimOf[s]}, Live(c.name, g)
  PROVE  Covers(s, c)
  <1>1. grants[<<c.name, g>>] \in Int /\ now \in Int
    BY Numbers, BoundsAssumption DEF IInv, TypeOK, Actor, Claim
  <1>2. QED
    BY <1>1 DEF Live, Covers

(* A call covered by its first query goes on granted and covered. *)
LEMMA SecretReadStep ==
  ASSUME IInv, NEW s \in Session, NEW n \in Name, SecretRead(s, n)
  PROVE  IInv'
  <1>1. PICK asked \in Call : asked = [Idle EXCEPT !.op = "secret_read", !.name = n]
    BY IdleIsACall DEF Call
  <1>2. asked.name = n /\ asked.op = "secret_read" /\ asked.got = FALSE
    BY <1>1, IdleIsACall DEF Idle
  <1>3. PICK live \in BOOLEAN : live = Live(n, ActorOf[s])
    <2>1. Live(n, ActorOf[s]) \in BOOLEAN
      BY DEF Live
    <2>2. QED
      BY <2>1, Zenon
  <1>4. PICK covered \in BOOLEAN : covered = Covers(s, asked)
    BY DEF Covers, Call
  <1>5. live => covered
    BY <1>2, <1>3, <1>4, LiveCovers
  <1>6. PICK c \in Call :
          c = [asked EXCEPT !.at = IF live THEN "look" ELSE "claim",
                            !.granted = live, !.covered = covered]
    BY DEF Call
  <1>7. /\ c.at \in {"look", "claim"} /\ c.op = "secret_read" /\ c.name = n
        /\ c.got = FALSE /\ c.granted = live /\ c.covered = covered
    BY <1>2, <1>6 DEF Call
  <1>8. Holds(s, c)
    BY <1>5, <1>7 DEF Holds, Sealing, PastTheLedger
  <1>9. doing' = [doing EXCEPT ![s] = c]
    BY <1>1, <1>3, <1>4, <1>6 DEF SecretRead, Begin, Goes
  <1>10. s \in Process
    BY DEF Process
  <1>11. QED
    BY <1>8, <1>9, <1>10, ReadingStep DEF SecretRead

(* The second query covers it likewise. *)
LEMMA AskClaimStep ==
  ASSUME IInv, NEW s \in Session, AskClaim(s)
  PROVE  IInv'
  <1>1. PICK asked \in Call : asked = doing[s] /\ Holds(s, asked)
    BY DEF IInv, TypeOK, Calls, Process
  <1>2. asked.at = "claim" /\ asked.name \in Name
    BY <1>1 DEF AskClaim, At, Holds
  <1>3. PICK live \in BOOLEAN : live = Live(asked.name, ClaimOf[s])
    <2>1. Live(asked.name, ClaimOf[s]) \in BOOLEAN
      BY DEF Live
    <2>2. QED
      BY <2>1, Zenon
  <1>4. PICK covered \in BOOLEAN : covered = Covers(s, asked)
    BY DEF Covers, Call
  <1>5. live => covered
    BY <1>2, <1>3, <1>4, LiveCovers
  <1>6. PICK c \in Call : c = [asked EXCEPT !.at = "look", !.granted = live,
                                            !.covered = covered]
    BY DEF Call
  <1>7. /\ c.at = "look" /\ c.op = asked.op /\ c.got = asked.got
        /\ c.said = asked.said /\ c.granted = live /\ c.covered = covered
    BY <1>6 DEF Call
  <1>8. asked.covered => covered
    BY <1>4 DEF Covers
  <1>9. Holds(s, c)
    BY <1>1, <1>2, <1>5, <1>7, <1>8 DEF Holds, Sealing, PastTheLedger
  <1>10. doing' = [doing EXCEPT ![s] = c]
    BY <1>1, <1>3, <1>4, <1>6 DEF AskClaim, Goes
  <1>11. s \in Process
    BY DEF Process
  <1>12. QED
    BY <1>9, <1>10, <1>11, ReadingStep DEF AskClaim

(* The look at the stock changes nothing a command relies on. *)
LEMMA LookStep ==
  ASSUME IInv, NEW p \in Process, Look(p)
  PROVE  IInv'
  <1>1. PICK d \in Call : d = doing[p] /\ Holds(p, d) /\ d.at = "look"
    BY DEF IInv, TypeOK, Calls, Look, At
  <1>2. PICK found \in BOOLEAN : found = (Stock(d.name) # {})
    OBVIOUS
  <1>3. PICK c \in Call : c = [d EXCEPT !.at = "witness", !.found = found]
    BY DEF Call
  <1>4. /\ c.at = "witness" /\ c.op = d.op /\ c.got = d.got /\ c.said = d.said
        /\ c.granted = d.granted /\ c.covered = d.covered
    BY <1>3 DEF Call
  <1>5. Holds(p, c)
    BY <1>1, <1>4 DEF Holds, Sealing, PastTheLedger
  <1>6. doing' = [doing EXCEPT ![p] = c]
    BY <1>1, <1>2, <1>3 DEF Look, Goes
  <1>7. QED
    BY <1>5, <1>6, ReadingStep DEF Look

(* Only a granted reader gets past the ledger, with its line. *)
LEMMA WitnessStep ==
  ASSUME IInv, NEW p \in Process, Witness(p)
  PROVE  IInv'
  <1>1. PICK d \in Call : d = doing[p] /\ Holds(p, d) /\ d.at = "witness"
    BY DEF IInv, TypeOK, Calls, Witness, At
  <1>2. PICK next \in {"key", "open"} :
          next = IF d.op = "secret_read" THEN "key" ELSE "open"
    OBVIOUS
  <1>3. PICK said \in Call :
          said = [d EXCEPT !.at = next, !.said = "disclosure",
                           !.granted = FALSE, !.found = FALSE]
    <2>1. next \in {"idle", "mint", "sealing", "store", "shred", "grant", "claim",
                    "look", "witness", "key", "open"}
      BY <1>2
    <2>2. [d EXCEPT !.at = next, !.said = "disclosure",
                    !.granted = FALSE, !.found = FALSE] \in Call
      BY <2>1 DEF Call
    <2>3. QED
      BY <2>2, Zenon
  <1>4. /\ said.at = next /\ said.op = d.op /\ said.got = d.got
        /\ said.said = "disclosure" /\ said.granted = FALSE
        /\ said.covered = d.covered
    BY <1>3 DEF Call
  <1>5. PICK end \in Call : end = Ends(d) /\ Holds(p, end)
    BY EndsHolds
  <1>6. \/ doing' = [doing EXCEPT ![p] = end]
        \/ doing' = [doing EXCEPT ![p] = said] /\ d.granted /\ d.found
    BY <1>1, <1>2, <1>3, <1>5 DEF Witness, Goes, Unwitnessed
  <1>7. d.granted => Holds(p, said)
    BY <1>1, <1>2, <1>4 DEF Holds, Sealing, PastTheLedger
  <1>8. QED
    BY <1>5, <1>6, <1>7, ReadingStep DEF Witness

(* What is got is got past the ledger. *)
LEMMA OpenStep ==
  ASSUME IInv, NEW p \in Process, Open(p)
  PROVE  IInv'
  <1>1. PICK d \in Call : d = doing[p] /\ Holds(p, d) /\ d.at = "open"
    BY DEF IInv, TypeOK, Calls, Open, At
  <1>2. PICK opens \in BOOLEAN :
          opens = (\E i \in Stock(d.name) : Opens(d.key, sealed[i]))
    OBVIOUS
  <1>3. PICK end \in Call : end = Ends(d)
    BY EndsHolds
  <1>4. end.at = "idle" /\ end.op = "none" /\ end.granted = FALSE /\ end.said = d.said
    BY <1>3 DEF Ends, Idle
  <1>5. PICK c \in Call : c = [end EXCEPT !.got = opens, !.covered = d.covered]
    <2>1. d.covered \in BOOLEAN
      BY DEF Call
    <2>2. [end EXCEPT !.got = opens, !.covered = d.covered] \in Call
      BY <2>1 DEF Call
    <2>3. QED
      BY <2>2, Zenon
  <1>6. /\ c.at = "idle" /\ c.op = "none" /\ c.granted = FALSE
        /\ c.said = d.said /\ c.covered = d.covered
    BY <1>4, <1>5 DEF Call
  <1>7. Holds(p, c)
    BY <1>1, <1>6 DEF Holds, Sealing, PastTheLedger
  <1>8. doing' = [doing EXCEPT ![p] = c]
    BY <1>1, <1>2, <1>3, <1>5 DEF Open, Goes
  <1>9. QED
    BY <1>7, <1>8, ReadingStep DEF Open

-----------------------------------------------------------------------------
(* The master key. *)

(* What a command that waits for its key must know of itself. *)
Asks(p, c) ==
  /\ c.op \in {"set", "read", "secret_read"}
  /\ c.op = "set" => c.name \in Name
  /\ c.got \/ c.op = "secret_read" => c.said = "disclosure"
  /\ p \in Session => c.op = "secret_read" /\ c.covered

(* A command that has its key is otherwise what it was. *)
LEMMA KeyedFields ==
  ASSUME NEW c \in Call, NEW k \in Key \cup {Plain},
         c.op \in {"set", "read", "secret_read"}
  PROVE  /\ Keyed(c, k) \in Call
         /\ Keyed(c, k).key = k
         /\ Keyed(c, k).at = IF c.op = "set" THEN "sealing"
                             ELSE IF c.op = "read" THEN "look" ELSE "open"
         /\ Keyed(c, k).op = c.op /\ Keyed(c, k).name = c.name
         /\ Keyed(c, k).got = c.got /\ Keyed(c, k).said = c.said
         /\ Keyed(c, k).granted = c.granted /\ Keyed(c, k).covered = c.covered
  <1>1. PICK at \in {"sealing", "look", "open"} :
          /\ at = IF c.op = "set" THEN "sealing"
                  ELSE IF c.op = "read" THEN "look" ELSE "open"
          /\ Keyed(c, k) = [c EXCEPT !.key = k, !.at = at]
    <2>1. CASE c.op = "set"
      BY <2>1 DEF Keyed
    <2>2. CASE c.op = "read"
      BY <2>2 DEF Keyed
    <2>3. CASE c.op = "secret_read"
      BY <2>3 DEF Keyed
    <2>4. QED
      BY <2>1, <2>2, <2>3
  <1>2. at \in {"idle", "mint", "sealing", "store", "shred", "grant", "claim",
                "look", "witness", "key", "open"}
    BY <1>1
  <1>3. [c EXCEPT !.key = k, !.at = at] \in Call
    BY <1>2 DEF Call
  <1>4. QED
    BY <1>1, <1>3 DEF Call

(* A command goes on with a key that is, or was never, the keystore's. *)
LEMMA KeyedHolds ==
  ASSUME NEW p \in Process, NEW c \in Call, Asks(p, c),
         NEW k \in Key \cup {Plain}, k \in (1..minted) \cup {Plain},
         ~overwritten => k \in {Plain, item},
         NEW d \in Call, d = Keyed(c, k)
  PROVE  Holds(p, d)
  BY KeyedFields DEF Asks, Holds, Sealing, PastTheLedger

(* Keys are numbered as they are minted. *)
LEMMA MintedKeys ==
  ASSUME TypeOK
  PROVE  /\ minted \in Nat /\ 1..minted \subseteq Key
         /\ item # None => item \in 1..minted
  BY Numbers DEF TypeOK, Key

(* A key fetched is the keystore's or none; a key minted is a new one. *)
LEMMA FetchStep ==
  ASSUME IInv, NEW p \in Process, NEW c \in Call, NEW accepts \in BOOLEAN,
         Asks(p, c), FetchKey(p, c, accepts)
  PROVE  IInv'
  <1>1. CASE \E k \in {Plain, item} : /\ k # None
                                      /\ doing' = [doing EXCEPT ![p] = Keyed(c, k)]
                                      /\ UNCHANGED minted
    <2>1. PICK k \in (1..minted) \cup {Plain} :
            k \in {Plain, item} /\ doing' = [doing EXCEPT ![p] = Keyed(c, k)]
      BY <1>1, MintedKeys DEF IInv
    <2>2. k \in Key \cup {Plain}
      BY <2>1, MintedKeys DEF IInv
    <2>3. PICK d \in Call : d = Keyed(c, k)
      BY <2>2, KeyedFields DEF Asks
    <2>4. Holds(p, d)
      BY <2>1, <2>2, <2>3, KeyedHolds
    <2>5. QED
      BY <1>1, <2>1, <2>3, <2>4, ReadingStep DEF FetchKey, keys
  <1>2. CASE doing' = [doing EXCEPT ![p] = Ends(c)] /\ UNCHANGED minted
    <2>1. PICK d \in Call : d = Ends(c) /\ Holds(p, d)
      BY EndsHolds
    <2>2. QED
      BY <1>2, <2>1, ReadingStep DEF FetchKey, keys
  <1>3. CASE /\ minted < MaxKeys /\ minted' = minted + 1
             /\ doing' = [doing EXCEPT ![p] = [c EXCEPT !.at = "mint", !.key = minted']]
    <2>1. /\ minted \in Nat /\ minted' \in 1..minted' /\ minted' \in Key
          /\ 1..minted \subseteq 1..minted' /\ minted' \in 0..MaxKeys
      BY <1>3, MintedKeys, Numbers DEF IInv, Key
    <2>2. PICK k \in Key : k = minted'
      BY <2>1
    <2>3. PICK d \in Call : d = [c EXCEPT !.at = "mint", !.key = k]
      <3>1. [c EXCEPT !.at = "mint", !.key = k] \in Call
        BY DEF Call
      <3>2. QED
        BY <3>1, Zenon
    <2>4. /\ d.at = "mint" /\ d.key = k /\ d.op = c.op /\ d.name = c.name
          /\ d.got = c.got /\ d.said = c.said /\ d.covered = c.covered
      BY <2>3 DEF Call
    <2>5. UNCHANGED <<stock, mode, grants, item, overwritten, now>>
      BY DEF FetchKey
    <2>6. \A q \in Process, e \in Call : Holds(q, e) => Holds(q, e)'
      BY <2>1, <2>5 DEF Holds, Sealing, PastTheLedger, ModeOf, Rows, stock
    <2>7. Holds(p, d)'
      BY <2>1, <2>2, <2>4 DEF Asks, Holds, Sealing, PastTheLedger
    <2>8. doing' = [doing EXCEPT ![p] = d]
      BY <1>3, <2>2, <2>3
    <2>9. doing' \in [Process -> Call] /\ Calls'
      BY <2>6, <2>7, <2>8, OthersGoOn DEF IInv
    <2>10. TypeOK'
      BY <2>1, <2>5, <2>9 DEF IInv, TypeOK, Rows, stock
    <2>11. NamedRows' /\ OnlyTheStockIsSealed'
      BY <2>5 DEF IInv, NamedRows, OnlyTheStockIsSealed, Stock, Rows, stock
    <2>12. ShelfKeepsItsMode' /\ SealedStockOpensUnlessOverwritten'
      BY <2>5 DEF IInv, ShelfKeepsItsMode, SealedStockOpensUnlessOverwritten,
                  SealedStockOpens, ModeOf, Rows, stock
    <2>13. QED
      BY <2>9, <2>10, <2>11, <2>12 DEF IInv
  <1>4. QED
    BY <1>1, <1>2, <1>3, Numbers DEF FetchKey, Goes

(* The stored key replaces nothing, or the shelf is marked as overwritten. *)
LEMMA StoreKeyStep ==
  ASSUME IInv, NEW p \in Process, StoreKey(p)
  PROVE  IInv'
  <1>1. PICK c \in Call : c = doing[p] /\ Holds(p, c) /\ c.at = "mint"
    BY DEF IInv, TypeOK, Calls, StoreKey, At
  <1>2. /\ c.key \in 1..minted /\ c.key \in Key
        /\ c.op \in {"set", "read", "secret_read"} /\ (c.op = "set" => c.name \in Name)
    BY <1>1, MintedKeys DEF Holds, IInv
  <1>3. CASE doing' = [doing EXCEPT ![p] = Ends(c)] /\ UNCHANGED <<item, overwritten>>
    <2>1. PICK d \in Call : d = Ends(c) /\ Holds(p, d)
      BY EndsHolds
    <2>2. QED
      BY <1>3, <2>1, ReadingStep DEF StoreKey, keys
  <1>4. CASE /\ item' = c.key /\ overwritten' = (overwritten \/ item # None)
             /\ doing' = [doing EXCEPT ![p] = Keyed(c, c.key)]
    <2>1. PICK d \in Call : d = Keyed(c, c.key)
      BY <1>2, KeyedFields
    <2>2. UNCHANGED <<stock, mode, grants, minted, now>>
      BY DEF StoreKey
    <2>3. ~overwritten' => ~overwritten /\ item = None
      BY <1>4, Zenon
    <2>4. /\ d.key = c.key /\ d.op = c.op /\ d.name = c.name
          /\ d.at = IF c.op = "set" THEN "sealing"
                    ELSE IF c.op = "read" THEN "look" ELSE "open"
          /\ d.got = c.got /\ d.said = c.said
          /\ d.granted = c.granted /\ d.covered = c.covered
      BY <1>2, <2>1, KeyedFields
    <2>5. ASSUME NEW q \in Process, NEW e \in Call, Holds(q, e)
          PROVE  Holds(q, e)'
      <3>1. Sealing(e) /\ ~overwritten' => e.key = Plain
        BY <2>3, <2>5, MintedKeys, Numbers DEF Holds, Sealing, IInv
      <3>2. QED
        BY <2>2, <2>5, <3>1 DEF Holds, Sealing, PastTheLedger, ModeOf, Rows, stock
    <2>6. Holds(p, d)'
      BY <1>1, <1>2, <1>4, <2>2, <2>4 DEF Holds, Sealing, PastTheLedger
    <2>7. doing' \in [Process -> Call] /\ Calls'
      BY <1>4, <2>1, <2>5, <2>6, OthersGoOn DEF IInv
    <2>8. TypeOK'
      BY <1>2, <1>4, <2>2, <2>7 DEF IInv, TypeOK, Rows, stock
    <2>9. NamedRows' /\ OnlyTheStockIsSealed' /\ ShelfKeepsItsMode'
      BY <2>2 DEF IInv, NamedRows, OnlyTheStockIsSealed, ShelfKeepsItsMode, ModeOf,
                  Stock, Rows, stock
    <2>10. SealedStockOpensUnlessOverwritten'
      <3>1. ~overwritten' => \A i \in Rows : sealed[i] \notin Key
        BY <2>3, Numbers DEF IInv, SealedStockOpensUnlessOverwritten, SealedStockOpens
      <3>2. CASE overwritten'
        BY <3>2, Zenon DEF SealedStockOpensUnlessOverwritten
      <3>3. CASE ~overwritten'
        <4>1. \A i \in Rows' : sealed'[i] \notin Key
          BY <2>2, <3>1, <3>3 DEF Rows, stock
        <4>2. QED
          BY <4>1, Zenon DEF SealedStockOpensUnlessOverwritten, SealedStockOpens
      <3>4. QED
        BY <3>2, <3>3
    <2>11. QED
      BY <2>7, <2>8, <2>9, <2>10 DEF IInv
  <1>5. QED
    BY <1>1, <1>3, <1>4 DEF StoreKey, Goes, Refused

(* An agent's session asks for the key past the ledger. *)
LEMMA AgentKeyStep ==
  ASSUME IInv, NEW s \in Session, AgentKey(s)
  PROVE  IInv'
  <1>1. PICK c \in Call : c = doing[s] /\ Holds(s, c) /\ c.at = "key"
    BY DEF IInv, TypeOK, Calls, AgentKey, At, Process
  <1>2. Asks(s, c)
    BY <1>1 DEF Asks, Holds, PastTheLedger
  <1>3. FetchKey(s, c, FALSE) /\ s \in Process
    BY <1>1 DEF AgentKey, Process
  <1>4. QED
    BY <1>2, <1>3, FetchStep

(* A terminal's command asks for the key first of all. *)
LEMMA ReadStep ==
  ASSUME IInv, NEW h \in Hand, NEW n \in Name, Read(h, n)
  PROVE  IInv'
  <1>1. PICK c \in Call : c = [Idle EXCEPT !.op = "read", !.name = n, !.granted = TRUE]
    <2>1. [Idle EXCEPT !.op = "read", !.name = n, !.granted = TRUE] \in Call
      BY IdleIsACall DEF Call
    <2>2. QED
      BY <2>1, Zenon
  <1>2. c.op = "read" /\ c.got = FALSE
    BY <1>1, IdleIsACall DEF Idle
  <1>3. h \in Process /\ h \notin Session
    BY ActorsAreSeparate DEF Process
  <1>4. Asks(h, c)
    BY <1>2, <1>3 DEF Asks
  <1>5. FetchKey(h, c, FALSE)
    BY <1>1 DEF Read
  <1>6. QED
    BY <1>3, <1>4, <1>5, FetchStep

(* And so does a set, whether or not it accepts plaintext. *)
LEMMA SetStep ==
  ASSUME IInv, NEW h \in Hand, NEW n \in Name, Set(h, n)
  PROVE  IInv'
  <1>1. PICK c \in Call : c = [Idle EXCEPT !.op = "set", !.name = n]
    <2>1. [Idle EXCEPT !.op = "set", !.name = n] \in Call
      BY IdleIsACall DEF Call
    <2>2. QED
      BY <2>1, Zenon
  <1>2. c.op = "set" /\ c.got = FALSE /\ c.name = n
    BY <1>1, IdleIsACall DEF Idle
  <1>3. h \in Process /\ h \notin Session
    BY ActorsAreSeparate DEF Process
  <1>4. Asks(h, c)
    BY <1>2, <1>3 DEF Asks
  <1>5. PICK accepts \in BOOLEAN : FetchKey(h, c, accepts)
    BY <1>1 DEF Set
  <1>6. QED
    BY <1>3, <1>4, <1>5, FetchStep

(* The mode that the first set wrote is the mode of every later one. *)
LEMMA SealingModeStep ==
  ASSUME IInv, NEW h \in Hand, SetSealingMode(h)
  PROVE  IInv'
  <1>1. PICK d \in Call : d = doing[h] /\ Holds(h, d) /\ d.at = "sealing"
    BY DEF IInv, TypeOK, Calls, SetSealingMode, At, Process
  <1>2. d.name \in Name /\ d.key \in (1..minted) \cup {Plain}
        /\ (~overwritten => d.key \in {Plain, item})
    BY <1>1 DEF Holds, Sealing
  <1>3. PICK c \in Call : c = [d EXCEPT !.at = "store"]
    <2>1. [d EXCEPT !.at = "store"] \in Call
      BY DEF Call
    <2>2. QED
      BY <2>1, Zenon
  <1>4. /\ c.at = "store" /\ c.op = d.op /\ c.name = d.name /\ c.key = d.key
        /\ c.got = d.got /\ c.said = d.said
        /\ c.granted = d.granted /\ c.covered = d.covered
    BY <1>3 DEF Call
  <1>5. /\ mode' = ModeOf(d.key) /\ mode \in {None, mode'}
        /\ doing' = [doing EXCEPT ![h] = c]
        /\ UNCHANGED <<stock, grants, keys, now>>
    BY <1>1, <1>3 DEF SetSealingMode, Sticks, Goes
  <1>6. mode # None => mode' = mode
    BY <1>5
  <1>7. \A k : ModeOf(k) # None
    BY NoneAssumption DEF ModeOf
  <1>8. \A q \in Process, e \in Call : Holds(q, e) => Holds(q, e)'
    BY <1>5, <1>6, <1>7 DEF Holds, Sealing, PastTheLedger, ModeOf, Rows, stock, keys
  <1>9. Holds(h, c)'
    BY <1>1, <1>2, <1>4, <1>5, ActorsAreSeparate
       DEF Holds, Sealing, PastTheLedger, ModeOf, keys
  <1>10. doing' \in [Process -> Call] /\ Calls'
    BY <1>5, <1>8, <1>9, OthersGoOn DEF IInv, Process
  <1>11. TypeOK'
    BY <1>5, <1>10 DEF IInv, TypeOK, ModeOf, Rows, stock, keys
  <1>12. NamedRows' /\ OnlyTheStockIsSealed'
    BY <1>5 DEF IInv, NamedRows, OnlyTheStockIsSealed, Stock, Rows, stock
  <1>13. ShelfKeepsItsMode'
    BY <1>5, <1>6, <1>7 DEF IInv, ShelfKeepsItsMode, ModeOf, Rows, stock
  <1>14. SealedStockOpensUnlessOverwritten'
    BY <1>5 DEF IInv, SealedStockOpensUnlessOverwritten, SealedStockOpens, Rows,
                stock, keys
  <1>15. QED
    BY <1>10, <1>11, <1>12, <1>13, <1>14 DEF IInv

(* A rotation leaves one live head, and material nowhere else. *)
LEMMA SetLockedStep ==
  ASSUME IInv, NEW h \in Hand, SetLocked(h)
  PROVE  IInv'
  <1>1. PICK c \in Call : c = doing[h] /\ Holds(h, c) /\ c.at = "store"
    BY DEF IInv, TypeOK, Calls, SetLocked, At, Process
  <1>2. /\ c.name \in Name /\ c.key \in (1..minted) \cup {Plain}
        /\ (~overwritten => c.key \in {Plain, item}) /\ mode = ModeOf(c.key)
    BY <1>1 DEF Holds, Sealing
  <1>3. PICK id \in Id : id = rows + 1
    BY DEF SetLocked
  <1>4. PICK prior \in SUBSET Rows : prior = Stock(c.name)
    BY DEF Stock
  <1>5. /\ rows' = id
        /\ name' = [name EXCEPT ![id] = c.name]
        /\ sealed' = Material(prior, id, c.key)
        /\ superseded_by' = Superseding(prior, id)
        /\ shredded' = [i \in Id |-> shredded[i] \/ i \in prior]
        /\ doing' = [doing EXCEPT ![h] = Idle]
        /\ UNCHANGED <<mode, grants, keys, now>>
    BY <1>1, <1>3, <1>4 DEF SetLocked, Goes
  <1>6. /\ rows \in Nat /\ id = rows + 1 /\ id <= MaxRows
        /\ Rows' = Rows \cup {id} /\ id \notin Rows /\ Rows \subseteq Id
        /\ Id \subseteq Int /\ \A i \in Rows : i < id
    BY <1>3, <1>5, Numbers DEF IInv, TypeOK, Rows, Id
  <1>7. c.key \in Key \cup {Plain} /\ c.key # None
    BY <1>2, MintedKeys, Numbers DEF IInv
  <1>8. \A i \in Rows : /\ name'[i] = name[i]
                        /\ sealed'[i] = IF i \in prior THEN None ELSE sealed[i]
                        /\ superseded_by'[i] = IF i \in prior THEN id ELSE superseded_by[i]
                        /\ (shredded'[i] <=> shredded[i] \/ i \in prior)
    BY <1>5, <1>6 DEF IInv, TypeOK, Material, Superseding
  <1>9. /\ name'[id] = c.name /\ sealed'[id] = c.key
        /\ superseded_by'[id] = None /\ ~shredded'[id]
    <2>1. id \in Id \ Rows /\ id \notin prior
      BY <1>6
    <2>2. superseded_by[id] = None /\ ~shredded[id]
      BY <2>1 DEF IInv, TypeOK
    <2>3. QED
      BY <1>5, <2>1, <2>2 DEF IInv, TypeOK, Material, Superseding
  <1>10. doing' \in [Process -> Call] /\ Calls'
    <2>1. h \in Process /\ Idle \in Call /\ Holds(h, Idle)
      BY IdleHolds, IdleIsACall DEF Process
    <2>2. \A q \in Process, d \in Call : Holds(q, d) => Holds(q, d)'
      BY <1>5, <1>6 DEF Holds, Sealing, PastTheLedger, ModeOf, keys
    <2>3. Holds(h, Idle)'
      BY <2>1, <2>2
    <2>4. QED
      BY <1>5, <2>1, <2>2, <2>3, OthersGoOn DEF IInv
  <1>11. TypeOK'
    <2>1. rows' \in 0..MaxRows
      BY <1>5, <1>6, Numbers
    <2>2. name' \in [Id -> Name \cup {None}] /\ shredded' \in [Id -> BOOLEAN]
      BY <1>2, <1>5 DEF IInv, TypeOK
    <2>3. /\ sealed' \in [Id -> Key \cup {Plain, None}]
          /\ superseded_by' \in [Id -> Id \cup {None}]
      BY <1>5, <1>7 DEF IInv, TypeOK, Material, Superseding
    <2>4. \A i \in Id \ Rows' :
            sealed'[i] = None /\ superseded_by'[i] = None /\ ~shredded'[i]
      BY <1>5, <1>6 DEF IInv, TypeOK, Material, Superseding
    <2>5. \A i \in Rows' : superseded_by'[i] \in ((i + 1)..rows') \cup {None}
      <3>1. ASSUME NEW i \in Rows
            PROVE  superseded_by'[i] \in ((i + 1)..rows') \cup {None}
        <4>1. superseded_by[i] \in ((i + 1)..rows) \cup {None}
          BY DEF IInv, TypeOK
        <4>2. superseded_by'[i] \in {superseded_by[i], id} /\ rows' = id
              /\ i \in Int /\ i < id
          BY <1>5, <1>6, <1>8
        <4>3. QED
          BY <1>6, <4>1, <4>2
      <3>2. QED
        BY <1>6, <1>9, <3>1
    <2>6. QED
      BY <1>5, <1>10, <2>1, <2>2, <2>3, <2>4, <2>5 DEF IInv, TypeOK, keys
  <1>12. NamedRows'
    BY <1>2, <1>6, <1>8, <1>9 DEF IInv, NamedRows
  <1>13. \A n \in Name : Stock(n)' = IF n = c.name THEN {id} ELSE Stock(n)
    <2>1. ASSUME NEW n \in Name, NEW i \in Rows
          PROVE  i \in Stock(n)' <=> i \in Stock(n) /\ n # c.name
      BY <1>3, <1>4, <1>6, <1>8, Numbers DEF Stock
    <2>2. \A n \in Name : id \in Stock(n)' <=> n = c.name
      BY <1>6, <1>9 DEF Stock
    <2>3. \A n \in Name : Stock(n)' \subseteq Rows \cup {id} /\ Stock(n) \subseteq Rows
      BY <1>6 DEF Stock
    <2>4. QED
      BY <1>6, <2>1, <2>2, <2>3
  <1>14. OnlyTheStockIsSealed'
    <2>1. \A n \in Name : \A i, j \in Stock(n)' : i = j
      BY <1>13 DEF IInv, OnlyTheStockIsSealed
    <2>2. ASSUME NEW i \in Rows
          PROVE  (sealed[i] # None <=> i \in Stock(name[i]))'
      <3>1. name[i] \in Name /\ name'[i] = name[i]
        BY <1>8 DEF IInv, NamedRows
      <3>2. sealed[i] # None <=> i \in Stock(name[i])
        BY DEF IInv, OnlyTheStockIsSealed
      <3>3. i \in prior <=> i \in Stock(name[i]) /\ name[i] = c.name
        BY <1>4 DEF Stock
      <3>4. Stock(name[i])' = IF name[i] = c.name THEN {id} ELSE Stock(name[i])
        BY <1>13, <3>1
      <3>5. QED
        BY <1>6, <1>8, <3>1, <3>2, <3>3, <3>4
    <2>3. (sealed[id] # None /\ id \in Stock(name[id]))'
      BY <1>2, <1>7, <1>9, <1>13
    <2>4. QED
      BY <1>6, <2>1, <2>2, <2>3 DEF OnlyTheStockIsSealed
  <1>15. ShelfKeepsItsMode'
    BY <1>2, <1>5, <1>6, <1>8, <1>9 DEF IInv, ShelfKeepsItsMode, ModeOf
  <1>16. SealedStockOpensUnlessOverwritten'
    <2>1. CASE overwritten
      BY <1>5, <2>1, Zenon DEF SealedStockOpensUnlessOverwritten, keys
    <2>2. CASE ~overwritten
      <3>1. SealedStockOpens
        BY <2>2, Zenon DEF IInv, SealedStockOpensUnlessOverwritten
      <3>2. c.key \in Key => c.key = item
        BY <1>2, <2>2, Numbers
      <3>3. \A i \in Rows' : sealed'[i] \in Key => sealed'[i] = item
        BY <1>6, <1>8, <1>9, <3>1, <3>2, Numbers DEF SealedStockOpens
      <3>4. QED
        BY <1>5, <3>3, Zenon DEF SealedStockOpensUnlessOverwritten, SealedStockOpens, keys
    <2>3. QED
      BY <2>1, <2>2
  <1>17. QED
    BY <1>10, <1>11, <1>12, <1>14, <1>15, <1>16 DEF IInv

-----------------------------------------------------------------------------
(* Every step keeps the inductive invariant. *)
LEMMA NextIInv ==
  ASSUME IInv, [Next]_vars
  PROVE  IInv'
  <1>1. ASSUME NEW h \in Hand, HandSteps(h)
        PROVE  IInv'
    <2>1. ASSUME NEW n \in Name, Set(h, n) PROVE IInv'
      BY <2>1, SetStep
    <2>2. ASSUME NEW n \in Name, FindShred(h, n) PROVE IInv'
      BY <2>2, FindShredStep
    <2>3. ASSUME NEW n \in Name, NEW a \in Actor, RevokeActor(h, n, a) PROVE IInv'
      BY <2>3, RevokeStep DEF RevokeActor
    <2>4. ASSUME NEW n \in Name, NEW a \in Actor, NEW until \in 1..Forever,
                 CheckGrant(h, n, a, until)
          PROVE  IInv'
      BY <2>4, CheckGrantStep
    <2>5. ASSUME NEW n \in Name, NEW typed \in Claim, RevokeName(h, n, typed) PROVE IInv'
      BY <2>5, RevokeStep DEF RevokeName
    <2>6. ASSUME NEW n \in Name, Read(h, n) PROVE IInv'
      BY <2>6, ReadStep
    <2>7. CASE SetSealingMode(h)
      BY <2>7, SealingModeStep
    <2>8. CASE SetLocked(h)
      BY <2>8, SetLockedStep
    <2>9. CASE Shred(h)
      BY <2>9, ShredStep
    <2>10. CASE Grant(h)
      BY <2>10, GrantStep
    <2>11. QED
      BY <1>1, <2>1, <2>2, <2>3, <2>4, <2>5, <2>6, <2>7, <2>8, <2>9, <2>10
         DEF HandSteps
  <1>2. ASSUME NEW s \in Session, SessionSteps(s)
        PROVE  IInv'
    BY <1>2, SecretReadStep, AskClaimStep, AgentKeyStep DEF SessionSteps
  <1>3. ASSUME NEW p \in Process,
               StoreKey(p) \/ Look(p) \/ Witness(p) \/ Open(p) \/ Stops(p)
        PROVE  IInv'
    BY <1>3, StoreKeyStep, LookStep, WitnessStep, OpenStep, StopsStep
  <1>4. CASE Tick
    BY <1>4, TickStep
  <1>5. CASE UNCHANGED vars
    <2>1. doing' \in [Process -> Call] /\ Calls'
      BY <1>5 DEF vars, stock, keys, IInv, TypeOK, Calls, Holds, Sealing,
                  PastTheLedger, ModeOf, Rows
    <2>2. QED
      BY <1>5, <2>1, ShelfUntouched DEF vars, IInv, TypeOK, Expiries
  <1>6. QED
    BY <1>1, <1>2, <1>3, <1>4, <1>5 DEF Next

LEMMA AlwaysIInv == Spec => []IInv
  BY InitIInv, NextIInv, PTL DEF Spec

(* The columns, the grants and what each command has read keep their types;
   rows beyond the last are blank and a row is replaced by a later one. *)
THEOREM TypeCorrect == Spec => []TypeOK
  <1>1. IInv => TypeOK
    BY DEF IInv
  <1>2. QED
    BY <1>1, AlwaysIInv, PTL

(* Whatever rotations and shreds interleave, a name has one live head at most
   and material rests in live heads only (set_locked, shred). *)
THEOREM OnlyTheStockHolds == Spec => []OnlyTheStockIsSealed
  <1>1. IInv => OnlyTheStockIsSealed
    BY DEF IInv
  <1>2. QED
    BY <1>1, AlwaysIInv, PTL

(* Every envelope is of the shelf's mode, however many first sets ran at once
   (key_for_set, set_sealing_mode). *)
THEOREM ShelfModeHolds == Spec => []ShelfKeepsItsMode
  <1>1. IInv => ShelfKeepsItsMode
    BY DEF IInv
  <1>2. QED
    BY <1>1, AlwaysIInv, PTL

(* Every sealed row opens with the keystore's key unless a mint replaced a key
   that was there (master_key). *)
THEOREM OpensUnlessOverwrittenHolds == Spec => []SealedStockOpensUnlessOverwritten
  <1>1. IInv => SealedStockOpensUnlessOverwritten
    BY DEF IInv
  <1>2. QED
    BY <1>1, AlwaysIInv, PTL

(* An agent that got a value held a live grant at a moment its own call asked
   (check_grant). *)
THEOREM GrantCoversHolds == Spec => []GrantCoversRead
  <1>1. IInv => GrantCoversRead
    BY DEF IInv, Calls, Holds, PastTheLedger, GrantCoversRead, Process
  <1>2. QED
    BY <1>1, AlwaysIInv, PTL

(* Whoever got a value has a ledger line of that very call (secret_read and
   the CLI's read: the witness comes before the value). *)
THEOREM WitnessedHolds == Spec => []WitnessedBeforeItMoves
  <1>1. IInv => WitnessedBeforeItMoves
    BY DEF IInv, Calls, Holds, PastTheLedger, WitnessedBeforeItMoves
  <1>2. QED
    BY <1>1, AlwaysIInv, PTL

(* Nothing is read that is not accounted for: whoever got a value held a live
   grant when its call asked and has a ledger line of that very call
   (secret_read, check_grant and the CLI's read). *)
THEOREM ReadsAccountedHolds == Spec => []ReadsAreAccountedFor
  <1>1. GrantCoversRead /\ WitnessedBeforeItMoves => ReadsAreAccountedFor
    BY DEF ReadsAreAccountedFor
  <1>2. QED
    BY <1>1, GrantCoversHolds, WitnessedHolds, PTL

-----------------------------------------------------------------------------
(* The rotation chain. *)

(* A pointer stays within its name, and no row replaced two. *)
Chained ==
  /\ \A i \in Rows : superseded_by[i] # None => name[superseded_by[i]] = name[i]
  /\ \A i, j \in Rows :
       superseded_by[i] # None /\ superseded_by[i] = superseded_by[j] => i = j

(* Only set_locked writes a row or a pointer. *)
LEMMA RowsStay ==
  ASSUME [Next]_vars
  PROVE  (\E h \in Hand : SetLocked(h)) \/ UNCHANGED <<rows, name, superseded_by>>
  <1>1. ASSUME NEW h \in Hand, HandSteps(h)
        PROVE  SetLocked(h) \/ UNCHANGED <<rows, name, superseded_by>>
    BY <1>1 DEF HandSteps, Set, FindShred, RevokeActor, CheckGrant, RevokeName, Read,
                SetSealingMode, Shred, Grant, FetchKey, stock
  <1>2. ASSUME NEW s \in Session, SessionSteps(s)
        PROVE  UNCHANGED <<rows, name, superseded_by>>
    BY <1>2 DEF SessionSteps, SecretRead, AskClaim, AgentKey, FetchKey, stock
  <1>3. ASSUME NEW p \in Process, StoreKey(p) \/ Look(p) \/ Witness(p) \/ Open(p) \/ Stops(p)
        PROVE  UNCHANGED <<rows, name, superseded_by>>
    BY <1>3 DEF StoreKey, Look, Witness, Open, Stops, stock
  <1>4. Tick \/ UNCHANGED vars => UNCHANGED <<rows, name, superseded_by>>
    BY DEF Tick, vars, stock
  <1>5. QED
    BY <1>1, <1>2, <1>3, <1>4 DEF Next

(* A set replaces the one live head of its name. *)
LEMMA SetLockedChains ==
  ASSUME IInv, Chained, NEW h \in Hand, SetLocked(h)
  PROVE  Chained'
  <1>1. PICK n \in Name : n = doing[h].name
    BY DEF IInv, TypeOK, Calls, Holds, Sealing, SetLocked, At, Process
  <1>2. PICK id \in Id : id = rows + 1
    BY DEF SetLocked
  <1>3. PICK prior \in SUBSET Rows : prior = Stock(n)
    BY DEF Stock
  <1>4. /\ rows' = id
        /\ name' = [name EXCEPT ![id] = n]
        /\ superseded_by' = Superseding(prior, id)
    BY <1>1, <1>2, <1>3 DEF SetLocked
  <1>5. /\ Rows' = Rows \cup {id} /\ id \notin Rows /\ Rows \subseteq Id
        /\ None \notin Id
    BY <1>2, <1>4, Numbers DEF IInv, TypeOK, Rows, Id
  <1>6. \A i \in prior : name[i] = n /\ superseded_by[i] = None
    BY <1>3 DEF Stock
  <1>7. \A i, j \in prior : i = j
    BY <1>3 DEF IInv, OnlyTheStockIsSealed
  <1>8. \A i \in Rows : superseded_by[i] \in Rows \cup {None}
    BY Numbers DEF IInv, TypeOK, Rows
  <1>9. \A i \in Rows : /\ name'[i] = name[i]
                        /\ superseded_by'[i] = IF i \in prior THEN id ELSE superseded_by[i]
    BY <1>4, <1>5 DEF IInv, TypeOK, Superseding
  <1>10. name'[id] = n /\ superseded_by'[id] = None
    <2>1. id \in Id \ Rows /\ id \notin prior
      BY <1>5
    <2>2. superseded_by[id] = None
      BY <2>1 DEF IInv, TypeOK
    <2>3. QED
      BY <1>4, <2>1, <2>2 DEF IInv, TypeOK, Superseding
  <1>11. ASSUME NEW i \in Rows', superseded_by'[i] # None
         PROVE  name'[superseded_by'[i]] = name'[i]
    <2>1. i \in Rows
      BY <1>5, <1>10, <1>11
    <2>2. CASE i \in prior
      BY <1>6, <1>9, <1>10, <2>1, <2>2
    <2>3. CASE i \notin prior
      <3>1. superseded_by'[i] = superseded_by[i] /\ superseded_by[i] \in Rows
        BY <1>8, <1>9, <1>11, <2>1, <2>3
      <3>2. QED
        BY <1>9, <1>11, <2>1, <3>1 DEF Chained
    <2>4. QED
      BY <2>2, <2>3
  <1>12. ASSUME NEW i \in Rows', NEW j \in Rows', superseded_by'[i] # None,
                superseded_by'[i] = superseded_by'[j]
         PROVE  i = j
    <2>1. i \in Rows /\ j \in Rows
      BY <1>5, <1>10, <1>12
    <2>2. i \in prior <=> j \in prior
      BY <1>5, <1>8, <1>9, <1>12, <2>1
    <2>3. CASE i \in prior
      BY <1>7, <2>2, <2>3
    <2>4. CASE i \notin prior
      <3>1. superseded_by[i] # None /\ superseded_by[i] = superseded_by[j]
        BY <1>9, <1>12, <2>1, <2>2, <2>4
      <3>2. QED
        BY <2>1, <3>1 DEF Chained
    <2>5. QED
      BY <2>3, <2>4
  <1>13. QED
    BY <1>11, <1>12 DEF Chained

LEMMA AlwaysChained == Spec => [](IInv /\ Chained)
  <1>1. Init => Chained
    BY DEF Init, Chained, Rows
  <1>2. IInv /\ Chained /\ [Next]_vars => Chained'
    <2>1. UNCHANGED <<rows, name, superseded_by>> /\ Chained => Chained'
      BY DEF Chained, Rows
    <2>2. QED
      BY <2>1, RowsStay, SetLockedChains
  <1>3. Spec => []Chained
    BY <1>1, <1>2, AlwaysIInv, PTL DEF Spec
  <1>4. QED
    BY <1>3, AlwaysIInv, PTL

-----------------------------------------------------------------------------
(* A row was written before the one that replaced it. *)
LEMMA Pointers ==
  ASSUME IInv
  PROVE  /\ rows \in Nat /\ None \notin Rows
         /\ \A i \in Rows : i \in Nat /\ i <= rows
         /\ \A i \in Rows : superseded_by[i] # None =>
              superseded_by[i] \in Rows /\ i < superseded_by[i]
  <1>1. /\ rows \in Nat /\ rows <= MaxRows /\ Rows \subseteq Id
        /\ \A i \in Rows : i \in Nat /\ i <= rows /\ superseded_by[i] \in ((i + 1)..rows) \cup {None}
    BY Numbers DEF IInv, TypeOK, Rows, Id
  <1>2. ASSUME NEW i \in Rows, superseded_by[i] # None
        PROVE  superseded_by[i] \in Rows /\ i < superseded_by[i]
    <2>1. superseded_by[i] \in (i + 1)..rows /\ i \in 1..rows
      BY <1>1, <1>2 DEF Rows
    <2>2. QED
      BY <1>1, <2>1 DEF Rows
  <1>3. QED
    BY <1>1, <1>2, Numbers

(* The row found before is the one that was replaced. *)
LEMMA TheOneReplaced ==
  ASSUME IInv, Chained, NEW i \in Rows
  PROVE  /\ Prev(i) # None => Prev(i) \in Rows /\ superseded_by[Prev(i)] = i
         /\ \A q \in Rows : superseded_by[q] = i => Prev(i) = q
  <1> DEFINE S == {j \in Rows : superseded_by[j] = i}
  <1>1. Prev(i) = FirstRow(S)
    BY DEF Prev
  <1>2. i # None /\ \A j \in Rows : j \in Nat
    BY Pointers
  <1>3. \A j, k \in S : j = k
    BY <1>2 DEF Chained
  <1>4. ASSUME NEW q \in S PROVE FirstRow(S) = q
    <2>1. S = {q}
      BY <1>3
    <2>2. q <= q
      BY <1>2
    <2> HIDE DEF S
    <2>3. FirstRow(S) = CHOOSE k \in S : \A j \in S : k <= j
      <3>1. S # {}
        BY <2>1
      <3>2. QED
        BY <3>1, Zenon DEF FirstRow
    <2>4. (CHOOSE k \in S : \A j \in S : k <= j) \in S
      <3>1. \E k \in S : \A j \in S : k <= j
        BY <2>1, <2>2
      <3>2. QED
        BY <3>1, Zenon
    <2>5. FirstRow(S) \in S
      BY <2>3, <2>4, Zenon
    <2>6. QED
      BY <2>1, <2>5
  <1>5. S = {} => FirstRow(S) = None
    BY DEF FirstRow
  <1>6. QED
    BY <1>1, <1>4, <1>5

(* A sequence of one row. *)
LEMMA SequenceOfOne ==
  ASSUME NEW i \in Rows
  PROVE  \E s : s = <<i>> /\ s \in Seq(Rows) /\ Len(s) = 1 /\ s[1] = i
  <1>1. \A y : DOMAIN <<y>> = {1} /\ <<y>>[1] = y /\ Len(<<y>>) = 1
    OBVIOUS
  <1>2. PICK s : s = <<i>>
    OBVIOUS
  <1>3. s \in Seq(Rows) /\ Len(s) = 1 /\ s[1] = i
    BY <1>1, <1>2
  <1>4. QED
    BY <1>2, <1>3

(* The two walks of `kum history` over the stacks. *)
BacksUp(B) ==
  \A j \in Rows : B[j] = IF Prev(j) = None THEN <<j>> ELSE Append(B[Prev(j)], j)

GoesOn(F) ==
  \A j \in Rows : F[j] = IF superseded_by[j] = None THEN <<>>
                         ELSE <<superseded_by[j]>> \o F[superseded_by[j]]

(* Rows that replaced one another. *)
Linked(s) ==
  s \in Seq(Rows) /\ \A k \in 1..(Len(s) - 1) : superseded_by[s[k]] = s[k + 1]

(* Rows that follow j in that way. *)
Follows(j, s) ==
  s \in Seq(Rows)
  /\ \A k \in 1..Len(s) : s[k] = IF k = 1 THEN superseded_by[j] ELSE superseded_by[s[k - 1]]

LEMMA BackLinks ==
  ASSUME IInv, Chained, NEW B, BacksUp(B)
  PROVE  \A j \in Rows : Linked(B[j]) /\ Len(B[j]) >= 1 /\ B[j][Len(B[j])] = j
  <1> DEFINE m == [j \in Rows |-> j]
             p == [j \in Rows |-> Prev(j)]
             G == {j \in Rows : Linked(B[j]) /\ Len(B[j]) >= 1 /\ B[j][Len(B[j])] = j}
  <1>1. m \in [Rows -> 0..rows] /\ rows \in Nat
    BY Pointers
  <1>2. ASSUME NEW j \in Rows, p[j] = None PROVE j \in G
    <2>1. B[j] = <<j>>
      BY <1>2 DEF BacksUp
    <2>2. PICK s : s = <<j>> /\ s \in Seq(Rows) /\ Len(s) = 1 /\ s[1] = j
      BY SequenceOfOne
    <2>3. Linked(s)
      BY <2>2 DEF Linked
    <2>4. Len(s) >= 1 /\ s[Len(s)] = j
      BY <2>2
    <2>5. QED
      BY <2>1, <2>2, <2>3, <2>4
  <1>3. ASSUME NEW j \in Rows, p[j] # None
        PROVE  p[j] \in Rows /\ m[p[j]] < m[j] /\ (p[j] \in G => j \in G)
    <2>1. PICK b \in Rows : b = Prev(j) /\ b = p[j] /\ superseded_by[b] = j
      BY <1>3, TheOneReplaced
    <2>2. b < j
      BY <2>1, Pointers
    <2>3. ASSUME b \in G PROVE j \in G
      <3>1. PICK s \in Seq(Rows) : s = B[b]
        BY <2>3 DEF Linked
      <3>2. Len(s) \in Nat /\ Len(s) >= 1 /\ s[Len(s)] = b
            /\ \A k \in 1..(Len(s) - 1) : superseded_by[s[k]] = s[k + 1]
        BY <2>3, <3>1 DEF Linked
      <3>3. PICK t : t = Append(s, j)
        OBVIOUS
      <3>4. /\ t \in Seq(Rows) /\ Len(t) = Len(s) + 1 /\ t[Len(t)] = j
            /\ \A k \in 1..Len(s) : t[k] = s[k]
        BY <3>2, <3>3
      <3>5. \A k \in 1..(Len(t) - 1) : superseded_by[t[k]] = t[k + 1]
        BY <2>1, <3>2, <3>4
      <3>6. B[j] = t
        BY <1>3, <2>1, <3>1, <3>3 DEF BacksUp
      <3>7. QED
        BY <3>2, <3>4, <3>5, <3>6 DEF Linked
    <2>4. QED
      BY <2>1, <2>2, <2>3
  <1> HIDE DEF m, p, G
  <1>4. Rows \subseteq G
    BY <1>1, <1>2, <1>3, WalkInduction
  <1>5. QED
    BY <1>4 DEF G

LEMMA OnFollows ==
  ASSUME IInv, NEW F, GoesOn(F)
  PROVE  \A j \in Rows : Follows(j, F[j])
  <1> DEFINE m == [j \in Rows |-> rows - j]
             G == {j \in Rows : Follows(j, F[j])}
  <1>1. m \in [Rows -> 0..rows] /\ rows \in Nat
    BY Pointers
  <1>2. ASSUME NEW j \in Rows, superseded_by[j] = None PROVE j \in G
    <2>1. <<>> \in Seq(Rows) /\ Len(<<>>) = 0
      OBVIOUS
    <2>2. 1..0 = {}
      OBVIOUS
    <2>3. Follows(j, <<>>)
      BY <2>1, <2>2 DEF Follows
    <2>4. QED
      BY <1>2, <2>3 DEF GoesOn
  <1>3. ASSUME NEW j \in Rows, superseded_by[j] # None
        PROVE  superseded_by[j] \in Rows /\ m[superseded_by[j]] < m[j]
               /\ (superseded_by[j] \in G => j \in G)
    <2>1. PICK n \in Rows : n = superseded_by[j] /\ j < n
      BY <1>3, Pointers
    <2>2. rows - n < rows - j
      BY <2>1, Pointers
    <2>3. ASSUME n \in G PROVE j \in G
      <3>1. PICK s \in Seq(Rows) : s = F[n]
        BY <2>3 DEF Follows
      <3>2. \A k \in 1..Len(s) : s[k] = IF k = 1 THEN superseded_by[n] ELSE superseded_by[s[k - 1]]
        BY <2>3, <3>1 DEF Follows
      <3>3. PICK e : e = <<n>> /\ e \in Seq(Rows) /\ Len(e) = 1 /\ e[1] = n
        BY SequenceOfOne
      <3>4. PICK t : t = e \o s
        OBVIOUS
      <3>5. t \in Seq(Rows) /\ Len(t) = 1 + Len(s) /\ t[1] = n /\ Len(s) \in Nat
        BY <3>3, <3>4
      <3>6. \A k \in 2..Len(t) : t[k] = s[k - 1]
        BY <3>3, <3>4
      <3>7. \A k \in 1..Len(t) : t[k] = IF k = 1 THEN superseded_by[j] ELSE superseded_by[t[k - 1]]
        <4> SUFFICES ASSUME NEW k \in 1..Len(t), k # 1 PROVE t[k] = superseded_by[t[k - 1]]
          BY <2>1, <3>5
        <4>1. t[k] = s[k - 1] /\ k - 1 \in 1..Len(s)
          BY <3>5, <3>6
        <4>2. CASE k = 2
          BY <3>2, <3>5, <4>1, <4>2
        <4>3. CASE k # 2
          <5>1. k - 1 \in 2..Len(t) /\ k - 1 # 1
            BY <3>5, <4>3
          <5>2. t[k - 1] = s[(k - 1) - 1]
            BY <3>6, <5>1
          <5>3. QED
            BY <3>2, <4>1, <5>1, <5>2
        <4>4. QED
          BY <4>2, <4>3
      <3>8. F[j] = t
        BY <1>3, <2>1, <3>1, <3>3, <3>4 DEF GoesOn
      <3>9. Follows(j, t)
        BY <3>5, <3>7 DEF Follows
      <3>10. QED
        BY <3>8, <3>9
    <2>4. QED
      BY <2>1, <2>2, <2>3
  <1> HIDE DEF m, G
  <1>4. Rows \subseteq G
    BY <1>1, <1>2, <1>3, WalkInduction
  <1>5. QED
    BY <1>4 DEF G

(* The two functions the walks are written as exist. *)
LEMMA WalksBack ==
  ASSUME IInv, Chained
  PROVE  \E B : B \in [Rows -> Seq(Rows)] /\ BacksUp(B)
  <1> DEFINE m == [j \in Rows |-> j]
             p == [j \in Rows |-> Prev(j)]
             base == [j \in Rows |-> <<j>>]
             step == [x \in Rows \X Seq(Rows) |-> Append(x[2], x[1])]
  <1>1. m \in [Rows -> 0..rows] /\ rows \in Nat /\ base \in [Rows -> Seq(Rows)]
    BY Pointers
  <1>2. ASSUME NEW j \in Rows, p[j] # None PROVE p[j] \in Rows /\ m[p[j]] < m[j]
    <2>1. PICK b \in Rows : b = p[j] /\ superseded_by[b] = j
      BY <1>2, TheOneReplaced
    <2>2. b < j
      BY <2>1, Pointers
    <2>3. QED
      BY <2>1, <2>2
  <1>3. step \in [Rows \X Seq(Rows) -> Seq(Rows)]
    OBVIOUS
  <1>4. \A j \in Rows, v \in Seq(Rows) : step[<<j, v>>] = Append(v, j)
    OBVIOUS
  <1>5. \A j \in Rows : p[j] = Prev(j) /\ base[j] = <<j>>
    OBVIOUS
  <1> HIDE DEF m, p, base, step
  <1>6. PICK B \in [Rows -> Seq(Rows)] : Tabulates(B, Rows, p, None, base, step)
    BY <1>1, <1>2, <1>3, WalkTable
  <1>7. BacksUp(B)
    <2> SUFFICES ASSUME NEW j \in Rows
                 PROVE  B[j] = IF Prev(j) = None THEN <<j>> ELSE Append(B[Prev(j)], j)
      BY DEF BacksUp
    <2>1. B[j] = IF p[j] = None THEN base[j] ELSE step[<<j, B[p[j]]>>]
      BY <1>6 DEF Tabulates
    <2>2. p[j] # None => B[p[j]] \in Seq(Rows)
      BY <1>2
    <2>3. QED
      BY <1>4, <1>5, <2>1, <2>2
  <1>8. QED
    BY <1>7

LEMMA WalksOn ==
  ASSUME IInv
  PROVE  \E F : F \in [Rows -> Seq(Rows)] /\ GoesOn(F)
  <1> DEFINE m == [j \in Rows |-> rows - j]
             base == [j \in Rows |-> <<>>]
             step == [x \in Rows \X Seq(Rows) |->
                        IF superseded_by[x[1]] = None THEN <<>>
                        ELSE <<superseded_by[x[1]]>> \o x[2]]
  <1>1. m \in [Rows -> 0..rows] /\ rows \in Nat /\ base \in [Rows -> Seq(Rows)]
    BY Pointers
  <1>2. ASSUME NEW j \in Rows, superseded_by[j] # None
        PROVE  superseded_by[j] \in Rows /\ m[superseded_by[j]] < m[j]
    <2>1. PICK n \in Rows : n = superseded_by[j] /\ j < n
      BY <1>2, Pointers
    <2>2. rows - n < rows - j
      BY <2>1, Pointers
    <2>3. QED
      BY <2>1, <2>2
  <1>3. step \in [Rows \X Seq(Rows) -> Seq(Rows)]
    <2> SUFFICES ASSUME NEW j \in Rows, NEW v \in Seq(Rows), superseded_by[j] # None
                 PROVE  <<superseded_by[j]>> \o v \in Seq(Rows)
      OBVIOUS
    <2>1. superseded_by[j] \in Rows
      BY Pointers
    <2>2. QED
      BY <2>1
  <1>4. \A j \in Rows, v \in Seq(Rows) :
          superseded_by[j] # None => step[<<j, v>>] = <<superseded_by[j]>> \o v
    OBVIOUS
  <1>5. \A j \in Rows : base[j] = <<>>
    OBVIOUS
  <1> HIDE DEF m, base, step
  <1>6. PICK F \in [Rows -> Seq(Rows)] : Tabulates(F, Rows, superseded_by, None, base, step)
    BY <1>1, <1>2, <1>3, WalkTable
  <1>7. GoesOn(F)
    <2> SUFFICES ASSUME NEW j \in Rows
                 PROVE  F[j] = IF superseded_by[j] = None THEN <<>>
                               ELSE <<superseded_by[j]>> \o F[superseded_by[j]]
      BY DEF GoesOn
    <2>1. F[j] = IF superseded_by[j] = None THEN base[j]
                 ELSE step[<<j, F[superseded_by[j]]>>]
      BY <1>6 DEF Tabulates
    <2>2. superseded_by[j] # None => F[superseded_by[j]] \in Seq(Rows)
      BY <1>2
    <2>3. QED
      BY <1>4, <1>5, <2>1, <2>2
  <1>8. QED
    BY <1>7

(* So the history is the two walks, one after the other. *)
LEMMA HistoryIsTwoWalks ==
  ASSUME IInv, Chained
  PROVE  \E B, F : BacksUp(B) /\ GoesOn(F) /\ \A i \in Rows : History(i) = B[i] \o F[i]
  <1> DEFINE back == CHOOSE B : B = [j \in Rows |-> IF Prev(j) = None THEN <<j>>
                                                  ELSE Append(B[Prev(j)], j)]
             on == CHOOSE F : F = [j \in Rows |->
                                     IF superseded_by[j] = None THEN <<>>
                                     ELSE <<superseded_by[j]>> \o F[superseded_by[j]]]
  <1>1. \A i \in Rows : History(i) = back[i] \o on[i]
    BY Zenon DEF History
  <1>2. \E B : B = [j \in Rows |-> IF Prev(j) = None THEN <<j>> ELSE Append(B[Prev(j)], j)]
    <2>1. PICK B : B \in [Rows -> Seq(Rows)] /\ BacksUp(B)
      BY WalksBack
    <2>2. B = [j \in Rows |-> B[j]]
      BY <2>1
    <2>3. B = [j \in Rows |-> IF Prev(j) = None THEN <<j>> ELSE Append(B[Prev(j)], j)]
      BY <2>1, <2>2 DEF BacksUp
    <2>4. QED
      BY <2>3
  <1>3. back = [j \in Rows |-> IF Prev(j) = None THEN <<j>> ELSE Append(back[Prev(j)], j)]
    BY <1>2, Zenon
  <1>4. \E F : F = [j \in Rows |-> IF superseded_by[j] = None THEN <<>>
                                  ELSE <<superseded_by[j]>> \o F[superseded_by[j]]]
    <2>1. PICK F : F \in [Rows -> Seq(Rows)] /\ GoesOn(F)
      BY WalksOn
    <2>2. F = [j \in Rows |-> F[j]]
      BY <2>1
    <2>3. F = [j \in Rows |-> IF superseded_by[j] = None THEN <<>>
                              ELSE <<superseded_by[j]>> \o F[superseded_by[j]]]
      BY <2>1, <2>2 DEF GoesOn
    <2>4. QED
      BY <2>3
  <1>5. on = [j \in Rows |-> IF superseded_by[j] = None THEN <<>>
                             ELSE <<superseded_by[j]>> \o on[superseded_by[j]]]
    BY <1>4, Zenon
  <1> HIDE DEF back, on
  <1>6. BacksUp(back)
    BY <1>3, Zenon DEF BacksUp
  <1>7. GoesOn(on)
    BY <1>5, Zenon DEF GoesOn
  <1>8. QED
    BY <1>1, <1>6, <1>7

(* The two walks make one chain with the row they began at in it, ... *)
LEMMA HistoryLinks ==
  ASSUME IInv, Chained, NEW i \in Rows
  PROVE  Linked(History(i)) /\ \E k \in 1..Len(History(i)) : History(i)[k] = i
  <1>1. PICK B, F : BacksUp(B) /\ GoesOn(F) /\ History(i) = B[i] \o F[i]
    BY HistoryIsTwoWalks
  <1>2. PICK s \in Seq(Rows) : s = B[i] /\ Linked(s) /\ Len(s) >= 1 /\ s[Len(s)] = i
    BY <1>1, BackLinks DEF Linked
  <1>3. PICK t \in Seq(Rows) : t = F[i] /\ Follows(i, t)
    BY <1>1, OnFollows DEF Follows
  <1>4. PICK h : h = s \o t
    OBVIOUS
  <1>5. /\ h \in Seq(Rows) /\ Len(s) \in Nat /\ Len(t) \in Nat /\ Len(h) = Len(s) + Len(t)
        /\ \A k \in 1..Len(s) : h[k] = s[k]
        /\ \A k \in 1..Len(t) : h[Len(s) + k] = t[k]
    BY <1>4
  <1>6. ASSUME NEW k \in 1..(Len(h) - 1) PROVE superseded_by[h[k]] = h[k + 1]
    <2>1. CASE k < Len(s)
      <3>1. h[k] = s[k] /\ h[k + 1] = s[k + 1] /\ k \in 1..(Len(s) - 1)
        BY <1>5, <2>1
      <3>2. QED
        BY <1>2, <3>1 DEF Linked
    <2>2. CASE k = Len(s)
      <3>1. h[k] = i /\ 1 \in 1..Len(t)
        BY <1>2, <1>5, <2>2
      <3>2. h[k + 1] = t[1]
        BY <1>5, <2>2, <3>1
      <3>3. QED
        BY <1>3, <3>1, <3>2 DEF Follows
    <2>3. CASE k > Len(s)
      <3>1. PICK l : l = k - Len(s)
        OBVIOUS
      <3>9. l \in 1..Len(t) /\ l + 1 \in 1..Len(t) /\ k = Len(s) + l
        BY <1>5, <2>3, <3>1
      <3>2. h[k] = t[l] /\ h[k + 1] = t[l + 1]
        <4>1. h[Len(s) + l] = t[l] /\ h[Len(s) + (l + 1)] = t[l + 1]
          BY <1>5, <3>9
        <4>2. Len(s) + l = k /\ Len(s) + (l + 1) = k + 1
          BY <1>5, <3>9
        <4>3. QED
          BY <4>1, <4>2
      <3>3. t[l + 1] = superseded_by[t[(l + 1) - 1]] /\ (l + 1) - 1 = l
        BY <1>3, <3>9 DEF Follows
      <3>4. QED
        BY <3>2, <3>3
    <2>4. QED
      BY <1>5, <2>1, <2>2, <2>3
  <1>7. Linked(h)
    BY <1>5, <1>6 DEF Linked
  <1>8. Len(s) \in 1..Len(h) /\ h[Len(s)] = i
    BY <1>2, <1>5
  <1>9. QED
    BY <1>1, <1>2, <1>3, <1>4, <1>7, <1>8

(* ... and the row that replaced it reads the same one. *)
LEMMA NextReadsTheSame ==
  ASSUME IInv, Chained, NEW i \in Rows, superseded_by[i] # None
  PROVE  History(superseded_by[i]) = History(i)
  <1>1. PICK B, F : BacksUp(B) /\ GoesOn(F) /\ \A j \in Rows : History(j) = B[j] \o F[j]
    BY HistoryIsTwoWalks
  <1>2. PICK n \in Rows : n = superseded_by[i]
    BY Pointers
  <1>3. Prev(n) = i /\ i # None
    BY <1>2, TheOneReplaced, Pointers
  <1>4. B[n] = Append(B[i], n) /\ F[i] = <<n>> \o F[n]
    BY <1>1, <1>2, <1>3 DEF BacksUp, GoesOn
  <1>5. PICK s \in Seq(Rows) : s = B[i]
    BY <1>1, BackLinks DEF Linked
  <1>6. PICK t \in Seq(Rows) : t = F[n]
    BY <1>1, OnFollows DEF Follows
  <1>7. Append(s, n) \o t = s \o (<<n>> \o t)
    <2>1. PICK e : e = <<n>> /\ e \in Seq(Rows) /\ Len(e) = 1 /\ e[1] = n
      BY SequenceOfOne
    <2>2. Append(s, n) = s \o e
      <3>1. PICK a : a = Append(s, n)
        OBVIOUS
      <3>2. a \in Seq(Rows) /\ Len(a) = Len(s) + 1 /\ a[Len(s) + 1] = n /\ \A k \in 1..Len(s) : a[k] = s[k]
        BY <3>1
      <3>3. PICK b : b = s \o e
        OBVIOUS
      <3>4. b \in Seq(Rows) /\ Len(b) = Len(s) + 1 /\ b[Len(s) + 1] = n /\ \A k \in 1..Len(s) : b[k] = s[k]
        BY <2>1, <3>3
      <3>5. Len(s) \in Nat /\ a = [k \in 1..Len(a) |-> a[k]] /\ b = [k \in 1..Len(b) |-> b[k]]
        BY <3>2, <3>4
      <3>6. \A k \in 1..Len(a) : a[k] = b[k]
        BY <3>2, <3>4, <3>5
      <3>7. a = b
        BY <3>2, <3>4, <3>5, <3>6
      <3>8. QED
        BY <3>1, <3>3, <3>7
    <2>3. (s \o e) \o t = s \o (e \o t)
      OBVIOUS
    <2>4. QED
      BY <2>1, <2>2, <2>3
  <1>8. QED
    BY <1>1, <1>2, <1>4, <1>5, <1>6, <1>7

(* Every version reads back the same chain, in the order the rows were stocked
   and of one name; only its last can be live, and that one is what the listing
   shows (`kum history`, `kum secrets`). *)
THEOREM RotationsReadBackHolds == Spec => []RotationsReadBack
  <1>1. ASSUME IInv, Chained, NEW i \in Rows, NEW h, h = History(i)
        PROVE  /\ \A k \in 1..(Len(h) - 1) : h[k] < h[k + 1] /\ Status(h[k]) = "superseded"
               /\ \A k \in 1..Len(h) : name[h[k]] = name[i] /\ History(h[k]) = h
               /\ (Marker(h[Len(h)]) = "live") <=> (h[Len(h)] \in Listing)
    <2>1. /\ h \in Seq(Rows) /\ Len(h) \in Nat
          /\ \A k \in 1..(Len(h) - 1) : superseded_by[h[k]] = h[k + 1]
      <3>1. Linked(h)
        BY <1>1, HistoryLinks
      <3>2. QED
        BY <3>1 DEF Linked
    <2>2. PICK at \in 1..Len(h) : h[at] = i
      BY <1>1, HistoryLinks
    <2>3. \A k \in 1..Len(h) : h[k] \in Rows
      BY <2>1
    <2>4. ASSUME NEW k \in 1..(Len(h) - 1)
          PROVE  /\ h[k] < h[k + 1] /\ superseded_by[h[k]] # None
                 /\ name[h[k + 1]] = name[h[k]] /\ History(h[k + 1]) = History(h[k])
      <3>1. h[k] \in Rows /\ h[k + 1] \in Rows /\ superseded_by[h[k]] = h[k + 1]
        BY <2>1, <2>3
      <3>2. superseded_by[h[k]] # None
        BY <1>1, <3>1, Pointers
      <3>3. QED
        BY <1>1, <3>1, <3>2, Pointers, NextReadsTheSame DEF Chained
    <2>5. \A k \in 1..Len(h) : name[h[k]] = name[h[1]] /\ History(h[k]) = History(h[1])
      <3> DEFINE T == {n \in Nat : n + 1 \in 1..Len(h) =>
                         name[h[n + 1]] = name[h[1]] /\ History(h[n + 1]) = History(h[1])}
      <3>1. 0 \in T
        OBVIOUS
      <3>2. ASSUME NEW n \in Nat, n \in T PROVE n + 1 \in T
        <4> SUFFICES ASSUME (n + 1) + 1 \in 1..Len(h)
                     PROVE  /\ name[h[(n + 1) + 1]] = name[h[1]]
                            /\ History(h[(n + 1) + 1]) = History(h[1])
          OBVIOUS
        <4>1. n + 1 \in 1..(Len(h) - 1) /\ n + 1 \in 1..Len(h)
          BY <2>1
        <4>2. QED
          BY <2>4, <3>2, <4>1
      <3> HIDE DEF T
      <3>3. \A n \in Nat : n \in T
        BY <3>1, <3>2, SetInduction
      <3> SUFFICES ASSUME NEW k \in 1..Len(h)
                   PROVE  name[h[k]] = name[h[1]] /\ History(h[k]) = History(h[1])
        OBVIOUS
      <3>4. k - 1 \in T /\ (k - 1) + 1 = k
        BY <2>1, <3>3
      <3>5. QED
        BY <3>4 DEF T
    <2>6. name[h[1]] = name[i] /\ History(h[1]) = h
      BY <1>1, <2>2, <2>5
    <2>7. h[Len(h)] \in Rows
      BY <2>1, <2>2, <2>3
    <2>8. \A j \in Rows : (Marker(j) = "live") <=> (j \in Listing)
      <3> SUFFICES ASSUME NEW j \in Rows PROVE (Marker(j) = "live") <=> (j \in Listing)
        OBVIOUS
      <3>1. j \in Listing <=> superseded_by[j] = None /\ ~shredded[j]
        BY <1>1 DEF Listing, List, NamedRows, IInv
      <3>2. Marker(j) = "live" <=> superseded_by[j] = None /\ ~shredded[j]
        BY Zenon DEF Marker, Status
      <3>3. QED
        BY <3>1, <3>2
    <2>9. \A k \in 1..(Len(h) - 1) : Status(h[k]) = "superseded"
      BY <2>4 DEF Status
    <2>10. QED
      BY <2>4, <2>5, <2>6, <2>7, <2>8, <2>9
  <1>2. ASSUME IInv, NEW i \in Listing, NEW j \in Listing, name[i] = name[j] PROVE i = j
    BY <1>2 DEF IInv, OnlyTheStockIsSealed, Stock, Listing, List
  <1>3. IInv /\ Chained => RotationsReadBack
    BY <1>1, <1>2 DEF RotationsReadBack
  <1>4. QED
    BY <1>3, AlwaysChained, PTL
=============================================================================
