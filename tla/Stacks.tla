------------------------------- MODULE Stacks -------------------------------
(***************************************************************************)
(* The restricted stacks (crates/kumbarium-secrets, the `secret` verbs of  *)
(* the CLI and the secret_read tool): stock, its rotation and shredding,   *)
(* grants, the shelf's sealing mode and the master key in the platform's   *)
(* keystore.  Row variables are columns; ids are taken in insertion order. *)
(*                                                                         *)
(* Every command is a process of its own, and none holds a transaction     *)
(* from its first read to its last write (only set's supersede-and-shred   *)
(* is one): a call is several steps, with the other commands, the agents'  *)
(* sessions, the clock and the keystore between them.                      *)
(***************************************************************************)
EXTENDS Integers

CONSTANTS
  Name,       \* <namespace, name> pairs
  Hand,       \* terminals a human runs `kum secret` in
  Session,    \* agents' sessions
  ActorOf,    \* the actor each session is bound to
  ClaimOf,    \* the agent name each session claims
  MissIsSure, \* whether the keystore tells a missing key from a lookup
              \*   that failed: macOS's does, secret-tool does not
  MaxRows,    \* bound: rows ever stocked
  MaxKeys,    \* bound: master keys ever minted
  MaxTime,    \* bound: the clock runs from 0 to MaxTime
  None

ASSUME BoundsAssumption ==
  MaxRows \in Nat /\ MaxKeys \in Nat /\ MaxTime \in Nat
ASSUME NoneAssumption ==
  None \notin Int /\ None \notin Name /\ None \notin {"keystore", "plaintext"}
ASSUME MissAssumption == MissIsSure \in BOOLEAN
ASSUME ActorsAreSeparate == Hand \cap Session = {}

Process == Hand \cup Session
Actor == {ActorOf[s] : s \in Session}
Claim == {ClaimOf[s] : s \in Session}
Id == 1..MaxRows
Key == 1..MaxKeys
Plain == 0                      \* no key: the plaintext envelope
Forever == MaxTime + 1          \* a grant without expires_at

VARIABLES
  rows,           \* rows ever stocked: ids 1..rows
  name,           \* columns of `secrets`; sealed is the key the envelope
  sealed,         \*   was sealed under, or Plain, and None once shredded
  superseded_by,
  shredded,
  mode,           \* the `sealing` row: None, "keystore" or "plaintext"
  grants,         \* expires_at of <name, actor> and <name, claimed name>
                  \*   rows; 0 (long lapsed) stands for no row as well
  item,           \* the keystore's master key, None before the first mint
  minted,         \* keys ever minted: 1..minted
  overwritten,    \* history: a mint replaced a key that was in the keystore
  now,
  doing           \* each process's command: what it has read so far

stock == <<rows, name, sealed, superseded_by, shredded>>
keys == <<item, minted, overwritten>>
vars == <<stock, mode, grants, keys, now, doing>>

Rows == 1..rows

Idle ==
  [op |-> "none", at |-> "idle", name |-> None, key |-> None, row |-> None,
   to |-> None, until |-> 0, granted |-> FALSE, found |-> FALSE,
   covered |-> FALSE, said |-> "nothing", got |-> FALSE]

(* Grants of before actors existed name a claimed agent name; none is written
   since (migration 0003). *)
Init ==
  /\ rows = 0
  /\ name = [i \in Id |-> None]
  /\ sealed = [i \in Id |-> None]
  /\ superseded_by = [i \in Id |-> None]
  /\ shredded = [i \in Id |-> FALSE]
  /\ mode = None
  /\ \E legacy \in SUBSET (Name \X Claim) :
       grants = [g \in Name \X (Actor \cup Claim) |->
                   IF g \in legacy THEN Forever ELSE 0]
  /\ item = None
  /\ minted = 0
  /\ overwritten = FALSE
  /\ now = 0
  /\ doing = [p \in Process |-> Idle]

-----------------------------------------------------------------------------
(* The live head of a name. *)
Stock(n) ==
  {i \in Rows : name[i] = n /\ superseded_by[i] = None /\ ~shredded[i]}

FirstRow(S) == IF S = {} THEN None ELSE CHOOSE i \in S : \A j \in S : i <= j

At(p, pc) == doing[p].at = pc

(* The process's command goes on with what this step read. *)
Goes(p, call) == doing' = [doing EXCEPT ![p] = call]

Begin(p, call) == At(p, "idle") /\ Goes(p, call)

(* The command ends, without the value; what it witnessed stays. *)
Ends(c) == [Idle EXCEPT !.said = c.said]

-----------------------------------------------------------------------------
(* The master key. *)

(* What a command does once it has its key: a reader at a terminal looks at
   the stock next, an agent's session has done so and opens it. *)
Keyed(c, k) ==
  [c EXCEPT !.key = k,
            !.at = CASE c.op = "set"         -> "sealing"
                     [] c.op = "read"        -> "look"
                     [] c.op = "secret_read" -> "open"]

(* The keystore as one command meets it. *)
Reach == {"present", "absent", "blocked"} \cup
         (IF MissIsSure THEN {} ELSE {"unreadable"})

(* The lookup reports no key. *)
Missed(reach) == reach = "unreadable" \/ (reach = "present" /\ item = None)

(* A shelf that needs no key: a plaintext one or, for a set that accepts it,
   one without a mode where there is no keystore at all. *)
GoesPlain(accepts, reach) ==
  mode = "plaintext" \/ (accepts /\ mode = None /\ reach = "absent")

(* key_for_set and secrets_key, with the lookup of master_key: a key is minted
   when the keystore is there and reports none.  Blocked or absent refuses. *)
FetchKey(p, c, accepts) ==
  /\ \E reach \in Reach :
       \/ /\ GoesPlain(accepts, reach)
          /\ Goes(p, Keyed(c, Plain))
          /\ UNCHANGED minted
       \/ /\ ~GoesPlain(accepts, reach) /\ reach = "present" /\ item # None
          /\ Goes(p, Keyed(c, item))
          /\ UNCHANGED minted
       \/ /\ ~GoesPlain(accepts, reach) /\ Missed(reach)
          /\ minted < MaxKeys
          /\ minted' = minted + 1
          /\ Goes(p, [c EXCEPT !.at = "mint", !.key = minted'])
       \/ /\ ~GoesPlain(accepts, reach) /\ reach \in {"absent", "blocked"}
          /\ Goes(p, Ends(c))
          /\ UNCHANGED minted
  /\ UNCHANGED <<stock, mode, grants, item, overwritten, now>>

(* Mutant of Refused: a key the keystore refused is used all the same. *)
RefusedYetUsed(c) == Keyed(c, c.key)

(* "keychain refused the new key": Blocked, and the command ends. *)
Refused(c) == Ends(c)

(* macos / linux, second half: the new key is stored over whatever is there,
   and used. *)
StoreKey(p) ==
  LET c == doing[p]
  IN  /\ At(p, "mint")
      /\ \/ /\ item' = c.key
            /\ overwritten' = (overwritten \/ item # None)
            /\ Goes(p, Keyed(c, c.key))
         \/ /\ Goes(p, Refused(c))
            /\ UNCHANGED <<item, overwritten>>
      /\ UNCHANGED <<stock, mode, grants, minted, now>>

-----------------------------------------------------------------------------
(* `kum secret set`. *)

Set(h, n) ==
  /\ At(h, "idle")
  /\ \E accepts \in BOOLEAN :
       FetchKey(h, [Idle EXCEPT !.op = "set", !.name = n], accepts)

ModeOf(k) == IF k = Plain THEN "plaintext" ELSE "keystore"

(* Mutant of Sticks: a shelf takes the mode of the last set. *)
SticksNever(k) == TRUE

Sticks(k) == mode \in {None, ModeOf(k)}

(* set_sealing_mode: the first set decides for good. *)
SetSealingMode(h) ==
  /\ At(h, "sealing")
  /\ Sticks(doing[h].key)
  /\ mode' = ModeOf(doing[h].key)
  /\ Goes(h, [doing[h] EXCEPT !.at = "store"])
  /\ UNCHANGED <<stock, grants, keys, now>>

(* Mutant of Superseding: the two ids of the UPDATE are swapped. *)
SupersedingBackwards(prior, id) ==
  [i \in Id |-> IF i = id /\ prior # {} THEN FirstRow(prior) ELSE superseded_by[i]]

(* The UPDATE links what is replaced to the new row, ... *)
Superseding(prior, id) ==
  [i \in Id |-> IF i \in prior THEN id ELSE superseded_by[i]]

(* Mutant of Material: rotation keeps the ancestor's envelope. *)
MaterialKept(prior, id, k) == [sealed EXCEPT ![id] = k]

(* ... and destroys its material. *)
Material(prior, id, k) ==
  [i \in Id |-> IF i = id THEN k ELSE IF i \in prior THEN None ELSE sealed[i]]

(* set_locked, one transaction: the new row, and the row it replaces linked
   to it and shredded. *)
SetLocked(h) ==
  LET c == doing[h]
      id == rows + 1
      prior == Stock(c.name)
  IN  /\ At(h, "store")
      /\ id \in Id
      /\ rows' = id
      /\ name' = [name EXCEPT ![id] = c.name]
      /\ sealed' = Material(prior, id, c.key)
      /\ superseded_by' = Superseding(prior, id)
      /\ shredded' = [i \in Id |-> shredded[i] \/ i \in prior]
      /\ Goes(h, Idle)
      /\ UNCHANGED <<mode, grants, keys, now>>

-----------------------------------------------------------------------------
(* `kum secret shred`: the stock is found, then destroyed by its id. *)

FindShred(h, n) ==
  /\ Stock(n) # {}
  /\ Begin(h, [Idle EXCEPT !.op = "shred", !.at = "shred", !.name = n,
                           !.row = FirstRow(Stock(n))])
  /\ UNCHANGED <<stock, mode, grants, keys, now>>

Shred(h) ==
  /\ At(h, "shred")
  /\ sealed' = [sealed EXCEPT ![doing[h].row] = None]
  /\ shredded' = [shredded EXCEPT ![doing[h].row] = TRUE]
  /\ Goes(h, Idle)
  /\ UNCHANGED <<rows, name, superseded_by, mode, grants, keys, now>>

-----------------------------------------------------------------------------
(* Grants.  A new one names an actor; the name is checked, then the row is
   inserted or its expiry replaced. *)

CheckGrant(h, n, a, until) ==
  /\ Stock(n) # {}
  /\ Begin(h, [Idle EXCEPT !.op = "grant", !.at = "grant", !.name = n,
                           !.to = a, !.until = until])
  /\ UNCHANGED <<stock, mode, grants, keys, now>>

Grant(h) ==
  /\ At(h, "grant")
  /\ grants' = [grants EXCEPT ![<<doing[h].name, doing[h].to>>] = doing[h].until]
  /\ Goes(h, Idle)
  /\ UNCHANGED <<stock, mode, keys, now>>

(* `kum secret revoke`: the actor's row if there is one; else the name typed
   is looked for among the legacy rows. *)
RevokeActor(h, n, a) ==
  /\ At(h, "idle")
  /\ grants[<<n, a>>] # 0
  /\ grants' = [grants EXCEPT ![<<n, a>>] = 0]
  /\ UNCHANGED <<stock, mode, keys, now, doing>>

RevokeName(h, n, typed) ==
  /\ At(h, "idle")
  /\ grants[<<n, typed>>] # 0
  /\ grants' = [grants EXCEPT ![<<n, typed>>] = 0]
  /\ UNCHANGED <<stock, mode, keys, now, doing>>

-----------------------------------------------------------------------------
(* Reading: `kum secret read`, `copy` and `exec`, and the secret_read tool. *)

Read(h, n) ==
  /\ At(h, "idle")
  /\ FetchKey(h, [Idle EXCEPT !.op = "read", !.name = n, !.granted = TRUE], FALSE)

(* Mutant of Live: a lease is not held against the clock. *)
LiveUntimed(n, g) == grants[<<n, g>>] # 0

(* A row, and the clock read before its expiry. *)
Live(n, g) == now < grants[<<n, g>>]

(* Whether the reader held a grant when this step was taken (history). *)
Covers(s, c) ==
  \/ c.covered
  \/ \E g \in {ActorOf[s], ClaimOf[s]} : grants[<<c.name, g>>] > now

(* secret_read, with the first query of check_grant: the actor's row. *)
SecretRead(s, n) ==
  LET c == [Idle EXCEPT !.op = "secret_read", !.name = n]
      live == Live(n, ActorOf[s])
  IN  /\ Begin(s, [c EXCEPT !.at = IF live THEN "look" ELSE "claim",
                            !.granted = live, !.covered = Covers(s, c)])
      /\ UNCHANGED <<stock, mode, grants, keys, now>>

(* The second query: the claimed name's row. *)
AskClaim(s) ==
  LET c == doing[s]
  IN  /\ At(s, "claim")
      /\ Goes(s, [c EXCEPT !.at = "look", !.granted = Live(c.name, ClaimOf[s]),
                           !.covered = Covers(s, c)])
      /\ UNCHANGED <<stock, mode, grants, keys, now>>

(* stock_status, for the ledger's line. *)
Look(p) ==
  /\ At(p, "look")
  /\ Goes(p, [doing[p] EXCEPT !.at = "witness",
                              !.found = Stock(doing[p].name) # {}])
  /\ UNCHANGED <<stock, mode, grants, keys, now>>

(* The append fails: nothing moves. *)
Unwitnessed(c, next) == Ends(c)

(* The attempt goes on the ledger, with its outcome, before the value moves;
   a refusal or a miss ends here. *)
Witness(p) ==
  LET c == doing[p]
      moves == c.granted /\ c.found
      next == IF c.op = "secret_read" THEN "key" ELSE "open"
      said == [c EXCEPT !.at = next, !.said = "disclosure",
                        !.granted = FALSE, !.found = FALSE]
  IN  /\ At(p, "witness")
      /\ \/ Goes(p, IF moves THEN said ELSE Ends(c))
         \/ Goes(p, Unwitnessed(c, next))
      /\ UNCHANGED <<stock, mode, grants, keys, now>>

(* unseal: a plaintext envelope opens with any key, a sealed one only with
   its own. *)
Opens(k, envelope) == envelope \in {k, Plain}

AgentKey(s) == At(s, "key") /\ FetchKey(s, doing[s], FALSE)

(* read_secret: the stock of now, whatever it was before. *)
Open(p) ==
  LET c == doing[p]
      opens == \E i \in Stock(c.name) : Opens(c.key, sealed[i])
  IN  /\ At(p, "open")
      /\ Goes(p, [Ends(c) EXCEPT !.got = opens, !.covered = c.covered])
      /\ UNCHANGED <<stock, mode, grants, keys, now>>

-----------------------------------------------------------------------------
(* The world: time, and commands that are killed. *)

Tick ==
  /\ now < MaxTime
  /\ now' = now + 1
  /\ UNCHANGED <<stock, mode, grants, keys, doing>>

Stops(p) ==
  /\ ~At(p, "idle")
  /\ Goes(p, Idle)
  /\ UNCHANGED <<stock, mode, grants, keys, now>>

HandSteps(h) ==
  \/ \E n \in Name :
       \/ Set(h, n)
       \/ FindShred(h, n)
       \/ \E a \in Actor : RevokeActor(h, n, a)
       \/ \E a \in Actor, until \in 1..Forever : CheckGrant(h, n, a, until)
       \/ \E typed \in Claim : RevokeName(h, n, typed)
       \/ Read(h, n)
  \/ SetSealingMode(h)
  \/ SetLocked(h)
  \/ Shred(h)
  \/ Grant(h)

SessionSteps(s) ==
  \/ \E n \in Name : SecretRead(s, n)
  \/ AskClaim(s)
  \/ AgentKey(s)

Next ==
  \/ \E h \in Hand : HandSteps(h)
  \/ \E s \in Session : SessionSteps(s)
  \/ \E p \in Process :
       StoreKey(p) \/ Look(p) \/ Witness(p) \/ Open(p) \/ Stops(p)
  \/ Tick

Spec == Init /\ [][Next]_vars

-----------------------------------------------------------------------------
(* What a process keeps of its command. *)
Call ==
  [op : {"none", "set", "shred", "grant", "read", "secret_read"},
   at : {"idle", "mint", "sealing", "store", "shred", "grant", "claim", "look",
         "witness", "key", "open"},
   name : Name \cup {None},
   key : Key \cup {Plain, None},
   row : Id \cup {None},
   to : Actor \cup {None},
   until : 0..Forever,
   granted : BOOLEAN, found : BOOLEAN, covered : BOOLEAN, got : BOOLEAN,
   said : {"nothing", "disclosure"}]

(* Types; the rows beyond the last are blank, and a row is replaced by a later
   one. *)
TypeOK ==
  /\ rows \in 0..MaxRows
  /\ name \in [Id -> Name \cup {None}]
  /\ sealed \in [Id -> Key \cup {Plain, None}]
  /\ superseded_by \in [Id -> Id \cup {None}]
  /\ shredded \in [Id -> BOOLEAN]
  /\ \A i \in Id \ Rows :
       sealed[i] = None /\ superseded_by[i] = None /\ ~shredded[i]
  /\ \A i \in Rows : superseded_by[i] \in ((i + 1)..rows) \cup {None}
  /\ mode \in {None, "keystore", "plaintext"}
  /\ grants \in [Name \X (Actor \cup Claim) -> 0..Forever]
  /\ item \in (1..minted) \cup {None}
  /\ minted \in 0..MaxKeys
  /\ overwritten \in BOOLEAN
  /\ now \in 0..MaxTime
  /\ doing \in [Process -> Call]

(* A name has at most one live head, and material rests in live heads only:
   a rotation or a shred that lands on a row another command has meanwhile
   rotated or shredded must neither strand material in a retired row nor
   leave a head with none.  "Shredded" in SetLocked and Shred. *)
OnlyTheStockIsSealed ==
  /\ \A n \in Name : \A i, j \in Stock(n) : i = j
  /\ \A i \in Rows : (sealed[i] # None) <=> (i \in Stock(name[i]))

(* Every envelope on the shelf is of the shelf's mode, however many first
   sets ran at once and whatever the keystore did between their steps:
   "once sealed, always sealed; once plaintext, it stays plaintext"
   (key_for_set, set_sealing_mode). *)
ShelfKeepsItsMode ==
  \A i \in Rows : sealed[i] # None => mode = ModeOf(sealed[i])

(* An agent that got a value held a live grant at one of the moments its own
   call asked: no grant revoked, or lapsed, before the call began opens the
   door (check_grant, revoke: "every read re-checks"). *)
GrantCoversRead ==
  \A s \in Session : doing[s].got => doing[s].covered

(* Whoever got a value has a ledger line of that very call that says so
   ("Witness BEFORE the value moves", fail-closed). *)
WitnessedBeforeItMoves ==
  \A p \in Process : doing[p].got => doing[p].said = "disclosure"

(* A read is authorised and on the ledger, both by the very call that made it:
   what it found out by itself, step after step, never adds up to a value that
   no grant covered or no line tells of. *)
ReadsAreAccountedFor == GrantCoversRead /\ WitnessedBeforeItMoves

SealedStockOpens ==
  \A i \in Rows : sealed[i] \in Key => sealed[i] = item

(* Until a mint replaces a key that is already in the keystore, every sealed
   row opens with the key the keystore holds; a mint the keystore refused
   must not have sealed anything (master_key). *)
SealedStockOpensUnlessOverwritten == overwritten \/ SealedStockOpens
=============================================================================
