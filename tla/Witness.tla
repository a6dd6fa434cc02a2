------------------------------ MODULE Witness -------------------------------
(***************************************************************************)
(* The audit ledger (crates/kumbarium-audit): the table `events`, chained  *)
(* by hash in id order, appended to by every `kum` process.  An append     *)
(* mints its id and reads the head inside one BEGIN IMMEDIATE transaction: *)
(* one step.  Opening an old ledger counts the rows without a hash first   *)
(* and takes the lock afterwards: two steps, with other processes between. *)
(*                                                                         *)
(* Ids are UUIDv7: a millisecond, then bits that order the ids of ONE      *)
(* process and are random between processes.  An id here is a number whose *)
(* quotient by Slots is its millisecond.  SHA-256 over length-prefixed     *)
(* fields is an injective function of what it is fed.                      *)
(***************************************************************************)
EXTENDS Integers, FiniteSets

CONSTANTS
  Proc,          \* processes that open the ledger and append to it
  MaxTime,       \* bound: the clock runs from 0 to MaxTime
  Slots,         \* bound: ids one millisecond can hold
  Legacy,        \* ids of the rows a ledger from before the chain holds
  MaxRewrites,   \* bound: rows edited around the librarian
  Steps,         \* how the wall clock may move: {1}, or {1, -1} if it is set back
  Null           \* SQL NULL, the genesis link, "no row"

Id == 0..(Slots * (MaxTime + 1) - 1)
Millis(id) == id \div Slots
Body == {"recorded", "forged"}

(* A hash is what it commits to: the row it ends at and every link before it,
   each a row, the row it follows and what it says. *)
Hash == [upto : Id \cup {Null}, links : SUBSET ((Id \cup {Null}) \X Id \X Body)]

ASSUME BoundsAssumption ==
  MaxTime \in Nat /\ Slots \in Nat \ {0} /\ MaxRewrites \in Nat
ASSUME LegacyAssumption == Legacy \subseteq {id \in Id : Millis(id) = 0}
ASSUME StepsAssumption == Steps \subseteq {1, -1}
ASSUME NullAssumption == Null \notin Int /\ Null \notin Body /\ Null \notin Hash

VARIABLES
  body,       \* events: what each row says, Null where there is no row
  hash,       \* events.hash
  now,        \* the wall clock, in milliseconds
  opened,     \* each process: "closed", "counted", "open"
  minted,     \* the last id each process's uuid context gave out
  disordered, \* history: some append took an id below one already there
  rewrites    \* history: rows edited since they were last hashed

vars == <<body, hash, now, opened, minted, disordered, rewrites>>

Rows == {id \in Id : body[id] # Null}

Before(id) == {i \in Rows : i < id}

Last(S) == IF S = {} THEN Null ELSE CHOOSE i \in S : \A j \in S : j <= i

Genesis == [upto |-> Null, links |-> {}]

(* Mutant of EventHash: one field is left out of the hash. *)
EventHashWithoutDetail(prev, id, says) ==
  [upto |-> id, links |-> prev.links \cup {<<prev.upto, id, "recorded">>}]

(* event_hash: what it commits to is the predecessor's hash and the row. *)
EventHash(prev, id, says) ==
  [upto |-> id, links |-> prev.links \cup {<<prev.upto, id, says>>}]

(* COALESCE(hash, ''). *)
Stored(id) == IF id = Null \/ hash[id] = Null THEN Genesis ELSE hash[id]

(* ORDER BY id DESC LIMIT 1. *)
HeadHash == Stored(Last(Rows))

Init ==
  /\ body = [id \in Id |-> IF id \in Legacy THEN "recorded" ELSE Null]
  /\ hash = [id \in Id |-> Null]
  /\ now = 0
  /\ opened = [p \in Proc |-> "closed"]
  /\ minted = [p \in Proc |-> -1]
  /\ disordered = FALSE
  /\ rewrites = {}

-----------------------------------------------------------------------------
Unhashed == {id \in Rows : hash[id] = Null}

(* open: migrate, then backfill_chain's count. *)
Open(p) ==
  /\ opened[p] = "closed"
  /\ opened' = [opened EXCEPT ![p] = IF Unhashed = {} THEN "open" ELSE "counted"]
  /\ UNCHANGED <<body, hash, now, minted, disordered, rewrites>>

(* Every row's hash as backfill_chain recomputes it, oldest first. *)
Rechained(id) ==
  [upto |-> id,
   links |-> {<<Last(Before(i)), i, body[i]>> : i \in Before(id) \cup {id}}]

(* backfill_chain under its lock: all rows, whatever was counted before. *)
Backfill(p) ==
  /\ opened[p] = "counted"
  /\ hash' = [id \in Id |-> IF id \in Rows THEN Rechained(id) ELSE Null]
  /\ opened' = [opened EXCEPT ![p] = "open"]
  /\ disordered' = FALSE
  /\ rewrites' = {}
  /\ UNCHANGED <<body, now, minted>>

Later(m, n) == IF m > n THEN m ELSE n

(* generate_id: the uuid context of a process never goes back, others' bits
   are random. *)
Mintable(p) ==
  {id \in Id : /\ id \notin Rows
               /\ id > minted[p]
               /\ Millis(id) = IF minted[p] = -1 THEN now
                               ELSE Later(now, Millis(minted[p]))}

(* Mutant of Append: the head is read before the lock is taken, so the row
   another process adds meanwhile is chained over. *)
AppendStale(p) ==
  /\ opened[p] = "open"
  /\ \E id \in Mintable(p), stale \in Rows \cup {Null} :
       /\ body' = [body EXCEPT ![id] = "recorded"]
       /\ hash' = [hash EXCEPT ![id] = EventHash(Stored(stale), id, "recorded")]
       /\ minted' = [minted EXCEPT ![p] = id]
       /\ disordered' = (disordered \/ \E i \in Rows : id < i)
  /\ UNCHANGED <<now, opened, rewrites>>

Append(p) ==
  /\ opened[p] = "open"
  /\ \E id \in Mintable(p) :
       /\ body' = [body EXCEPT ![id] = "recorded"]
       /\ hash' = [hash EXCEPT ![id] = EventHash(HeadHash, id, "recorded")]
       /\ minted' = [minted EXCEPT ![p] = id]
       /\ disordered' = (disordered \/ \E i \in Rows : id < i)
  /\ UNCHANGED <<now, opened, rewrites>>

(* The process ends; its uuid context ends with it. *)
Close(p) ==
  /\ opened[p] # "closed"
  /\ opened' = [opened EXCEPT ![p] = "closed"]
  /\ minted' = [minted EXCEPT ![p] = -1]
  /\ UNCHANGED <<body, hash, now, disordered, rewrites>>

Clock ==
  /\ \E d \in Steps : now' = now + d /\ now' \in 0..MaxTime
  /\ UNCHANGED <<body, hash, opened, minted, disordered, rewrites>>

(* Someone edits a row around the librarian. *)
Rewrite(id) ==
  /\ body[id] = "recorded"
  /\ Cardinality(rewrites) < MaxRewrites
  /\ body' = [body EXCEPT ![id] = "forged"]
  /\ rewrites' = rewrites \cup {id}
  /\ UNCHANGED <<hash, now, opened, minted, disordered>>

Next ==
  \/ \E p \in Proc : Open(p) \/ Backfill(p) \/ Append(p) \/ Close(p)
  \/ Clock
  \/ \E id \in Id : Rewrite(id)

Spec == Init /\ [][Next]_vars

-----------------------------------------------------------------------------
(* verify_chain recomputes in id order; up to the first mismatch the hash it
   carries forward is the stored one. *)
Mismatch(id) ==
  id \in Rows /\ Stored(id) # EventHash(Stored(Last(Before(id))), id, body[id])

Broken == {id \in Id : Mismatch(id)}
FirstBreak == IF Broken = {} THEN Null ELSE CHOOSE i \in Broken : \A j \in Broken : i <= j

-----------------------------------------------------------------------------
(* Rows and hashes have the shapes the table declares; only rows of a ledger
   from before the chain lack a hash, and only until the first open is done. *)
TypeOK ==
  /\ body \in [Id -> Body \cup {Null}]
  /\ hash \in [Id -> Hash \cup {Null}]
  /\ now \in 0..MaxTime
  /\ opened \in [Proc -> {"closed", "counted", "open"}]
  /\ minted \in [Proc -> Int]
  /\ disordered \in BOOLEAN
  /\ rewrites \subseteq Id
  /\ \A id \in Id \ Rows : hash[id] = Null
  /\ (\E p \in Proc : opened[p] = "open") => Unhashed = {}

(* A ledger no one edited, whose appends took ids in order, verifies: racing
   openers that each rehash everything, and appends between their count and
   their rehash, never break a link. *)
OrderedLedgerVerifies ==
  Unhashed = {} /\ ~disordered /\ rewrites = {} => Broken = {}

(* "or name the first broken link": after edits to an ordered ledger,
   verification names the earliest edited row, however many appends follow. *)
RewriteIsNamed ==
  Unhashed = {} /\ ~disordered /\ rewrites # {} =>
    FirstBreak \in rewrites /\ \A id \in rewrites : FirstBreak <= id
=============================================================================
