------------------------------- MODULE Shelf --------------------------------
(***************************************************************************)
(* Opening one shelf's database file (migrate in kumbarium-store, -audit,  *)
(* -docket, -handoff, -secrets and -leases, which read alike): every       *)
(* process that opens a shelf brings its tables to the newest schema       *)
(* first.  The version is read once, each migration commits in a           *)
(* transaction of its own, and its row in schema_version is inserted after *)
(* that transaction, so the openers of one file interleave between any two *)
(* of these statements and may die between them.                           *)
(***************************************************************************)
EXTENDS Integers, FiniteSets, FiniteSetsExt

CONSTANTS
  Proc,         \* processes that may open the shelf
  Latest,       \* the last of MIGRATIONS
  Rebuilds,     \* migrations that rebuild a table (0002, 0003, ... of audit)
  Found,        \* the schemas a shelf may be found at; 0 is no file yet
  MaxCrashes    \* bound: processes that die

ASSUME MigrationAssumption ==
  /\ Latest \in Nat \ {0} /\ MaxCrashes \in Nat
  /\ Rebuilds \subseteq 2 .. Latest /\ Found \subseteq 0 .. Latest

VARIABLES
  schema,       \* the migration whose tables the file has, 0 for none
  versions,     \* schema_version: the rows' numbers
  legacy,       \* schema_version holds a row from before the squash
  opener,       \* where each process is in open
  current,      \* the version it read, and then the one it stamped
  crashes,      \* history: how many died
  regressed     \* history: a rebuild ran over tables newer than its own

tables == <<schema, versions, legacy, current, regressed>>
shelfVars == <<tables, opener, crashes>>

Version == Max(versions \cup {0})

ShelfInit ==
  /\ \E s \in Found : schema = s /\ versions = 1 .. s
  /\ legacy = FALSE
  /\ opener = [p \in Proc |-> "out"]
  /\ current = [p \in Proc |-> 0]
  /\ crashes = 0 /\ regressed = FALSE

\* A shelf of before D-030: six migrations became one with the same tables.
LegacyInit ==
  /\ schema = 1 /\ versions = {} /\ legacy = TRUE
  /\ opener = [p \in Proc |-> "out"]
  /\ current = [p \in Proc |-> 0]
  /\ crashes = 0 /\ regressed = FALSE

Goes(p, where) == opener' = [opener EXCEPT ![p] = where]

\* open: the connection, and CREATE TABLE IF NOT EXISTS schema_version.
Enter(p) ==
  /\ opener[p] = "out"
  /\ Goes(p, "check")
  /\ UNCHANGED <<tables, crashes>>

\* normalize_legacy_versions: three statements and no transaction.
Check(p) ==
  /\ opener[p] = "check"
  /\ Goes(p, IF legacy THEN "collapse" ELSE "read")
  /\ UNCHANGED <<tables, crashes>>

Collapse(p) ==
  /\ opener[p] = "collapse"
  /\ legacy' = FALSE /\ versions' = {}
  /\ Goes(p, "restamp")
  /\ UNCHANGED <<schema, current, crashes, regressed>>

Restamp(p) ==
  /\ opener[p] = "restamp"
  /\ IF 1 \in versions
     THEN Goes(p, "failed") /\ UNCHANGED versions
     ELSE Goes(p, "read") /\ versions' = versions \cup {1}
  /\ UNCHANGED <<schema, legacy, current, crashes, regressed>>

(* Mutant of Done: the last migration is left out. *)
DoneEarly(v) == v + 1 >= Latest

Done(v) == v >= Latest

\* SELECT MAX(version): read once, before the loop.
ReadVersion(p) ==
  /\ opener[p] = "read"
  /\ current' = [current EXCEPT ![p] = Version]
  /\ Goes(p, IF Done(Version) THEN "open" ELSE "apply")
  /\ UNCHANGED <<schema, versions, legacy, crashes, regressed>>

\* BEGIN; the migration; COMMIT.  One that creates a table or adds a column
\* fails on tables that already have it.  A rebuild copies the columns it
\* names into a table of its own day's shape: over newer tables it goes
\* through unless a row uses what is newer.
Apply(p) ==
  LET v == current[p] + 1 IN
  /\ opener[p] = "apply"
  /\ \/ /\ schema = v - 1 \/ (v \in Rebuilds /\ schema >= v - 1)
        /\ schema' = v /\ regressed' = (regressed \/ schema > v)
        /\ Goes(p, "stamp")
     \/ /\ schema # v - 1 /\ ~(v \in Rebuilds /\ schema = v)
        /\ Goes(p, "failed")
        /\ UNCHANGED <<schema, regressed>>
  /\ UNCHANGED <<versions, legacy, current, crashes>>

\* INSERT INTO schema_version: the version is its primary key.
Stamp(p) ==
  LET v == current[p] + 1 IN
  /\ opener[p] = "stamp"
  /\ IF v \in versions
     THEN Goes(p, "failed") /\ UNCHANGED <<versions, current>>
     ELSE /\ versions' = versions \cup {v}
          /\ current' = [current EXCEPT ![p] = v]
          /\ Goes(p, IF Done(v) THEN "open" ELSE "apply")
  /\ UNCHANGED <<schema, legacy, crashes, regressed>>

\* The process ends, with or without having opened the shelf.
Leave(p) ==
  /\ opener[p] \in {"open", "failed"}
  /\ Goes(p, "out")
  /\ UNCHANGED <<tables, crashes>>

Die(p) ==
  /\ opener[p] # "out" /\ crashes < MaxCrashes
  /\ crashes' = crashes + 1
  /\ Goes(p, "out")
  /\ UNCHANGED tables

Opening(p) ==
  \/ Enter(p) \/ Check(p) \/ Collapse(p) \/ Restamp(p)
  \/ ReadVersion(p) \/ Apply(p) \/ Stamp(p)

ShelfSpec == (ShelfInit \/ LegacyInit) /\
             [][\E p \in Proc : Opening(p) \/ Leave(p) \/ Die(p)]_shelfVars

-----------------------------------------------------------------------------
(* Properties. *)

\* store/lib.rs:148-173.  A process that got its shelf open works on the
\* newest tables, whoever else opened or died over the same file: a second
\* opener waits its turn, fails, or finds the work done, and a rebuild that a
\* crash left without its row runs again.  The exception is an opener that
\* read the version before others migrated by more than one: its rebuild takes
\* the tables back, its own row is refused, and nobody rebuilds them again.
OpenedIsCurrent == ~regressed => \A p \in Proc : opener[p] = "open" => schema = Latest
=============================================================================
