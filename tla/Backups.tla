------------------------------ MODULE Backups -------------------------------
(***************************************************************************)
(* Which snapshots of a shelf survive (crates/kumbarium-store backup.rs).  *)
(* A snapshot is its time; the tiering lives entirely in the pruner, which *)
(* computes it from the times that are left.                               *)
(***************************************************************************)
EXTENDS Integers, FiniteSets, FiniteSetsExt

CONSTANTS
  Times,        \* the times snapshots are taken at
  Day, Week,    \* how long a day and a week are
  Recent, Dailies, Weeklies   \* Retention

ASSUME RetentionAssumption ==
  /\ Times \subseteq Nat /\ IsFiniteSet(Times) /\ {Day, Week} \subseteq Nat \ {0}
  /\ {Recent, Dailies, Weeklies} \subseteq Nat

Newer(S, t) == {u \in S : u > t}

\* The newest n of S.
Newest(S, n) == {t \in S : Cardinality(Newer(S, t)) < n}

Buckets(S, width) == {u \div width : u \in S}

(* Mutant of Leaders: the first snapshot of a bucket leads it. *)
LeadersOldest(S, buckets, width) ==
  {t \in S : /\ \A u \in S : u < t => u \div width # t \div width
             /\ Cardinality(Buckets(Newer(S, t), width)) <= buckets}

\* mark_bucket_leaders walks the snapshots newest first and keeps the first
\* of each bucket, until it has seen as many buckets as it may.
Leaders(S, buckets, width) ==
  {t \in S : /\ \A u \in Newer(S, t) : u \div width # t \div width
             /\ Cardinality(Buckets(Newer(S, t), width)) < buckets}

Prune(S) == Newest(S, Recent) \cup Leaders(S, Dailies, Day) \cup Leaders(S, Weeklies, Week)

-----------------------------------------------------------------------------
\* backup.rs:91-119.  A set of snapshots that has lost no more than a prune
\* would take is pruned to what the policy keeps of the whole: no prune, and no
\* half of one, takes a file that a later day's or week's ladder needs.
PruningIsIncremental ==
  \A H \in SUBSET Times : \A S \in SUBSET H :
    Prune(H) \subseteq S => Prune(S) = Prune(H)
=============================================================================
