-------------------------------- MODULE Home --------------------------------
(***************************************************************************)
(* A library home shared by processes (crates/kumbarium: main.rs serve and *)
(* maintenance, procs.rs, cli/process.rs, cli/doctor.rs, cli/update.rs;    *)
(* kumbarium-util lock.rs; kumbarium-store backup.rs).  A `kum serve`      *)
(* opens its shelves, backs them up if a backup is due, registers its      *)
(* presence and serves; on SIGUSR1 it re-executes and boots again under    *)
(* the same pid.  `kum serve reload` signals the processes whose presence  *)
(* record is locked; `kum doctor --apply` takes a snapshot and sweeps what *)
(* dead processes left.  Nothing but advisory locks keeps them apart.      *)
(*                                                                         *)
(* One shelf stands for the six (module Shelf opens it); a process is its  *)
(* pid; a .lock file is an inode, and its name may be unlinked under the   *)
(* process that holds it.                                                  *)
(***************************************************************************)
EXTENDS Shelf, Backups

CONSTANTS
  Server, Tool,   \* kum serve processes; one-shot kum commands
  MaxInodes,      \* bound: lock files ever created
  MaxStarts,      \* bound: boots of servers
  MaxClock,       \* bound: the clock
  Interval        \* backup_interval_hours

ASSUME ProcessAssumption ==
  /\ Proc = Server \cup Tool /\ Server \cap Tool = {}
  /\ {MaxInodes, MaxStarts, MaxClock, Interval} \subseteq Nat

VARIABLES
  at,           \* where each process is; see Phase
  clock,
  snapshots,    \* backups/<shelf>: the snapshots' times
  temps,        \* and the processes whose .tmp- file is there
  maint_lock,   \* who holds the maintenance lock
  record,       \* procs/<pid>.json is there
  lockfile,     \* procs/<pid>.json.lock: its inode, 0 for none
  inodes,       \* inodes used
  holds,        \* the inode a process keeps locked: its Presence
  probe,        \* the inode a command's scan has locked for an instant
  flag,         \* a server was asked to reload
  purpose,      \* what a command scans the records for
  left,         \* the records its scan has still to look at
  live, stale,  \* what it made of the others
  starts,       \* history: boots
  taken,        \* history: the snapshots ever placed
  late,         \* history: records a scan found stale before their process registered
  overtaken     \* history: servers swept on such a finding

files == <<record, lockfile, inodes>>
locks == <<holds, probe>>
scan == <<purpose, left, live, stale, late>>
ladder == <<snapshots, taken>>
backup == <<clock, ladder, temps, maint_lock>>
hostVars == <<at, backup, files, locks, flag, scan, starts, overtaken>>
homeVars == <<shelfVars, hostVars>>

Nobody == "nobody"
Purpose == {"inspect", "survey", "sweep", "reload"}
Phase == {"down", "open", "maintain", "copied", "placed", "register", "recorded",
          "ready", "up", "scan", "remove", "signal", "done"}

HomeInit ==
  /\ ShelfInit \/ LegacyInit
  /\ at = [p \in Proc |-> "down"]
  /\ clock = 1 /\ snapshots = {} /\ taken = {} /\ temps = {} /\ maint_lock = Nobody
  /\ record = [s \in Server |-> FALSE] /\ lockfile = [s \in Server |-> 0] /\ inodes = 0
  /\ holds = [p \in Proc |-> 0] /\ probe = [t \in Tool |-> 0]
  /\ flag = [s \in Server |-> FALSE]
  /\ purpose = [t \in Tool |-> "inspect"]
  /\ left = [t \in Tool |-> {}] /\ live = [t \in Tool |-> {}] /\ stale = [t \in Tool |-> {}]
  /\ starts = 0
  /\ late = [t \in Tool |-> {}] /\ overtaken = [s \in Server |-> FALSE]

To(p, phase) == at' = [at EXCEPT ![p] = phase]

-----------------------------------------------------------------------------
(* Booting, and the shelves. *)

\* serve and doctor open the shelves; kum serve reload only reads procs/.
Start(p) ==
  /\ at[p] = "down" /\ starts < MaxStarts
  /\ To(p, "open") /\ starts' = starts + 1
  /\ Enter(p)
  /\ UNCHANGED <<backup, files, locks, flag, scan, overtaken>>

Boot(p) ==
  /\ at[p] = "open" /\ opener[p] \notin {"open", "failed"}
  /\ Opening(p)
  /\ UNCHANGED hostVars

Scans(t, what) ==
  /\ purpose' = [purpose EXCEPT ![t] = what]
  /\ left' = [left EXCEPT ![t] = {s \in Server : record[s]}]
  /\ live' = [live EXCEPT ![t] = {}]
  /\ stale' = [stale EXCEPT ![t] = {}]
  /\ late' = [late EXCEPT ![t] = {}]
  /\ To(t, "scan")

\* A server goes on to maintenance, the doctor to its findings.
Opened(p) ==
  /\ at[p] = "open" /\ opener[p] = "open"
  /\ IF p \in Server THEN To(p, "maintain") /\ UNCHANGED scan ELSE Scans(p, "inspect")
  /\ UNCHANGED <<shelfVars, backup, files, locks, flag, starts, overtaken>>

BootFails(p) ==
  /\ at[p] = "open" /\ opener[p] = "failed"
  /\ To(p, IF p \in Server THEN "down" ELSE "done")
  /\ Leave(p)
  /\ UNCHANGED <<backup, files, locks, flag, scan, starts, overtaken>>

-----------------------------------------------------------------------------
(* maintenance: at serve startup if due, for the doctor in any case. *)

After(p) == IF p \in Server THEN To(p, "register") /\ UNCHANGED scan
                            ELSE Scans(p, "sweep")

Due(p) == p \in Tool \/ \A t \in snapshots : clock - t >= Interval

(* Mutant of Skip: a held maintenance lock is waited for. *)
SkipNotDue(p) ==
  /\ at[p] = "maintain" /\ ~Due(p)
  /\ IF p \in Server THEN To(p, "register") /\ UNCHANGED <<scan, temps>>
                     ELSE Scans(p, "sweep") /\ temps' = {}
  /\ UNCHANGED <<shelfVars, clock, ladder, maint_lock, files, locks, flag, starts, overtaken>>

\* The lock held elsewhere: skip quietly, and go on as if it were done.
Skip(p) ==
  /\ at[p] = "maintain" /\ (maint_lock # Nobody \/ ~Due(p))
  /\ IF p \in Server THEN To(p, "register") /\ UNCHANGED <<scan, temps>>
                     ELSE Scans(p, "sweep") /\ temps' = {}
  /\ UNCHANGED <<shelfVars, clock, ladder, maint_lock, files, locks, flag, starts, overtaken>>

\* backup: VACUUM INTO a temporary name, integrity-checked.
Copy(p) ==
  /\ at[p] = "maintain" /\ maint_lock = Nobody /\ Due(p)
  /\ maint_lock' = p /\ temps' = temps \cup {p}
  /\ To(p, "copied")
  /\ UNCHANGED <<shelfVars, clock, ladder, files, locks, flag, scan, starts, overtaken>>

\* Renamed into place, unless a sweep took the temporary file: then a server
\* says so and serves, and the doctor ends.
Place(p) ==
  /\ at[p] = "copied"
  /\ IF p \in temps
     THEN /\ snapshots' = snapshots \cup {clock} /\ taken' = taken \cup {clock}
          /\ temps' = temps \ {p}
          /\ To(p, "placed") /\ UNCHANGED <<opener, maint_lock>>
     ELSE /\ maint_lock' = Nobody /\ UNCHANGED <<ladder, temps>>
          /\ IF p \in Server THEN To(p, "register") /\ UNCHANGED opener
                             ELSE To(p, "done") /\ Goes(p, "out")
  /\ UNCHANGED <<tables, crashes, clock, files, locks, flag,
                 scan, starts, overtaken>>

\* prune: the files outside the retention, newest first, one unlinked after the
\* other.  What goes was settled before the first; one file less settles it the
\* same way, as PruningIsIncremental says.
PruneFile(p) ==
  /\ at[p] = "placed" /\ Prune(snapshots) # snapshots
  /\ snapshots' = snapshots \ {Max(snapshots \ Prune(snapshots))}
  /\ UNCHANGED <<shelfVars, at, clock, taken, temps, maint_lock, files, locks, flag, scan,
                 starts, overtaken>>

\* The lock goes with the end of maintenance; the doctor then sweeps every
\* temporary file before it looks for stale records.
Maintained(p) ==
  /\ at[p] = "placed" /\ Prune(snapshots) = snapshots
  /\ maint_lock' = Nobody
  /\ IF p \in Server THEN To(p, "register") /\ UNCHANGED <<scan, temps>>
                     ELSE Scans(p, "sweep") /\ temps' = {}
  /\ UNCHANGED <<shelfVars, clock, ladder, files, locks, flag, starts, overtaken>>

Tick ==
  /\ clock < MaxClock
  /\ clock' = clock + 1
  /\ UNCHANGED <<shelfVars, at, ladder, temps, maint_lock, files, locks, flag, scan,
                 starts, overtaken>>

-----------------------------------------------------------------------------
(* Presence. *)

Locked(inode) == \/ \E p \in Proc : holds[p] = inode
                 \/ \E t \in Tool : probe[t] = inode

\* ProcessLock opens the file, creating it if its name is gone, then asks
\* for the lock without waiting.
OpenLock(s, inode) ==
  IF lockfile[s] # 0
  THEN inode = lockfile[s] /\ UNCHANGED <<lockfile, inodes>>
  ELSE /\ inodes < MaxInodes /\ inode = inodes + 1
       /\ inodes' = inode /\ lockfile' = [lockfile EXCEPT ![s] = inode]

WriteRecord(s) ==
  /\ at[s] = "register"
  /\ record' = [record EXCEPT ![s] = TRUE]
  /\ To(s, "recorded")
  /\ UNCHANGED <<shelfVars, backup, lockfile, inodes, locks, flag, scan, starts, overtaken>>

\* Presence::register: a lock that refuses leaves the process serving
\* without a Presence.
Register(s) ==
  /\ at[s] = "recorded"
  /\ \E inode \in 1 .. MaxInodes :
       /\ OpenLock(s, inode)
       /\ holds' = [holds EXCEPT ![s] = IF Locked(inode) THEN 0 ELSE inode]
  /\ overtaken' = [overtaken EXCEPT ![s] = ~record[s]]
  /\ late' = [t \in Tool |-> late[t] \cup ({s} \cap stale[t])]
  /\ To(s, "ready")
  /\ UNCHANGED <<shelfVars, backup, record, probe, flag, purpose, left, live, stale, starts>>

\* hot::serve installs its handler and serves.
Serve(s) ==
  /\ at[s] = "ready"
  /\ To(s, "up")
  /\ UNCHANGED <<shelfVars, backup, files, locks, flag, scan, starts, overtaken>>

\* initialize rewrites the record with the claimed agent.
Update(s) ==
  /\ at[s] = "up" /\ holds[s] # 0 /\ ~record[s]
  /\ record' = [record EXCEPT ![s] = TRUE]
  /\ UNCHANGED <<shelfVars, at, backup, lockfile, inodes, locks, flag, scan, starts, overtaken>>

\* A clean end drops the Presence: lock, record, lock file.
Exit(s) ==
  /\ at[s] = "up"
  /\ To(s, "down") /\ Goes(s, "out") /\ flag' = [flag EXCEPT ![s] = FALSE]
  /\ holds' = [holds EXCEPT ![s] = 0]
  /\ record' = [record EXCEPT ![s] = @ /\ holds[s] = 0]
  /\ lockfile' = [lockfile EXCEPT ![s] = IF holds[s] = 0 THEN @ ELSE 0]
  /\ UNCHANGED <<tables, crashes, backup, inodes, probe, scan,
                 starts, overtaken>>

\* exec closes the lock's descriptor and drops nothing.
Exec(s) ==
  /\ at[s] = "up" /\ flag[s] /\ starts < MaxStarts
  /\ To(s, "open") /\ Goes(s, "check") /\ starts' = starts + 1
  /\ flag' = [flag EXCEPT ![s] = FALSE]
  /\ holds' = [holds EXCEPT ![s] = 0]
  /\ UNCHANGED <<tables, crashes, backup, files, probe, scan,
                 overtaken>>

Ended(p) ==
  /\ Goes(p, "out")
  /\ maint_lock' = IF maint_lock = p THEN Nobody ELSE maint_lock
  /\ holds' = [holds EXCEPT ![p] = 0]
  /\ probe' = [t \in Tool |-> IF t = p THEN 0 ELSE probe[t]]
  /\ flag' = [s \in Server |-> IF s = p THEN FALSE ELSE flag[s]]
  /\ UNCHANGED <<tables, clock, ladder, temps, files, scan,
                 starts, overtaken>>

Crash(p) ==
  /\ at[p] \notin {"down", "done"} /\ crashes < MaxCrashes
  /\ crashes' = crashes + 1
  /\ To(p, IF p \in Server THEN "down" ELSE "done")
  /\ Ended(p)

-----------------------------------------------------------------------------
(* kum serve reload, kum doctor --apply. *)

ReloadCmd(t) ==
  /\ at[t] = "down"
  /\ Scans(t, "reload")
  /\ UNCHANGED <<shelfVars, backup, files, locks, flag, starts, overtaken>>

\* scan: a lock that refuses proves its process alive (or another scan
\* holds it for its instant).
ProbeAlive(t, s) ==
  /\ at[t] = "scan" /\ probe[t] = 0 /\ s \in left[t]
  /\ lockfile[s] # 0 /\ Locked(lockfile[s])
  /\ left' = [left EXCEPT ![t] = @ \ {s}]
  /\ live' = [live EXCEPT ![t] = IF record[s] THEN @ \cup {s} ELSE @]
  /\ UNCHANGED <<shelfVars, at, backup, files, locks, flag, purpose, stale, late, starts,
                 overtaken>>

(* Mutant of ProbeTake: the lock file is opened and the lock never asked for. *)
ProbeUnasked(t, s) ==
  /\ at[t] = "scan" /\ probe[t] = 0 /\ s \in left[t]
  /\ \E inode \in 1 .. MaxInodes :
       /\ OpenLock(s, inode)
       /\ probe' = [probe EXCEPT ![t] = inode]
  /\ left' = [left EXCEPT ![t] = @ \ {s}]
  /\ stale' = [stale EXCEPT ![t] = @ \cup {s}]
  /\ UNCHANGED <<shelfVars, at, backup, record, holds, flag, purpose, live, late, starts,
                 overtaken>>

ProbeTake(t, s) ==
  /\ at[t] = "scan" /\ probe[t] = 0 /\ s \in left[t]
  /\ \E inode \in 1 .. MaxInodes :
       /\ OpenLock(s, inode) /\ ~Locked(inode)
       /\ probe' = [probe EXCEPT ![t] = inode]
  /\ left' = [left EXCEPT ![t] = @ \ {s}]
  /\ stale' = [stale EXCEPT ![t] = @ \cup {s}]
  /\ UNCHANGED <<shelfVars, at, backup, record, holds, flag, purpose, live, late, starts,
                 overtaken>>

ProbeDrop(t) ==
  /\ probe[t] # 0
  /\ probe' = [probe EXCEPT ![t] = 0]
  /\ UNCHANGED <<shelfVars, at, backup, files, holds, flag, scan, starts, overtaken>>

Scanned(t, what) == at[t] = "scan" /\ purpose[t] = what /\ left[t] = {} /\ probe[t] = 0

\* doctor_cmd: nothing preen-class, nothing to apply; else apply_repairs
\* looks for live processes first.
Inspected(t) ==
  /\ Scanned(t, "inspect")
  /\ IF stale[t] = {} /\ temps = {}
     THEN To(t, "done") /\ Goes(t, "out") /\ UNCHANGED scan
     ELSE Scans(t, "survey") /\ UNCHANGED opener
  /\ UNCHANGED <<tables, crashes, backup, files, locks, flag,
                 starts, overtaken>>

\* File surgery requires an empty registry.
Surveyed(t) ==
  /\ Scanned(t, "survey")
  /\ IF live[t] # {}
     THEN To(t, "done") /\ Goes(t, "out")
     ELSE To(t, "maintain") /\ UNCHANGED opener
  /\ UNCHANGED <<tables, crashes, backup, files, locks, flag,
                 scan, starts, overtaken>>

\* The stale records found, one file after the other.
Remove(t) ==
  /\ Scanned(t, "sweep")
  /\ IF stale[t] = {}
     THEN To(t, "done") /\ Goes(t, "out") /\ UNCHANGED <<files, stale, overtaken>>
     ELSE \E s \in stale[t] :
            /\ record' = [record EXCEPT ![s] = FALSE]
            /\ lockfile' = [lockfile EXCEPT ![s] = IF record[s] THEN 0 ELSE @]
            /\ stale' = [stale EXCEPT ![t] = @ \ {s}]
            /\ overtaken' = [overtaken EXCEPT ![s] = @ \/ s \in late[t]]
            /\ UNCHANGED <<at, opener, inodes>>
  /\ UNCHANGED <<tables, crashes, backup, locks, flag, purpose,
                 left, live, late, starts>>

\* kill(pid, SIGUSR1): a process that has not installed its handler, or has
\* just replaced its image, ends.
Signal(t) ==
  /\ Scanned(t, "reload")
  /\ IF live[t] = {}
     THEN To(t, "done") /\ UNCHANGED <<shelfVars, flag, locks, maint_lock, live>>
     ELSE \E s \in live[t] :
            /\ live' = [live EXCEPT ![t] = @ \ {s}]
            /\ CASE at[s] = "up" ->
                      flag' = [flag EXCEPT ![s] = TRUE]
                      /\ UNCHANGED <<shelfVars, at, locks, maint_lock>>
                 [] at[s] = "down" -> UNCHANGED <<shelfVars, at, flag, locks, maint_lock>>
                 [] OTHER ->
                      /\ To(s, "down") /\ Goes(s, "out")
                      /\ maint_lock' = IF maint_lock = s THEN Nobody ELSE maint_lock
                      /\ holds' = [holds EXCEPT ![s] = 0]
                      /\ UNCHANGED <<tables, crashes, flag, probe>>
  /\ UNCHANGED <<clock, ladder, temps, files, purpose, left, stale, late, starts,
                 overtaken>>

-----------------------------------------------------------------------------
HomeNext ==
  \/ Tick
  \/ \E p \in Proc : Start(p) \/ Boot(p) \/ Opened(p) \/ BootFails(p) \/ Skip(p)
                     \/ Copy(p) \/ Place(p) \/ PruneFile(p) \/ Maintained(p) \/ Crash(p)
  \/ \E s \in Server : WriteRecord(s) \/ Register(s) \/ Serve(s) \/ Update(s)
                       \/ Exit(s) \/ Exec(s)
  \/ \E t \in Tool : ReloadCmd(t) \/ ProbeDrop(t) \/ Inspected(t) \/ Surveyed(t)
                     \/ Remove(t) \/ Signal(t)
  \/ \E t \in Tool, s \in Server : ProbeAlive(t, s) \/ ProbeTake(t, s)

HomeSpec == HomeInit /\ [][HomeNext]_homeVars

\* A server that was started runs; a command may be left at its prompt, and a
\* reload, an exit or a death owes nothing.
Boots(s) ==
  Boot(s) \/ Opened(s) \/ BootFails(s) \/ Skip(s) \/ Copy(s) \/ Place(s) \/ PruneFile(s)
  \/ Maintained(s) \/ WriteRecord(s) \/ Register(s) \/ Serve(s)
Fairness == \A s \in Server : WF_homeVars(Boots(s))
HomeFairSpec == HomeSpec /\ Fairness

-----------------------------------------------------------------------------
(* Properties. *)

\* procs.rs:6-9, doctor.rs:462-470.  While a process holds its Presence, its
\* record is there and vouched for by the lock it holds, whatever boots,
\* reloads, scans and dies around it: no sweep ever takes the record of a
\* process that had registered when the sweep looked.  The one exception is
\* a finding older than the registration (overtaken).
SweepSparesTheLiving ==
  \A s \in Server : holds[s] # 0 /\ ~overtaken[s] => record[s] /\ lockfile[s] = holds[s]

\* backup.rs:91-119.  Every backup prunes what earlier prunes left, and may
\* die before its prune or half way through it: still, whatever the retention
\* keeps of all the snapshots ever placed is there, at every moment.
LadderHolds ==
  /\ Prune(taken) \subseteq snapshots /\ snapshots \subseteq taken
  /\ PruningIsIncremental

\* main.rs:719-734, 1002-1024, procs.rs:44-47.  A server that starts or
\* re-executes comes up, or fails or dies: no lock that another process
\* holds, stopped or dead half way through its own work, keeps it waiting.
BootEnds == \A s \in Server : (at[s] = "open") ~> (at[s] \in {"up", "down"})
=============================================================================
