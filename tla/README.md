# Kumbarium in TLA+

Kumbarium (`kum`) is a librarian for coding agents: one Rust binary that
serves MCP tools to agents (`kum serve`), gives the human a command line over
the same shelves, and keeps everything in SQLite files. There is no daemon.
Every `kum` process opens the files itself, so the shelves are shared state,
SQLite's write lock is the only mutual exclusion, and what a function does
outside one statement or one `BEGIN IMMEDIATE` transaction can interleave with
every other process. This directory models that: which rows the shelves hold,
what each verb and tool does to them in which steps, and what may happen
between two steps.

## The system

| component | state it keeps | operations |
|---|---|---|
| memory shelf (`kumbarium-store`: `entries.rs`, `links.rs`) | `memory.db`: `entries`, `entry_links`, namespaces | remember, supersede, split writes, link, approve, reject, retire, forget, move, revert, recall and list, version history, import |
| handoff shelf (`kumbarium-handoff`) | `handoff.db`: `handoffs` | write, approve, reject, drop, standing, history, import |
| docket (`kumbarium-docket`) | `docket.db`: `tasks` | file, regrade/reword, move, done/drop, approve, reject, list, history, rotation matters, import |
| reading room (`kumbarium-leases`) | `leases.db`: `leases` | take, release, renew on every call, break, the register |
| restricted stacks (`kumbarium-secrets`) | `secrets.db`: stocks, grants; the keychain | set, rotate, shred, grant, revoke, read, list, history |
| audit ledger (`kumbarium-audit`) | `audit.db`: `events`, hash-chained | open and backfill, append, verify, follow, export |
| actor registry (`store/actors.rs`) | `memory.db`: `actors` | mint, add, rename, merge, retire, resolve |
| namespace registry (`entries.rs`, `cli/admin.rs`) | `memory.db`: `namespaces` | add, remove, the doctor's drift check |
| serve (`rpc.rs`, `tools.rs`, `actor.rs`) | per process: the bound actor, served frames, buffered input; a state file across a reload | initialize, tools, bind, the stdio loop, reload, idle ping, shutdown |
| presence (`procs.rs`, `lock.rs`) | one locked JSON file per serve | register, probe, list, sweep, signal |
| opening and keeping shelves (`migrate` of each shelf, `backup.rs`, `main.rs`) | schema versions, snapshots, the maintenance lock | migrate, back up, prune |
| bundles (`bundle.rs`) | none; moves rows between libraries | export, five-pass import |
| desk, admin, doctor, importers, site, rendering | none of their own | judge rows, verify, print |

How they meet. An agent's call arrives on a serve process's standard input,
the handler binds the session to an actor on first need, reads or writes one or
more shelves, appends an event to the ledger, and the dispatcher renews the
session's leases. The human's verbs do the same from short-lived processes,
and the human alone judges (`kum approve`, `kum reject`), drops, retires,
forgets, breaks leases and grants secrets. The shelves do not call each other;
two shelves are never in one transaction.

Hard behaviour, which the list in `PROJECT.json` gives line by line:

- a read and a write in two statements with no transaction around them
  (`drop_standing`, `set_state`, lease `take`, the secret grant check, the
  rotation matter's sync, namespace removal, actor merge, the migrations, the
  two queries of the register, the two reads of `audit follow`);
- an operation that is several store calls (`store_split`, a bundle import, a
  tool call followed by its audit append), which can stop half way and which
  others see half done;
- chains of versions (`superseded_by`) that trusted writers, quarantined
  writers, the desk, deletions and imports all extend;
- an order that is assumed of ids minted by different processes (the hash
  chain of the ledger);
- time: leases that lapse while a call that read the clock earlier is still
  about to write, a watchdog that counts while an answer waits in a pipe;
- a session's memory and its half-read input, carried over a re-exec through a
  file; locks that a re-exec drops and a probe takes for an instant.

## The modules

| module | models | correctness it is about |
|---|---|---|
| `Handoff`, refined from `Bulletin` | the handoff shelf, every writer, the desk, drops | one standing briefing per namespace; quarantine displaces nothing; drops spare what they did not read |
| `Collection` | entries, edges, split writes, the desk, retire, forget | nothing unjudged is served; one version of a fact; histories read back |
| `Catalogue`, over `Collection` | move, revert, the import of a memory file; list, show, get, review, inbox | what waits at the desk is not served anywhere; the list tells each entry once; an import stores a file once |
| `Docket`, refined from `Matters` | tasks, edits, the two-step judgment, the desk | one head per matter; closed stays closed |
| `Desk`, over `Docket` | the verbs over tasks, `kum move`, the rotation matter of a secret; timeline, roadmap, inbox, history | an open matter has one place; histories are whole; one rotation matter per secret |
| `Witness` | the ledger: open, backfill, append, edits around it, the clock | the chain verifies, or names the earliest edit |
| `Follower`, over `Witness` | `kum audit follow`: backlog, cursor, stream | every event is told once |
| `ReadingRoom` | leases, calls in flight, the clock, breaks | one card per holder; cards lapse on schedule; joiners are warned |
| `Register`, over `ReadingRoom` | `kum leases`: two queries with the room moving between them | no card is told twice or passed over |
| `Serve` | sessions, the order of steps of a call, binding, the ledger, failures, death, reload | the trail opens with the bind; nothing acknowledged is unwitnessed; a frame is pressed once |
| `Hot` | the stdio loop of one serve: lines in pieces, reload, the idle ping, end of input | lines are neither lost nor repeated over a re-exec; requests are answered; only a silent client is let go, and it is |
| `Stacks` | secrets: rotation, shredding, grants, the sealing mode, the master key, every read step by step | material rests in live heads only; a value moves only under a grant and after its ledger line |
| `Custody`, over `Stacks` | the listing, the card and the rotation chain | every version reads the same chain |
| `Bundle` | libraries, their revisions and judgments, the bundle files, the import passes over entries and edges | a merge leaves one circulating version; every pointer is taken or disputed |
| `Shelf` | `migrate`, as every shelf has it, with concurrent openers and crashes | a shelf that opens is current |
| `Backups` | the retention ladder | pruning what an earlier prune left, or half pruned, keeps what pruning the whole would |
| `Home`, over `Shelf` and `Backups` | serve processes that boot, back up, register, serve, re-execute and die; the doctor and the reload command | no sweep takes a living process's record; the ladder keeps its rungs whoever dies; no lock keeps a boot waiting |
| `Registry` | actors and namespaces, with sessions binding and humans merging, renaming, retiring, adding and removing | chains of merges end; a client's sessions read as one actor; trails never come apart; no row is orphaned |
| `Walks`, `CollectionProofs`, `DocketProofs`, `HouseProofs`, `StacksProofs`, `ServeProofs`, `RegistryProofs`, `LibraryProofs` | | see Proofs |
| `MC*` | instances for TLC | |

A module "over" another extends it: its variables are added to the other's, its
actions are the other's actions, taken whole, with what the verb does besides,
and the other's properties are checked in the composition.

### Conventions

A table is a set of variables named after its columns, each a function from row
ids to values. Ids are `1..rows` in insertion order, as UUIDv7 ids and rowids
of one process are; `Witness` is the exception, because there the order of ids
minted by different processes is the subject. A deleted or never written row has
a status of its own. `None` (or `Null`) is SQL NULL and the empty `Option`.
A transaction or a single statement is one action. A read followed by a write
outside a transaction is two actions, joined by a variable that holds what the
process has read (`dropping`, `judging`, `watching`, `calling`, `writing`,
`planned`, `todo`, `doing`, `importing`, `verb`), and a third action in which
the process stops in between. Variables commented "history" are not in the
program; they remember what properties speak about (which fact a row states,
which rows the desk approved, when a session last called). An operator whose
comment begins with "Mutant of" is not used by the specification: it is a
plausible mistake in the definition after it, kept to check that each property
would notice.

Text is left out throughout: contents, names, notes, tags, confidence and
severity are read by no rule the modules state, except in `Witness`, where a
row's text is "recorded" or "forged" and the hash is an injective function of
what it is fed.

### Handoff and Bulletin

Columns `namespace`, `agent_id`, `status`, `superseded_by`. `WriteHandoff` is
`write_locked` as a whole: the insert and the supersession of the live head, or
for a pending write of the same writer's pending head. `Approve` is
`approve_locked`, which displaces whatever stands in the same transaction;
`Reject` is one `UPDATE`; `DropRead` and `DropWrite` are the halves of
`drop_standing`. `Bulletin` is what a reader is promised, with no rows: a note
goes up at most once, over what stood there, and comes down. `Standing` and
`Posted` map the one to the other.

### Collection and Catalogue

Columns of `entries`, the edges of `entry_links` as triples, and for each
session the `store_split` it is inside of. `Remember` and `Supersede` store the
first part, `StorePart` and `LinkPart` alternate for the rest, `SplitStops` ends
the write anywhere. `Supersede` includes the status rule ("revising a
quarantined fact keeps it pending") and the edges moving to the new version.
`Forget` deletes the row, its edges and the pointers at it. `version_history` is
the set of rows it collects.

`Catalogue` adds what the human does to the same rows. `kum move` and `kum
revert` are supersessions by the CLI that carry the entry's `source` along;
revert supersedes the head its history shows. An import run looks the file up
by source, and stores it through the same `store_split` later, with other runs
and sessions in between. `ContinuesChain` is the walk that `list`, `show` and
`get` stitch a split entry with, `Listing` what `kum list` prints in which order,
`Get` what an agent is handed by id.

### Docket, Matters and Desk

`supersede_task` forwards any id of a chain to its head inside a transaction and
edits that: one action. `set_state` forwards, checks and updates without one:
`JudgeRead`, `JudgeWrite`, `JudgeDies`. The desk's judgment does not forward.
`Matters` is the life of a matter with no versions in it: filed, waiting, owed,
declined, closed; the mapping reads each matter's state off its head.

`Desk` is the command line over it. `kum move` compares the shelf of the row it
was given and moves the head. `kum secret set --expires` searches the docket for
the secret's open matter (`SyncRead`) and then files or regrades one
(`SyncRotationMatter`). `Timeline`, `Roadmap`, `Inbox`, `Reviewable` and
`History` are what the reading verbs show.

### Witness and Follower

An id is a number whose quotient by `Slots` is its millisecond. `Mintable` is
what the uuid crate's context promises: ids of one process increase, also when
the clock is set back; the bits of two processes are unrelated. `Append` is one
transaction. `Open` counts the rows without a hash before it takes the lock
that `Backfill` then works under. `Rewrite` is someone editing the file around
the librarian. A hash is the set of links it commits to, which makes it
injective without naming a hash function.

The follower chooses its backlog by timestamp, seeds its cursor with the highest
rowid in a second read, and streams by rowid. Rowids are the order in which rows
land, whatever their ids.

### ReadingRoom and Register

A take or release reads the clock and the room, writes later with what it read,
and the dispatcher's renewal does the same after every successful call, so a
call is up to four steps. `CallStops` is a failure or a death in between,
`BreakLease` the human, `Clock` time. Holders are sessions; two sessions may
claim one agent name, which is the case the code is careful about (D-044).
`crossed` records which takes read the room while another call was between its
read and its write, which is the exception the property needs to be true.

`Register` reads the clock, then the active cards, then the stale ones by the
same clock, with the room running in between. `unseen` remembers which open
cards the first query passed over.

### Serve

A call is the sequence of steps its handler makes (`Steps`), and a session's
`todo` is what is left of it. What is kept is the order: `remember` and
`supersede` bind before they write, the other writing tools bind when they
witness, `secret_read` witnesses before it discloses, `recall` notes the frame
as served before it witnesses. Binding looks the key up, mints it if it is
missing and another session did not get there first, appends the bind and then
the mint. Every step that touches a file can fail (`StepFails`), which ends the
call with an error and leaves what was done; `initialize` swallows the error.
`Reload` and `Reborn` are the two sides of the state file.

### Hot

One pass of the loop handles every whole line it holds, looks at the reload
flag, looks at the watchdog and polls its input once. A line reaches the process
as two pieces, the second with the newline, and a read takes any prefix of what
waits, so reads split lines wherever they can. `Reexec` writes the unfinished
piece to the state file and execs; `Boot` consumes it; between the exec and
`Install` the signal's default disposition ends the process. `Tick` is a stretch
of time far longer than a poll; `lag` and `silence` measure how long bytes have
waited and how long nothing was read.

### Stacks and Custody

Columns of `secrets`, the one row of `sealing`, the rows of `grants`, and the
keystore's master key. Every command is a process whose record in `doing` says
what it has read: `set` fetches or mints the key, writes the mode and stores the
row in three transactions; a reader asks the two grant queries, looks at the
stock, witnesses, fetches the key and opens, each by itself. The keystore is met
afresh at every lookup: present, absent, blocked or, where a lookup that fails
looks like a miss (`MissIsSure` false: Linux's `secret-tool`), unreadable. A key
is an identity and an envelope is the key it was sealed under, so decryption is
the comparison `Opens`. The ledger lines of set, shred, grant and revoke come
after their effect and no rule reads them, so they are left out; those of the
readers are what `Witness` is about. One grant names an actor; rows from before
actors existed name a claimed agent and are only ever removed. `Custody` states
what the listing, the card and the rotation chain make of these columns.

### Bundle

Libraries hold versions of the same entries, an entry being the same id
everywhere. `WriteFile` puts a library's live record (`Export`) into a file, and
`Import` takes any file there is, however old: then comes the pass that inserts
what is missing, then the pass that reconciles pointers row by row, then the
edges, and `Stops` is a failure or a kill between any two rows. Between the rows
the local sessions go on revising and the desk goes on judging. `Fork` keeps the
local end of the chain as it was read when the fork was found. `forget`, retired
entries and two contents under one id are left out, as are the passes over tasks
and briefings.

Two history variables say where a merge answers for nothing. `torn` holds the
libraries where an import stopped half way, or that took a file written from half
an import (`whole`). `branched` holds the facts somebody carried on in a second
line: the desk approved a version beside another, a version the desk had not
approved got a circulating successor (a revision of a rejected one, or the
bundle's own pointer over one that waits), or a session revised an imported
version before pass 2 had tied it to the ones before it (`Untied`).

### Shelf, Backups and Home

The six shelves' `migrate` read alike and are one module: the legacy versions
collapsed, the version read once, each migration committed in a transaction of
its own and its version row inserted after that. `Backups` is the pruner as an
operator on sets of times. `Home` puts both under processes: a server opens its
shelf, backs it up if that is due and nobody else is at it, writes its presence
record, takes the record's lock, installs its handler and serves. A lock file is
an inode, and its name may be unlinked under the process that holds it, because
that is what a sweep does. A prune unlinks one file after the other and may die
between two; `taken` remembers every snapshot that was ever placed, so that
`LadderHolds` can say that what the retention keeps of those is still there. The
doctor scans twice before it takes a snapshot and sweeps; each probe of a record
takes the lock for an instant. A re-exec drops the lock and keeps the record.

### Registry

Two registries of one file. A session resolves its actor by name or key, mints
it if nobody has (the unique key decides between two), and appends bind and mint.
A merge reads both rows and writes one, in two steps. `Root` follows merges for
at most `Hops` steps, as `actor_root` does. A namespace's removal counts the rows
of each shelf file in turn, then deletes the registry's row; a writer looks the
namespace up in one file and inserts in another. `Drift` is what the doctor
would report.

## The runs

All runs use actors with different standing, so that every branch of the policy
is taken; TLC reports no action that never fires.

| run | shows | bounds |
|---|---|---|
| `handoff` | a drop clears only what it read; the table implements `Bulletin` | 4 rows, 2 namespaces, a trusted and a quarantined agent beside the CLI, 2 drops at once |
| `collection` | nothing unjudged is served, by search, by id or stitched; one version served; histories and lists complete; an import stored once | 3 rows, fresh writes of 1 or 2 parts, revisions of 1 or 2, 1 hand-drawn edge, 2 sessions, 1 import in flight |
| `docket` | histories whole, one place per open matter, one rotation matter, implements `Matters` | 3 rows, 2 agents, 2 processes that judge or sync |
| `witness` | an ordered ledger verifies, an edited one names the earliest edit, a follower tells each event once | 2 processes, milliseconds 0 to 2 of 2 ids each, 2 rows older than the chain, 1 edit, a backlog of 1 |
| `reading_room` | one card per holder, cards lapse, joiners are warned, the register tells each card once | 2 sessions of one agent, 1 table, 3 cards, 3 clock values, ttl 1 |
| `serve` | the ledger tells the session; a reload is the same session | 2 sessions of one actor, 2 calls each, 1 failing step, 1 scope |
| `hot` | lines kept over reloads, the lively spared, requests answered, the wedged let go | 2 lines, 2 signals, 1 failure, an idle period of 2 ticks, a ping wait of 1 |
| `stacks` | material in live heads only, one mode, reads accounted for, sealed rows open until a key is overwritten, chains read back | 2 terminals and 1 session, 1 name, 2 rows, 2 keys, 2 clock values, a legacy grant or none, lookups that may fail unseen |
| `bundle` | a merge leaves one circulating version, pointers are taken or disputed | 2 libraries, 4 entries, 1 fact, 2 files, 2 imports, from empty libraries and from a judged fork |
| `home` | what opens is current, the ladder is kept, no living process is swept, boots end | 1 server of 3 boots, the doctor and a second command, 2 migrations, a shelf that is new or from before the squash, 1 death, 4 lock files; the ladder over every set of 9 times and every part of it |
| `registry` | merges end, actors are one story, trails never come apart, nothing orphaned | 2 actors bound earlier, 2 verbs of the human and 1 serve to come, 4 actors, 1 failed append, 3 namespaces of which one is a reserved word, 4 hops |

By name, those that the table does not make plain: `ListingTellsOnce` is the
list telling each served entry once while no continued part was revised in
several parts (`branched`), `PendingFactsWait` that what waits at the
desk reaches no reader, `ImportedOnce` that runs of the importer which do
not overlap store a file once, as long as a version that carries its source heads
a chain, `RewriteIsNamed` that an edit is
reported at its earliest event, `FollowTellsEachEventOnce` the same promise of
the follower, `PointersAccountedFor` that an import takes or disputes every
pointer, `OpenedIsCurrent`, `LadderHolds` and `SweepSparesTheLiving` the three
safety properties of `home`, `TrailsNeverComeApart` and `NothingOrphaned` those
of `registry` besides merges and actors. In `home` the
second migration rebuilds a table, as most of them do, so a crash between it and
its version row makes it run twice. `OpenedIsCurrent` excepts the shelf whose
tables a slow opener took back (`regressed`, as listed below), which takes a
third migration: with three, and nothing but the shelf, TLC reaches it.

`LedgerTellsTheSession` is the conjunction of `BindOpensTrail`, `MintsOnce` and
`NothingMovesUnwitnessed`; `ReloadIsTheSameSession` of `BindsOnce` and
`FrameOnce`; `ReloadKeepsTheLines` of `NothingLostOrRepeated` and
`ReloadWaitsItsTurn`; `ActorsAreOneStory` of `OneKeyOneTrail` and `MintsAreTold`;
`ReadsAreAccountedFor` of `GrantCoversRead` and `WitnessedBeforeItMoves`.
The type invariants and the invariants that are proved below for every value of
the constants, or are conjuncts of those, are not repeated in the runs.

Why the bounds are enough. A handoff race needs a standing row, the row that
replaces it and a pending rival, and four rows leave room for a fourth in the
other namespace or behind the approval. Three entries hold a set of two parts
and a revision of either part, or a chain of three versions, or an import and
its revision; a docket race needs one matter, its regrade and a bystander, or
two matters tied to one secret. A lease race needs both sessions to take, one
card to lapse and a retake; the same run with two cards and four clock values
passes too. A ledger needs two old rows for a rehash to have something to break,
and two processes for everything else; it was also run with two edits. Two calls
let a session fail once, be told so, and try again after a reload. Two lines and
two signals are a reload with half a line in hand and another before the rest
came; an idle period of two ticks separates "idle" from "just read". Two
terminals and a session are the race of two first sets with a reader between
them; two rows are a stock and its rotation, two keys a key and the one that
replaces it. Three entries of
`bundle` are a fact and one revision on each side, or a chain of three brought to
a library that knows its first; the fourth lets a session revise a rival between
the passes. That takes both files and both imports, so what a dispute's edge does
in the next file is explored from a second initial state, `Disputed`, which the
empty libraries reach: a fork one library imported and judged. Three boots are a start, a
re-exec and a start after a death; a cycle of merges needs two, and four hops
are more than any chain of four actors.

A revision that splits again branches a set when the part revised is one that
another continues (see below). What the list makes of that takes four rows;
`ListingTellsOnce` was checked there too, with the exception and, to see it fail,
without.

One run is expected to fail. It checks one sentence of the repository against
what the code does, and TLC prints the steps:

| run | the sentence | what happens |
|---|---|---|
| `collection_import` | the import "is idempotent via each entry's `source` field" (`import.rs:5`) | once an agent revises an imported memory, the lookup, which asks for a head with the file's source, finds nothing, and the next run stores the file again |

Other steps TLC showed on the way, which the properties except by name or no
property states:

- revising a part that another continues with content that splits again gives
  the new version two later parts (`links.rs:93-94` calls auto-split chains
  linear): `kum list` prints what the two lines share twice, and stitched from
  one of its parts the set lacks the other line's;
- two processes that take ids of one millisecond against their append order
  leave an untouched ledger that verification reports broken;
- two first commands that find no key mint one each, and what the first sealed
  never opens again;
- a bundle carries a revised fact oldest version first; its pointer names a row
  that is not there yet, foreign keys are on, and the import stops;
- a session that revises a fork's rival between the pass that inserts it and the
  one that quarantines it, by its id, is left with a live head beside the local
  one: the quarantine strikes the version just replaced;
- a bundle written from half an import carries both heads of a fork, and hands
  them on as if they were one library's record;
- an opener that read a shelf's version before another migrated it by more than
  one runs a migration that rebuilds a table over the newer tables, copying only
  the columns it names; its version row is refused and it fails, but the version
  stays the newest, so every later opener takes the older tables for current
  (`audit/lib.rs:490`: "every open migrates to latest"). Collapsing the versions
  of a shelf from before the squash opens the same door;
- an approval over a standing briefing gives one row two predecessors, and the
  history walk follows one;
- a regrade between `set_state`'s check and its update leaves the judgment on
  the replaced version and the matter open;
- two takes that read an empty table together are neither of them warned;
- two syncs of one secret file two rotation matters, and a matter moved to
  another shelf is not found;
- two merges that overlap make a cycle, which the 64 hops cut;
- a frame is noted as served before the audit append that can fail, and the
  next recall then comes without it;
- events that land between the follower's backlog and its cursor are not shown.

## Fairness

Safety is checked without any. Two modules state fairness, because in them
something must happen and the code sees to it:

- `Hot`: `WF(Server)`, the loop's own steps taken together, and `WF(Tick)`. The
  loop has nothing to wait for: its only blocking call is a poll with a timeout,
  and reading, handling a line and exec return. Time passes. Nothing is
  assumed of the client, of the operator or of failures. `Reexec` is a step of
  the loop, so a client could be starved only by signals, of which there are
  finitely many in the model.
- `Home`: `WF(Boots(s))` for each server, from opening the shelf to serving. A
  process that was started runs; the commands, the clock, exits, re-execs and
  deaths are owed nothing, so a doctor may stop for ever with a lock in its
  hand, and `BootEnds` says that nobody waits for it.

The remaining modules have no promise of progress to check: agents may stop
calling, humans may never come to the desk, any process may be killed, and a
lease is allowed to lapse.

`CHECK_DEADLOCK FALSE` is in the configurations whose bounds stop the model when
rows, calls and the clock run out; nothing in the program waits. `Stacks` can
always begin or abandon a command, and deadlock is checked there.

## Proofs

Eight modules hold proofs, checked by TLAPS: seven about components and `Walks`,
the library they share. TLC's instances are small and their counters bounded; in
the theorems the sets of namespaces, agents, humans, sessions, keys, terminals,
tables, tasks, secrets and processes are arbitrary (also infinite, and empty
where the assumptions below do not say otherwise) and the bounds on rows, lines,
calls and time are arbitrary naturals, so a statement about every bound is a
statement about the unbounded program. The assumptions are those the modules
declare:

- bounds, periods and the ttl are natural numbers, and a ping is given some time;
- `None` and `Null` are no number, name, mode, writer, body or hash, and
  `NoScope` is no scope;
- terminals are not sessions, quarantined writers are writers and the CLI is none
  of them, and a write has at least one part;
- the registry starts with one row for each key it knows, within its bound on
  rows, and there is a human (whoever runs `kum` is one);
- servers and commands are processes and not each other's, a home has at least
  one migration, and snapshots are taken at natural numbers.

Four theorems about the registry have a hypothesis besides,
`MaxActors <= Hops + 1`: the code follows at most 64 merges
(`ATTRIBUTION_HOPS`), so a longer chain, which takes 65 merges one into the next,
reads as an actor in its middle. Nothing is assumed of an operator or an action.

Each proof has the same shape. An inductive invariant holds initially and
survives every step, one lemma per action; each property then follows from it
alone, or from it and one step for the constraints on steps. What it adds to the
property, and why the property is not inductive without it:

| module | theorems | what the invariants add |
|---|---|---|
| `CollectionProofs`, of `Collection` and `Catalogue` | `TypeOK`, `UnjudgedStaysOut`, `OneVersionServed`, `JudgedOnce`, `PendingFactsWait`, `HistoryReadsBack`, `ImportedOnce`, `ListingTellsOnce` | `IInv`: what a split write still has to do names rows and parts of its own; what circulates was approved; versions of a chain state one fact; a fact has one head unless a version was forgotten. `VInv`: a successor is a later row, every fact has a head, and one whose every version is unjudged has its head in the inbox. `ImportInv`: while runs do not overlap, a run between its lookup and its store is the only one and nothing with its source was stored; what was stored has a version that heads its chain until one is lost. `SetsInv`: until a set is branched a part continues at most one and is continued by at most one, parts can be numbered along their sets, and the part a split write is about to continue is continued by none, because a new version takes its predecessor's place and leaves that one apart |
| `DocketProofs`, of `Docket` and `Desk` | `TypeOK`, `OneHead`, `FiledUnjudgedNeverListed`, `ClosedStaysClosed`, `ImplementsMatters`, `HistoryIsWhole`; `DeskSpec => Spec`, `ImplementsMatters` under the desk, `OpenMattersHaveOnePlace`, `OneRotationMatter` | `IInv`: a judgment in flight holds a row; every matter with a row has a head and only one, so the abstract matter can be read off it; what is on the docket was approved. `DInv`: versions of a rotation matter are live, because the CLI filed the first and an edit keeps the status; a sync that found none, with no other under way, is still right when it files; until a matter is moved none is off its shelf. `InLine`: a version is superseded by the next one of its matter |
| `HouseProofs`, of `ReadingRoom` and `Register` | `TypeOK`, `OneCardPerHolder`, `StaleOnSchedule`, `LapsedStaysLapsed`, `JoinersAreWarned`; `RegisterSpec => Spec`, `RegisterTellsEachCardOnce`, the room's properties under the register | `IInv`: the clock a call carries is its session's last; a card is never stamped later than its session's last call; what a take remembers still says which cards it holds; one card per holder counted at the holder's last call, because a renewal in flight may still extend what was active then. `JInv`, for two sessions at one table: whoever sits beside another, took after it or renews beside it has been told or told the other, and calls under way either cross or see each other. `RInv`: renewals only go forward, though each carries an old clock, because a session serves one call at a time; so a card told as active is never stale by the same clock |
| `HouseProofs`, of `Home`, `Shelf` and `Backups` | `PruningIsIncremental`, `LadderHolds`, `SweepSparesTheLiving`, `OpenedIsCurrent` | `RungsStand`: what a prune of all snapshots ever placed would keep is on disk. It rests on two lemmas about the policy: a shelf that lost no more than a prune would take is pruned to the same files (`PruneOfLess`), and what a prune of more keeps, a prune of less keeps (`PruneOfMore`). `PresenceInv`: a record found stale belongs to nobody who holds a presence, or was registered since, or was swept already. `MigrationInv`: until a rebuild runs backwards, what is stamped was applied, and an opener at work has read, or stamped, no more than is applied |
| `StacksProofs`, of `Stacks` and `Custody` | `TypeOK`, `OnlyTheStockIsSealed`, `ShelfKeepsItsMode`, `SealedStockOpensUnlessOverwritten`, `ReadsAreAccountedFor` and its parts, `RotationsReadBack` | `IInv`, what each command in flight may rely on: a set past its key holds the keystore's key or none unless a key was overwritten, one about to store has the shelf's mode, a shred holds a row, a reader past the ledger has its line, an agent with a grant is covered. `Chained`: a pointer leads to a later row of its own name and no row replaced two |
| `ServeProofs`, of `Serve` | `TypeOK`, `LedgerTellsTheSession` and its parts `BindOpensTrail`, `MintsOnce`, `NothingMovesUnwitnessed`; `ReloadIsTheSameSession` and its parts `BindsOnce`, `FrameOnce` | `SInv`: what a call has left is ordered (nothing is witnessed before the binding is complete, the answer comes last); binds are counted against failures, also while only the state file says that the session is bound; one session at a time claims a mint; a frame that was pressed is remembered, in the process or in the state file |
| `ServeProofs`, of `Hot` | `WatchdogSparesTheLively`, `ReloadWaitsItsTurn`, `ReloadKeepsTheLines` | `WInv`: what the watchdog has counted is silence: the idle count never exceeds it, and each ping that is out or gave up accounts for one wait; a loop that polled since the last tick left nothing unread. `LineInv`: before line n+1 is handled, what the loop or the state file holds and what waits unread are the pieces after 2n, in order, and the replies are those the first n lines asked for |
| `ServeProofs`, of `Handoff` | `HandoffTypeOK`, `OneLiveHead`, `OnePendingHead`, `QuarantineNeverDisplaces`, `DropSparesNewBriefings`, `ImplementsBulletin` | `HandoffInv`: a drop in flight holds a row that once stood, so its late `UPDATE` cannot touch a note nobody judged; the two head invariants and the quarantine hold each other up and are carried together |
| `RegistryProofs`, of `Registry` | `MintsAreTold`, `ChainsEnd`, `OneKeyOneTrail`, `ActorsAreOneStory`, `TrailsNeverComeApart`, `NothingOrphaned` | `PInv`: a key has one row, and its mint is told, about to be told or was lost to a failed append. `TInv`: unless merges overlapped, the merges form a forest, so no walk comes back; the target of a merge in flight is not merged; and what a session bound by its key reads as its key's row. `HInv`: a writer at work has looked at a namespace that is registered or was removed with a writer in it; a removal has found every file it has counted empty of its namespace or has met the writer that filed there since, and has met every writer still at work there |
| `LibraryProofs`, of `Witness` and `Follower` | `TypeOK`, `OrderedLedgerVerifies`, `RewriteIsNamed`; `FollowSpec => Spec`, `FollowTellsEachEventOnce` | `LInv`: while appends come in the order of their ids each row's hash is of the rows up to it as they were written, so what verification finds broken is exactly what was edited. `FInv`: the rows printed are those that landed before the cursor and those after it the stream has passed |
| `LibraryProofs`, of `Bundle` | `BundleTypeOK`, `MergeNeverDoublesAFact`, `PointersAccountedFor` | `MInv`: no version was succeeded by two and none succeeded two, whatever library knows it, so the pointers of all libraries together form lines; a circulating version ends a line of live ones that starts with its fact (`Trunked`), or an import has yet to reach the pointer that leads to it (`Due`); a bundle brings the last version of a fact with the one before it (`Sound`); an import still owes only the pointers of rows that were there before it. A quarantined rival is outside every such line, so striking it cuts none |

The refinements are proved as `Spec => ` the abstract specification: initial
states map to initial states, and each step is mapped, by the action that takes
it, to one abstract action or to a stutter (a revision of a pending briefing, a
regrade, the read half of a drop or a judgment). `Desk`, `Register` and
`Follower` are shown to be refinements of the modules they extend, with the
added variables hidden, so that what is proved of the smaller module is not
proved again.

Seven properties speak of what a walk of unbounded length collects: histories of
facts, matters and secrets, the parts of a set and the list that prints them,
chains of merges, the lines a client wrote. Their proofs are inductions. The induction theorems of the library take an operator as
a parameter, which the installed provers cannot instantiate, so `Walks` derives
an induction principle for sets of naturals (`SetInduction`) and from it that a
function defined by recursion along a walk exists and satisfies its equations
(`WalkTable`), stated of functions instead of operators. Those seven proofs cite
these lemmas.

Every safety invariant and action property of the runs is a theorem. Only
model-checked is what is out of the prover's reach here, liveness under fairness
and `ENABLED` (`EveryRequestAnswered`, `WedgedClientIsLetGo`, `BootEnds`).

## What is not modelled

- The bundle's passes over tasks and briefings, and `import_handoff` and
  `import_task` with them; `forget` and retired entries in `Bundle`.
- `unlink`, `confirm` and `set_confidence`: single statements that no other rule
  reads.
- Similarity search and ranking (what `recall` returns first, what `strict`
  refuses), splitting of text, scores, and the janitor's decay: pure functions
  over text and floating-point numbers. A split appears as a number of parts.
- `kum exec` and its redactor, and the scan for leaked values: they transform a
  child's output and the shelves' texts, and change no row.
- The cipher, hashing, the keychain beyond its answers, formats of ids and times.
- Rendering, the static site, help, completions, diffs, update checks; wiki-links
  and front matter of the importer.

Hazards the models show and no property states, because the promise does not
hold: `remember` with a bad `links` id leaves an entry the ledger never heard of;
an importer that dies between two parts leaves a file half imported that the next
run takes for whole.

## What could follow

The bundle's passes over tasks and briefings, which repeat the reconciliation of
`Bundle` on two more tables; the importer's later passes, which draw the edges a
file's wiki-links name.
