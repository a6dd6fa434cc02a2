----------------------------- MODULE Catalogue ------------------------------
(***************************************************************************)
(* The human's verbs over the memory shelf (cli/entries.rs) and the import *)
(* of Claude Code memories (import.rs), composed with the rows, edges and  *)
(* split writes of Collection.                                             *)
(*                                                                         *)
(* One memory file is imported, by runs of `kum import claude --apply` at  *)
(* any moment; its rows are marked by the `source` they carry.  A run      *)
(* looks the file up, then stores it through store_split: other processes  *)
(* in between, and it can die before each step.  Left out: wiki-links, the *)
(* dry run, diffs, collapsing, and every other word on the screen.         *)
(***************************************************************************)
EXTENDS Collection

CONSTANTS
  Cli,          \* the session of the person at the terminal, and of imports
  ImportParts,  \* bound: parts the imported file may split into
  MaxRuns       \* bound: import runs that looked and have not stored yet

ASSUME CliAssumption == Cli \in Session \ Quarantined
ASSUME ImportAssumption == ImportParts \subseteq Nat \ {0} /\ MaxRuns \in Nat

VARIABLES
  source,     \* the rows whose source names the memory file
  planned,    \* how many import runs looked, found nothing, and will store
  imported,   \* history: the first row of each stored import
  overlapped, \* history: two runs had looked and not stored at once
  lost,       \* history: the last row the lookup finds was revised by an
              \* agent, or forgotten
  branched    \* history: a part that another continues was revised in several
              \* parts

catvars == <<source, planned, imported, overlapped, lost, branched>>
allvars == <<vars, catvars>>

CatInit ==
  /\ Init
  /\ source = {} /\ planned = 0 /\ imported = {}
  /\ overlapped = FALSE /\ lost = FALSE /\ branched = FALSE

(* Mutant of FindBySource: retired rows are overlooked. *)
FindBySourceUnretired ==
  {i \in source : Exists(i) /\ superseded_by[i] = None /\ ~retired[i]}

(* find_by_source: superseded_by IS NULL, and nothing else is asked. *)
FindBySource == {i \in source : Exists(i) /\ superseded_by[i] = None}

(* Rows with the file's source at the head of a chain, as they really are. *)
Copies == {i \in source : Exists(i) /\ superseded_by[i] = None}

-----------------------------------------------------------------------------
(* What the reading verbs show. *)

(* continues_chain: the parts before i, i, the parts after it, following the
   first edge on each side and stopping at a row already met. *)
FirstOf(S) == CHOOSE j \in S : \A k \in S : j <= k

ContinuesChain(i) ==
  LET Earlier[n \in 0..MaxRows] ==
        IF n = 0 THEN <<i>>
        ELSE LET p == Earlier[n-1]
                 next == EarlierParts(p[1])
             IN  IF next = {} \/ \E k \in DOMAIN p : p[k] = FirstOf(next) THEN p
                 ELSE <<FirstOf(next)>> \o p
      Later[n \in 0..MaxRows] ==
        IF n = 0 THEN Earlier[MaxRows]
        ELSE LET p == Later[n-1]
                 next == LaterParts(p[Len(p)])
             IN  IF next = {} \/ \E k \in DOMAIN p : p[k] = FirstOf(next) THEN p
                 ELSE Append(p, FirstOf(next))
  IN  Later[MaxRows]

(* entries_in, newest first: what circulates, or with --all every row. *)
EntriesIn(all) == {i \in Entries : all \/ Circulates(i)}

(* The members of S that are in the sequence p, in its order. *)
Among(p, S) ==
  LET Kept[k \in 0..Len(p)] ==
        IF k = 0 THEN <<>>
        ELSE IF p[k] \in S THEN Append(Kept[k-1], p[k]) ELSE Kept[k-1]
  IN  Kept[Len(p)]

(* Mutant of Listing: nothing remembers which parts were printed. *)
ListingForgetful(all) ==
  LET S == EntriesIn(all)
      Told[n \in 0..MaxRows] ==
        IF n = 0 THEN <<>>
        ELSE LET i == MaxRows + 1 - n IN
             IF i \in S THEN Told[n-1] \o Among(ContinuesChain(i), S)
             ELSE Told[n-1]
  IN  Told[MaxRows]

(* `kum list`: entry by entry, newest first; the first member of a set met
   brings all its listed members, in the set's order. *)
Listing(all) ==
  LET S == EntriesIn(all)
      Told[n \in 0..MaxRows] ==
        IF n = 0 THEN <<>>
        ELSE LET i == MaxRows + 1 - n
                 done == Told[n-1]
             IN  IF i \in S /\ ~\E k \in DOMAIN done : done[k] = i
                 THEN done \o Among(ContinuesChain(i), S)
                 ELSE done
  IN  Told[MaxRows]

(* `kum show`: the part the entry is of its set. *)
PartOf(i) == LET p == ContinuesChain(i) IN CHOOSE k \in DOMAIN p : p[k] = i

(* The get tool with stitch: the live rows of the entry's set, superseded and
   retired ones too; nothing for an entry that is not live. *)
Get(i) ==
  LET p == ContinuesChain(i)
  IN  {j \in Entries : /\ status[i] = "live" /\ status[j] = "live"
                       /\ \E k \in DOMAIN p : p[k] = j}

(* `kum history`: the versions, newest first; the first line is marked
   "(live)" whatever its status. *)
HistoryCmd(i) ==
  LET h == VersionHistory(i) IN [k \in DOMAIN h |-> h[Len(h) + 1 - k]]

(* `kum review`: an entry that is not pending is refused. *)
Reviewable(i) == Exists(i) /\ status[i] = "pending"

(* `kum inbox`, the shelf's part. *)
PendingIn == {i \in Entries : status[i] = "pending" /\ superseded_by[i] = None}

-----------------------------------------------------------------------------
(* A version written from row i carries i's source along. *)
CarriesSource(i) == source' = source \cup {r \in {rows + 1} : i \in source}

(* `kum move`: the entry named, whether it is a head the shelf decides. *)
MoveCmd(id) ==
  /\ Supersede(Cli, id, 1)
  /\ CarriesSource(id)
  /\ UNCHANGED <<planned, imported>>

(* Mutant of RevertCmd: the version gone back to is the one replaced. *)
RevertCmdOnto(id) ==
  /\ Exists(id)
  /\ LET head == HistoryCmd(id)[1]
     IN  /\ id # head
         /\ writing[Cli] = Idle
         /\ InsertEntry(Cli, RevisionStatus(Cli, id), fact[id])
         /\ links' = MoveEdges(id, rows + 1)
         /\ superseded_by' = [superseded_by EXCEPT ![id] = rows + 1]
         /\ FirstPart(Cli, 1)
         /\ CarriesSource(id)
         /\ UNCHANGED <<retired, approved, planned, imported>>

(* `kum revert --apply`: the head of the chain is superseded by a version
   with the source (and the words) of the one named. *)
RevertCmd(id) ==
  /\ Exists(id)
  /\ LET head == HistoryCmd(id)[1] IN id # head /\ Supersede(Cli, head, 1)
  /\ CarriesSource(id)
  /\ UNCHANGED <<planned, imported>>

(* import::collect: the file is looked up; found, it is skipped. *)
ImportCollect ==
  /\ FindBySource = {}
  /\ planned < MaxRuns
  /\ planned' = planned + 1
  /\ UNCHANGED <<vars, source, imported>>

(* import::run: the file goes through store_split, live whoever asks. *)
ImportStore(n) ==
  /\ planned > 0
  /\ Remember(Cli, n)
  /\ planned' = planned - 1
  /\ source' = source \cup {rows + 1}
  /\ imported' = imported \cup {rows + 1}

ImportDies ==
  /\ planned > 0
  /\ planned' = planned - 1
  /\ UNCHANGED <<vars, source, imported>>

(* A later part of an import carries the file's source too. *)
SplitCarriesSource(s) ==
  source' = source \cup {r \in {rows'} \ {rows} :
                           writing[s].ids # <<>> /\ writing[s].ids[1] \in source}

Step ==
  \/ \E s \in Session :
       \/ \E n \in NewParts : Remember(s, n) /\ UNCHANGED catvars
       \/ \E n \in RevisionParts, old \in Id :
            Supersede(s, old, n) /\ UNCHANGED <<source, planned, imported>>
       \/ StoreSplit(s) /\ SplitCarriesSource(s) /\ UNCHANGED <<planned, imported>>
  \/ \E id \in Id :
       \/ Judge(id) /\ UNCHANGED catvars
       \/ Retire(id) /\ UNCHANGED catvars
       \/ Forget(id) /\ UNCHANGED <<source, planned, imported>>
       \/ MoveCmd(id) \/ RevertCmd(id)
  \/ \E from, to \in Id, rel \in HandRel : Link(from, to, rel) /\ UNCHANGED catvars
  \/ ImportCollect \/ ImportDies
  \/ \E n \in ImportParts : ImportStore(n)

(* A write of several parts begins at a row that another part continues: the
   new version of a part took its edges, and its own second part is to come. *)
Branches ==
  \E s \in Session : writing[s] = Idle /\ writing'[s] # Idle /\ LaterParts(rows)' # {}

CatNext ==
  /\ Step
  /\ overlapped' = (overlapped \/ planned' > 1)
  /\ lost' = (lost \/ (Copies # {} /\ Copies' = {}))
  /\ branched' = (branched \/ Branches)

CatSpec == CatInit /\ [][CatNext]_allvars

-----------------------------------------------------------------------------
(* A fact that an untrusted session filed waits at the desk, once, where it
   can be reviewed, and no version of it is served, by search or by id or
   stitched to another entry, whoever revises it, until the desk has judged
   some version. *)
Judged(f) ==
  \E j \in 1..rows : fact[j] = f /\ (j \in approved \/ status[j] = "rejected")

PendingFactsWait ==
  \A f \in {fact[i] : i \in Entries} :
    agent_id[f] \in Quarantined /\ Whole(f) /\ ~Judged(f) =>
      LET waiting == {i \in PendingIn : fact[i] = f} IN
      /\ Cardinality(waiting) = 1
      /\ \A i \in waiting : Reviewable(i)
      /\ \A i \in Entries : fact[i] = f => ~Circulates(i)
      /\ \A i \in Entries : \A j \in Get(i) : fact[j] # f

(* The list shows each entry it should once, whatever set the entry is in
   and whichever of its parts were revised, retired or forgotten since, or had
   been when a writer came to continue them; and a part stored after another
   is never shown as an earlier part.  The exception is a part that others
   continue, revised with text that splits again: two parts then continue one
   (links.rs:93-94 has it that only edges made by hand branch), and the list
   tells the one they share twice. *)
ListingTellsOnce ==
  ~branched =>
    \A all \in BOOLEAN :
      LET L == Listing(all) IN
      /\ {L[k] : k \in DOMAIN L} = EntriesIn(all)
      /\ \A k, l \in DOMAIN L : L[k] = L[l] => k = l
      /\ \A e \in links : e[3] = "continues" => PartOf(e[2]) < PartOf(e[1])

(* A rerun of the import skips what an earlier run stored, moved, retired
   or reverted as it may be since: while runs do not overlap and some version
   with the file's source still heads its chain, the file is stored once. *)
ImportedOnce == ~overlapped /\ ~lost => Cardinality(imported) <= 1

(* "is idempotent via each entry's `source` field" (import.rs:5): runs one
   after another, with no row forgotten, store the file once. *)
ImportIdempotent ==
  ~overlapped /\ (\A i \in source : Exists(i)) => Cardinality(imported) <= 1
=============================================================================
