------------------------------- MODULE Bundle -------------------------------
(***************************************************************************)
(* Bundles (crates/kumbarium/src/bundle.rs): a shelf's live entries leave  *)
(* one library as a file and union-merge into another.  Entry ids are      *)
(* global and are inserted in id order; a library's rows are its own.      *)
(*                                                                         *)
(* import is several passes of single statements with no transaction       *)
(* around them: each row's insert, each pointer's reconciliation and each  *)
(* edge commits by itself, while sessions go on writing to the same        *)
(* library and the desk goes on judging.  A statement that fails ends the  *)
(* import where it is.                                                     *)
(***************************************************************************)
EXTENDS Integers, FiniteSets

CONSTANTS
  Library,     \* machines, each with its library
  MaxEntries,  \* bound: entries ever written anywhere, ...
  MaxFacts,    \* ... and how many of them start a chain
  MaxFiles,    \* bound: bundle files ever written, ...
  MaxImports,  \* ... and how often one is imported
  None

ASSUME BundleAssumption ==
  {MaxEntries, MaxFacts, MaxFiles, MaxImports} \subseteq Nat
ASSUME NoneAssumption == None \notin Int

Entry == 1..MaxEntries

VARIABLES
  written,        \* entries ever written: ids 1..written
  fact,           \* the first version of the chain an entry was written into
  status,         \* per library, columns of `entries`: "absent" without a row
  superseded_by,
  contradicts,    \* per library, the `contradicts` edges
  files,          \* the bundle files written so far
  imports,        \* how many imports were begun
  importing,      \* per library, the running `kum import bundle`
  torn,           \* history: libraries where an import ended half way, or
                  \*   that took a bundle of half an import
  branched        \* history: facts that went on in a second line by more
                  \*   than a merge (see Branches)

written_vars == <<written, fact>>
rows == <<status, superseded_by, contradicts>>
exchanged == <<files, imports>>
bundlevars == <<written_vars, rows, exchanged, importing, torn, branched>>

Blank == [entries |-> {}, next |-> [i \in Entry |-> None], edges |-> {},
          whole |-> TRUE]

Idle == [at |-> "idle", bundle |-> Blank, pending |-> FALSE, todo |-> {},
         existed |-> {}, next |-> [i \in Entry |-> None], head |-> None]

BundleInit ==
  /\ written = 0
  /\ fact = [i \in Entry |-> None]
  /\ status = [l \in Library |-> [i \in Entry |-> "absent"]]
  /\ superseded_by = [l \in Library |-> [i \in Entry |-> None]]
  /\ contradicts = [l \in Library |-> {}]
  /\ files = {} /\ imports = 0
  /\ importing = [l \in Library |-> Idle]
  /\ torn = {}
  /\ branched = {}

Has(l, i) == status[l][i] # "absent"

Least(S) == CHOOSE i \in S : \A j \in S : i <= j

(* The end of the chain from i, within the entries that have a pointer. *)
End(next, i) ==
  LET step[k \in 0..MaxEntries] ==
        IF k = 0 THEN i
        ELSE IF next[step[k - 1]] = None THEN step[k - 1]
        ELSE next[step[k - 1]]
  IN  step[MaxEntries]

-----------------------------------------------------------------------------
(* Sessions and the desk, while imports run. *)

(* A fact goes on in a second line: the desk approved a further version of it,
   a version the desk had not approved got a successor that circulates, or a
   session revised a version that an import had brought and not yet tied to
   the ones before it. *)
Branches(i, when) ==
  branched' = IF when THEN branched \cup {fact[i]} ELSE branched

Untied(l, i) == fact[i] # i /\ \A p \in Entry : superseded_by[l][p] # i

(* remember. *)
Remember(l) ==
  LET i == written + 1
  IN  /\ i \in Entry
      /\ Cardinality({j \in Entry : fact[j] = j}) < MaxFacts
      /\ written' = i
      /\ fact' = [fact EXCEPT ![i] = i]
      /\ status' = [status EXCEPT ![l][i] = "live"]
      /\ UNCHANGED <<superseded_by, contradicts, exchanged, importing>>
      /\ UNCHANGED <<torn, branched>>

(* supersede: a head gets a successor, which takes its edges; the successor
   of a pending head waits for the desk too. *)
Revise(l, i) ==
  LET new == written + 1
      moved(j) == IF j = i THEN new ELSE j
  IN  /\ new \in Entry
      /\ Has(l, i) /\ superseded_by[l][i] = None
      /\ written' = new
      /\ fact' = [fact EXCEPT ![new] = fact[i]]
      /\ \E to \in {"live", "pending"} :
           /\ status[l][i] = "pending" => to = "pending"
           /\ status' = [status EXCEPT ![l][new] = to]
      /\ superseded_by' = [superseded_by EXCEPT ![l][i] = new]
      /\ contradicts' = [contradicts EXCEPT ![l] =
                           {<<moved(e[1]), moved(e[2])>> : e \in @}]
      /\ Branches(i, \/ status[l][i] = "rejected"
                     \/ status[l][i] = "live" /\ Untied(l, i))
      /\ UNCHANGED <<exchanged, importing, torn>>

(* Not the only version of its fact here. *)
Contested(l, i) == \E j \in Entry \ {i} : Has(l, j) /\ fact[j] = fact[i]

(* approve or reject, at the desk. *)
Judge(l, i, to) ==
  /\ status[l][i] = "pending"
  /\ status' = [status EXCEPT ![l][i] = to]
  /\ Branches(i, to = "live" /\ Contested(l, i))
  /\ UNCHANGED <<written_vars, superseded_by, contradicts, exchanged>>
  /\ UNCHANGED <<importing, torn>>

-----------------------------------------------------------------------------
(* `kum bundle`. *)

Travels(l, i) == status[l][i] = "live"

(* export: the circulating record, ancestors included, with its pointers and
   the edges between what travels.  History: whether no merge was cut short
   there or under way. *)
Export(l) ==
  LET entries == {i \in Entry : Travels(l, i)}
  IN  [entries |-> entries,
       next |->
         [i \in Entry |-> IF i \in entries THEN superseded_by[l][i] ELSE None],
       edges |-> {e \in contradicts[l] : e[1] \in entries /\ e[2] \in entries},
       whole |-> l \notin torn /\ importing[l] = Idle]

(* The file of an empty shelf, which changes nothing anywhere, is left out. *)
WriteFile(l) ==
  /\ Cardinality(files) < MaxFiles
  /\ Export(l).entries # {}
  /\ files' = files \cup {Export(l)}
  /\ UNCHANGED <<written_vars, rows, imports, importing, torn, branched>>

-----------------------------------------------------------------------------
(* `kum import bundle`, pass by pass. *)

(* Any bundle file, however old, whoever wrote it. *)
Import(l, bundle, pending) ==
  /\ importing[l] = Idle
  /\ imports < MaxImports
  /\ imports' = imports + 1
  /\ importing' = [importing EXCEPT ![l] =
       [Idle EXCEPT !.at = "insert", !.bundle = bundle, !.pending = pending,
                    !.todo = bundle.entries]]
  /\ torn' = IF bundle.whole THEN torn ELSE torn \cup {l}
  /\ UNCHANGED <<written_vars, rows, files, branched>>

Goes(l, call) == importing' = [importing EXCEPT ![l] = call]

Fails(l) ==
  /\ Goes(l, Idle)
  /\ torn' = torn \cup {l}

(* The foreign key on superseded_by. *)
Refers(l, next) == next \in {j \in Entry : Has(l, j)} \cup {None}

(* With --pending, every arriving chain head waits for the desk. *)
Arrives(c, i) ==
  IF c.pending /\ c.bundle.next[i] = None THEN "pending" ELSE "live"

(* Pass 1: the next row in id order is inserted if its id is unknown here;
   else its pointer of now is noted for pass 2. *)
InsertRow(l) ==
  LET c == importing[l]
      i == Least(c.todo)
      next == c.bundle.next[i]
      done == [c EXCEPT !.todo = @ \ {i}]
  IN  /\ c.at = "insert" /\ c.todo # {}
      /\ \/ /\ Has(l, i)
            /\ Goes(l, [done EXCEPT !.existed = @ \cup {i},
                                    !.next[i] = superseded_by[l][i]])
            /\ UNCHANGED <<rows, torn>>
         \/ /\ ~Has(l, i) /\ Refers(l, next)
            /\ status' = [status EXCEPT ![l][i] = Arrives(c, i)]
            /\ superseded_by' = [superseded_by EXCEPT ![l][i] = next]
            /\ Goes(l, done)
            /\ UNCHANGED <<contradicts, torn>>
         \/ /\ ~Has(l, i) /\ ~Refers(l, next)
            /\ Fails(l)
            /\ UNCHANGED rows
      /\ UNCHANGED <<written_vars, exchanged, branched>>

Inserted(l) ==
  LET c == importing[l]
  IN  /\ c.at = "insert" /\ c.todo = {}
      /\ Goes(l, [c EXCEPT !.at = "pointers", !.todo = c.existed,
                           !.existed = {}])
      /\ UNCHANGED <<written_vars, rows, exchanged, torn, branched>>

(* Pass 2 goes on with the next entry that was here before. *)
Reconciled(c, i) ==
  [c EXCEPT !.at = "pointers", !.todo = @ \ {i}, !.next[i] = None,
            !.head = None]

(* extend_chain: a local head, still a head, gets the bundle's successor. *)
FastForward(l) ==
  LET c == importing[l]
      i == Least(c.todo)
      next == c.bundle.next[i]
  IN  /\ c.at = "pointers" /\ c.todo # {}
      /\ c.next[i] = None /\ next # None
      /\ \/ /\ superseded_by[l][i] = None /\ Has(l, next)
            /\ superseded_by' = [superseded_by EXCEPT ![l][i] = next]
            /\ Goes(l, Reconciled(c, i))
            /\ Branches(i, status[l][i] # "live")
            /\ UNCHANGED torn
         \/ /\ ~(superseded_by[l][i] = None /\ Has(l, next))
            /\ Fails(l)
            /\ UNCHANGED <<superseded_by, branched>>
      /\ UNCHANGED <<written_vars, status, contradicts, exchanged>>

(* Mutant of Quarantined: the rival circulates beside the local head. *)
QuarantinedNever(l, rival) == status

(* quarantine. *)
Quarantined(l, rival) == [status EXCEPT ![l][rival] = "pending"]

(* Mutant of Forks: what the two sides point at is not compared. *)
ForksUnseen(c, i) == FALSE

(* Both sides revised one entry, differently. *)
Forks(c, i) ==
  c.next[i] # None /\ c.bundle.next[i] # None /\ c.next[i] # c.bundle.next[i]

(* The end of the local branch is looked up, the head of the bundle's branch
   goes to the desk, ... *)
Fork(l) ==
  LET c == importing[l]
      i == Least(c.todo)
      rival == End(c.bundle.next, c.bundle.next[i])
  IN  /\ c.at = "pointers" /\ c.todo # {}
      /\ Forks(c, i)
      /\ \/ /\ Has(l, rival)
            /\ status' = Quarantined(l, rival)
            /\ Goes(l, [c EXCEPT !.at = "dispute",
                                 !.head = End(superseded_by[l], c.next[i])])
            /\ UNCHANGED torn
         \/ /\ ~Has(l, rival)
            /\ Fails(l)
            /\ UNCHANGED status
      /\ UNCHANGED <<written_vars, superseded_by, contradicts>>
      /\ UNCHANGED <<exchanged, branched>>

(* ... and an edge names the dispute, with the local end as it was found. *)
Dispute(l) ==
  LET c == importing[l]
      i == Least(c.todo)
      rival == End(c.bundle.next, c.bundle.next[i])
  IN  /\ c.at = "dispute"
      /\ contradicts' = [contradicts EXCEPT ![l] = @ \cup {<<rival, c.head>>}]
      /\ Goes(l, Reconciled(c, i))
      /\ UNCHANGED <<written_vars, status, superseded_by, exchanged>>
      /\ UNCHANGED <<torn, branched>>

(* The other pointers agree, or the library is ahead of the bundle. *)
Agrees(l) ==
  LET c == importing[l]
      i == Least(c.todo)
  IN  /\ c.at = "pointers" /\ c.todo # {}
      /\ ~Forks(c, i)
      /\ c.next[i] = None => c.bundle.next[i] = None
      /\ Goes(l, Reconciled(c, i))
      /\ UNCHANGED <<written_vars, rows, exchanged, torn, branched>>

(* Pass 3: the bundle's edges, one by one and idempotent. *)
Edge(l, e) ==
  LET c == importing[l]
  IN  /\ c.at = "pointers" /\ c.todo = {}
      /\ e \in c.bundle.edges
      /\ contradicts' = [contradicts EXCEPT ![l] = @ \cup {e}]
      /\ Goes(l, [c EXCEPT !.bundle.edges = @ \ {e}])
      /\ UNCHANGED <<written_vars, status, superseded_by, exchanged>>
      /\ UNCHANGED <<torn, branched>>

(* The import is witnessed, and has run to its end. *)
Imported(l) ==
  LET c == importing[l]
  IN  /\ c.at = "pointers" /\ c.todo = {} /\ c.bundle.edges = {}
      /\ Goes(l, Idle)
      /\ UNCHANGED <<written_vars, rows, exchanged, torn, branched>>

(* The command is killed. *)
Stops(l) ==
  /\ importing[l] # Idle
  /\ Fails(l)
  /\ UNCHANGED <<written_vars, rows, exchanged, branched>>

BundleNext ==
  \E l \in Library :
    \/ Remember(l)
    \/ \E i \in Entry :
         \/ Revise(l, i)
         \/ \E to \in {"live", "rejected"} : Judge(l, i, to)
    \/ WriteFile(l)
    \/ \E bundle \in files, pending \in BOOLEAN : Import(l, bundle, pending)
    \/ InsertRow(l)
    \/ Inserted(l)
    \/ FastForward(l)
    \/ Fork(l)
    \/ Dispute(l)
    \/ Agrees(l)
    \/ \E e \in Entry \X Entry : Edge(l, e)
    \/ Imported(l)
    \/ Stops(l)

BundleSpec == BundleInit /\ [][BundleNext]_bundlevars

-----------------------------------------------------------------------------
Circulating(l, f) ==
  {i \in Entry : /\ fact[i] = f
                 /\ status[l][i] = "live" /\ superseded_by[l][i] = None}

BundleFile == [entries : SUBSET Entry, next : [Entry -> Entry \cup {None}],
               edges : SUBSET (Entry \X Entry), whole : BOOLEAN]

Call == [at : {"idle", "insert", "pointers", "dispute"}, bundle : BundleFile,
         pending : BOOLEAN, todo : SUBSET Entry, existed : SUBSET Entry,
         next : [Entry -> Entry \cup {None}], head : Entry \cup {None}]

(* Types, and the foreign keys: pointers and edges name rows of the library. *)
BundleTypeOK ==
  /\ written \in 0..MaxEntries
  /\ fact \in [Entry -> Entry \cup {None}]
  /\ status \in
       [Library -> [Entry -> {"absent", "live", "pending", "rejected"}]]
  /\ superseded_by \in [Library -> [Entry -> Entry \cup {None}]]
  /\ \A l \in Library, i \in Entry :
       superseded_by[l][i] # None => Has(l, i) /\ Has(l, superseded_by[l][i])
  /\ contradicts \in [Library -> SUBSET (Entry \X Entry)]
  /\ \A l \in Library : \A e \in contradicts[l] : Has(l, e[1]) /\ Has(l, e[2])
  /\ files \subseteq BundleFile /\ imports \in 0..MaxImports
  /\ importing \in [Library -> Call]
  /\ torn \subseteq Library /\ branched \subseteq Entry

(* Two live heads of one fact are the contradiction disease: once an import
   has run to its end they never stand in a library, unless the fact branched
   by somebody's doing, or half an import came in ("forked supersession never
   auto-resolves"). *)
MergeNeverDoublesAFact ==
  \A l \in Library, f \in Entry :
    importing[l] = Idle /\ l \notin torn /\ f \notin branched
      => Cardinality(Circulating(l, f)) <= 1

(* When an import ends, every pointer of the bundle is accounted for: the
   library has it, or has another and an edge that names the dispute. *)
PointersAccountedFor ==
  [][\A l \in Library :
       Imported(l) =>
         \A i \in importing[l].bundle.entries :
           LET next == importing[l].bundle.next[i]
           IN  next # None =>
                 \/ superseded_by[l][i] = next
                 \/ \E e \in contradicts[l] : fact[e[1]] = fact[i]]_bundlevars
=============================================================================
