------------------------------ MODULE Registry ------------------------------
(***************************************************************************)
(* The two registries of the library file: the actors sessions bind as     *)
(* (kumbarium-store actors.rs; crates/kumbarium actor.rs, cli/agent.rs,    *)
(* tools.rs bind_actor) and the namespaces every shelf files under         *)
(* (kumbarium-store entries.rs, cli/admin.rs, cli/doctor.rs).              *)
(*                                                                         *)
(* A session is one process: a `kum serve` that binds at its first         *)
(* witnessed call, or a `kum` verb of the human, which changes a registry  *)
(* and then binds to witness what it did.  Nothing but SQLite's single     *)
(* statements keeps them apart.  A process that dies is one that takes no  *)
(* further step.  Names are a wanted base and the suffix a collision added.*)
(***************************************************************************)
EXTENDS Naturals, Sequences, FiniteSets

CONSTANTS
  Session,        \* processes
  Server, Human,  \* those that may turn out a kum serve, a kum verb
  AgentKey,       \* <client, workspace> pairs
  HumanKey,       \* the identity a kum verb finds
  Base,           \* wanted display names
  BaseOf,         \* the name a key asks for
  None,           \* no actor, no name, no key
  Known, Past,    \* the keys of the actors minted earlier, and who bound them
  Typed,          \* names people type: --agent, agent rename
  Path, Reserved, \* namespaces, and those whose only word is the CLI's
  Opened,         \* those registered before
  Hops,           \* how many merges a read follows (64)
  MaxActors,      \* bound: actors ever minted
  MaxFails        \* bound: audit appends that fail

Key == AgentKey \cup HumanKey
Actor == 1 .. MaxActors
Name == Base \X (1 .. MaxActors + 1)

Global == "global"
Section == {"entries", "docket", "handoff", "secrets"}
Elsewhere == <<"docket", "handoff", "secrets">>

ASSUME RegistryAssumption ==
  /\ Server \cup Human \subseteq Session
  /\ BaseOf \in [Key -> Base] /\ Typed \subseteq Name
  /\ HumanKey # {} /\ None \notin Key \cup Actor
  /\ Hops \in Nat /\ MaxActors \in Nat /\ MaxFails \in Nat
  /\ Known \in Seq(AgentKey) /\ Len(Known) <= MaxActors
  /\ \A a, b \in DOMAIN Known : Known[a] = Known[b] => a = b
  /\ DOMAIN Past \subseteq Session
  /\ \A s \in DOMAIN Past : Past[s] \in DOMAIN Known
  /\ Global \in Path /\ Reserved \subseteq Path \ {Global}
  /\ Global \in Opened /\ Opened \subseteq Path

VARIABLES
  actors,      \* the table: a function from the ids minted so far
  binds,       \* the ledger's actor_bind events, by session
  minted,      \* the ledger's actor_mint events: how many for each actor
  registered,  \* the namespaces table
  filed,       \* on each shelf file, the namespaces its rows name
  at,          \* where each session is; see Phase
  key, pin,    \* what it binds by: its key, or the name --agent asked for
  auto,        \* it bound by its key
  got, fresh,  \* the actor it resolved, and whether it minted it
  verb,        \* what its call is about
  left,        \* the files a removal has still to count
  fails,
  crossed,     \* history: a merge wrote over a merge it had not seen
  unsettled    \* history: namespaces removed while a writer was at work in them

who == <<at, key, pin, auto, got, fresh>>
table == <<actors, binds, minted>>
housing == <<registered, filed, left, unsettled>>
vars == <<table, housing, who, verb, fails, crossed>>

Phase == {"new", "merge", "filing", "tally", "remove",
          "resolve", "insert", "bind", "mint", "done"}
NoVerb == [about |-> None]

(* actor_root: merges followed, boundedly. *)
Onward == [a \in DOMAIN actors |-> IF actors[a].into = None THEN a ELSE actors[a].into]
Root(a) ==
  LET walk[n \in 0 .. Hops] == IF n = 0 THEN a ELSE Onward[walk[n - 1]]
  IN  walk[Hops]

Named(n) == {a \in DOMAIN actors : actors[a].name = n}
Keyed(k) == {a \in DOMAIN actors : actors[a].key = k}

(* ActorIndex: a session's first bind, read as the actor that survives. *)
Reads(s) == IF binds[s] = <<>> THEN None ELSE Root(binds[s][1])

NewActor(n, k) == [name |-> n, key |-> k, into |-> None, retired |-> FALSE]
Minted(n, k) ==
  LET id == Cardinality(DOMAIN actors) + 1
  IN  [a \in DOMAIN actors \cup {id} |-> IF a = id THEN NewActor(n, k) ELSE actors[a]]
Roomy == Cardinality(DOMAIN actors) < MaxActors

(* The library as earlier sessions left it: an actor for each of their keys,
   bound by the sessions of Past; no rows yet. *)
Earlier(a) == NewActor(<<BaseOf[Known[a]],
  Cardinality({b \in 1 .. a : BaseOf[Known[b]] = BaseOf[Known[a]]})>>, Known[a])

Init ==
  /\ actors = [a \in DOMAIN Known |-> Earlier(a)]
  /\ minted = [a \in Actor |-> IF a \in DOMAIN Known THEN 1 ELSE 0]
  /\ binds = [s \in Session |-> IF s \in DOMAIN Past THEN <<Past[s]>> ELSE <<>>]
  /\ registered = Opened /\ filed = [c \in Section |-> {}]
  /\ at = [s \in Session |-> IF s \in DOMAIN Past THEN "done" ELSE "new"]
  /\ key = [s \in Session |-> IF s \in DOMAIN Past THEN Known[Past[s]] ELSE None]
  /\ pin = [s \in Session |-> None]
  /\ auto = [s \in Session |-> s \in DOMAIN Past]
  /\ got = [s \in Session |-> IF s \in DOMAIN Past THEN Past[s] ELSE None]
  /\ fresh = [s \in Session |-> FALSE]
  /\ verb = [s \in Session |-> NoVerb] /\ left = [s \in Session |-> <<>>]
  /\ fails = 0 /\ crossed = FALSE /\ unsettled = {}

(* A session goes on to witness: it binds first, unless its verb said no. *)
Go(s, phase) == at' = [at EXCEPT ![s] = phase]
ByKeyOnly(s) == key' = [key EXCEPT ![s] = CHOOSE k \in HumanKey : TRUE]
Tell(s) == Go(s, "resolve") /\ ByKeyOnly(s) /\ UNCHANGED <<pin, auto, got, fresh>>
Refuse(s) == Go(s, "done") /\ UNCHANGED <<key, pin, auto, got, fresh>>

(* kum serve [--agent name] makes its first witnessed call. *)
Serve(s) ==
  /\ at[s] = "new"
  /\ \E k \in AgentKey, p \in Typed \cup {None} :
       key' = [key EXCEPT ![s] = k] /\ pin' = [pin EXCEPT ![s] = p]
  /\ Go(s, "resolve")
  /\ UNCHANGED <<table, housing, auto, got, fresh, verb, fails, crossed>>

(* kum agent add: by name alone, refused if it is taken. *)
AgentAdd(s) ==
  /\ at[s] = "new" /\ Roomy
  /\ \E b \in Base :
       IF Named(<<b, 1>>) # {} THEN Refuse(s) /\ UNCHANGED actors
       ELSE /\ actors' = Minted(<<b, 1>>, None)
            /\ Tell(s)
  /\ UNCHANGED <<binds, minted, housing, verb, fails, crossed>>

(* kum agent rename: the name is unique. *)
AgentRename(s) ==
  /\ at[s] = "new"
  /\ \E a \in DOMAIN actors, n \in Typed :
       IF Named(n) \ {a} # {} THEN Refuse(s) /\ UNCHANGED actors
       ELSE actors' = [actors EXCEPT ![a].name = n] /\ Tell(s)
  /\ UNCHANGED <<binds, minted, housing, verb, fails, crossed>>

(* kum agent retire, unretire. *)
AgentRetire(s) ==
  /\ at[s] = "new"
  /\ \E a \in DOMAIN actors, retire \in BOOLEAN :
       IF actors[a].retired = retire THEN Refuse(s) /\ UNCHANGED actors
       ELSE actors' = [actors EXCEPT ![a].retired = retire] /\ Tell(s)
  /\ UNCHANGED <<binds, minted, housing, verb, fails, crossed>>

(* kum agent merge reads both rows and the survivor of the second ... *)
(* Mutant of Mergeable: the survivor is not compared with the source. *)
MergeableAnyhow(a, b) == actors[a].into = None /\ a # b
Mergeable(a, b) == actors[a].into = None /\ Root(b) # a

MergeRead(s) ==
  /\ at[s] = "new"
  /\ \E a, b \in DOMAIN actors :
       IF Mergeable(a, b)
       THEN /\ verb' = [verb EXCEPT ![s] =
                          [about |-> "merge", from |-> a, into |-> Root(b), seen |-> [c \in DOMAIN actors |-> actors[c].into]]]
            /\ Go(s, "merge") /\ UNCHANGED <<key, pin, auto, got, fresh>>
       ELSE Refuse(s) /\ UNCHANGED verb
  /\ UNCHANGED <<table, housing, fails, crossed>>

(* ... and points the first at it, with no transaction around the two. *)
(* Mutant of MergeInto: the source is pointed at the actor named, and the
   actors already merged into it are cut loose. *)
MergeFlat(a, b) ==
  [c \in DOMAIN actors |-> IF c = a THEN [actors[c] EXCEPT !.into = b]
                           ELSE IF actors[c].into = a THEN [actors[c] EXCEPT !.into = None]
                           ELSE actors[c]]
MergeInto(a, b) == [actors EXCEPT ![a].into = b]

MergeWrite(s) ==
  /\ at[s] = "merge"
  /\ actors' = MergeInto(verb[s].from, verb[s].into)
  /\ crossed' = (crossed \/ \E a \in DOMAIN verb[s].seen : verb[s].seen[a] # actors[a].into)
  /\ verb' = [verb EXCEPT ![s] = NoVerb]
  /\ Tell(s)
  /\ UNCHANGED <<binds, minted, housing, fails>>

(* actor::resolve: the actor --agent names, else the one with the session's
   key, and of either the survivor. *)
Found(s) == IF pin[s] # None /\ Named(pin[s]) # {} THEN Named(pin[s]) ELSE Keyed(key[s])

Resolve(s) ==
  /\ at[s] = "resolve"
  /\ \/ \E a \in Found(s) :
          /\ got' = [got EXCEPT ![s] = Root(a)]
          /\ fresh' = [fresh EXCEPT ![s] = FALSE]
          /\ auto' = [auto EXCEPT ![s] = pin[s] = None \/ Named(pin[s]) = {}]
          /\ Go(s, "bind")
     \/ Found(s) = {} /\ Go(s, "insert") /\ UNCHANGED <<auto, got, fresh>>
  /\ UNCHANGED <<table, housing, key, pin, verb, fails, crossed>>

(* mint_actor: the first free name; of two sessions opening at once the one
   whose key is taken already returns the winner. *)
FreeName(k) ==
  LET n == CHOOSE n \in 1 .. MaxActors + 1 :
             /\ Named(<<BaseOf[k], n>>) = {}
             /\ \A i \in 1 .. n - 1 : Named(<<BaseOf[k], i>>) # {}
  IN  <<BaseOf[k], n>>
(* Mutant of Winner: the unique key is not looked at again. *)
WinnerUnseen(k) == {}
Winner(k) == Keyed(k)
MintsIt(a) == a = Cardinality(DOMAIN actors) + 1
Insert(s) ==
  /\ at[s] = "insert"
  /\ LET won == Winner(key[s])
         a == IF won # {} THEN CHOOSE w \in won : TRUE ELSE Cardinality(DOMAIN actors) + 1
     IN  /\ won # {} \/ Roomy
         /\ actors' = IF won # {} THEN actors ELSE Minted(FreeName(key[s]), key[s])
         /\ got' = [got EXCEPT ![s] = IF won # {} THEN Root(a) ELSE a]
         /\ fresh' = [fresh EXCEPT ![s] = MintsIt(a)]
  /\ auto' = [auto EXCEPT ![s] = TRUE]
  /\ Go(s, "bind")
  /\ UNCHANGED <<binds, minted, housing, key, pin, verb, fails, crossed>>

(* bind_actor's two appends. *)
Bind(s) ==
  /\ at[s] = "bind"
  /\ binds' = [binds EXCEPT ![s] = Append(@, got[s])]
  /\ Go(s, IF fresh[s] THEN "mint" ELSE "done")
  /\ UNCHANGED <<actors, minted, housing, key, pin, auto, got, fresh, verb, fails, crossed>>

Mint(s) ==
  /\ at[s] = "mint"
  /\ minted' = [minted EXCEPT ![got[s]] = @ + 1]
  /\ Go(s, "done")
  /\ UNCHANGED <<actors, binds, housing, key, pin, auto, got, fresh, verb, fails, crossed>>

(* One of them fails: the call is refused, and the next one of a server binds
   again from the start; a verb says its change was made all the same. *)
AppendFails(s) ==
  /\ at[s] \in {"bind", "mint"} /\ fails < MaxFails
  /\ fails' = fails + 1
  /\ Go(s, IF key[s] \in AgentKey THEN "resolve" ELSE "done")
  /\ UNCHANGED <<table, housing, key, pin, auto, got, fresh, verb, crossed>>

-----------------------------------------------------------------------------
(* Namespaces.  Every section but the memory's is a file of its own: its
   writers look the namespace up in the library, then insert there. *)

(* A writer of p is between its look and its row. *)
WriterIn(p) == \E s \in Session : at[s] = "filing" /\ verb[s].path = p
Removing(p) == {s \in Session : at[s] \in {"tally", "remove"} /\ verb[s].path = p}
Meets(p) == [s \in Session |-> IF s \in Removing(p) THEN [verb[s] EXCEPT !.met = TRUE] ELSE verb[s]]

(* kum namespace add: INSERT OR IGNORE; a CLI word is refused. *)
NamespaceAdd(s) ==
  /\ at[s] = "new"
  /\ \E p \in Path :
       IF p \in Reserved \cup registered THEN Refuse(s) /\ UNCHANGED registered
       ELSE registered' = registered \cup {p} /\ Tell(s)
  /\ UNCHANGED <<table, filed, left, unsettled, verb, fails, crossed>>

(* The memory shelf writes in the registry's own file, in one transaction. *)
FileEntry(s) ==
  /\ at[s] = "new"
  /\ \E p \in registered : filed' = [filed EXCEPT !["entries"] = @ \cup {p}]
  /\ Tell(s)
  /\ UNCHANGED <<table, registered, left, unsettled, verb, fails, crossed>>

(* kum forget deletes; a moved or closed row of another section stays. *)
Forget(s) ==
  /\ at[s] = "new"
  /\ \E p \in filed["entries"] : filed' = [filed EXCEPT !["entries"] = @ \ {p}]
  /\ Tell(s)
  /\ UNCHANGED <<table, registered, left, unsettled, verb, fails, crossed>>

FileLook(s) ==
  /\ at[s] = "new"
  /\ \E p \in registered, c \in Section \ {"entries"} :
       /\ verb' = [Meets(p) EXCEPT ![s] = [about |-> c, path |-> p]]
  /\ Go(s, "filing")
  /\ UNCHANGED <<table, housing, key, pin, auto, got, fresh, fails, crossed>>

FileWrite(s) ==
  /\ at[s] = "filing"
  /\ filed' = [filed EXCEPT ![verb[s].about] = @ \cup {verb[s].path}]
  /\ verb' = [verb EXCEPT ![s] = NoVerb]
  /\ Tell(s)
  /\ UNCHANGED <<table, registered, left, unsettled, fails, crossed>>

(* kum namespace rm: registered, not global, and no row on any shelf file. *)
(* Mutant of Counted: the stacks are not looked at. *)
CountedButStacks == SubSeq(Elsewhere, 1, 2)
Counted == Elsewhere

RemoveLook(s) ==
  /\ at[s] = "new"
  /\ \E p \in Path :
       IF p # Global /\ p \in registered /\ p \notin filed["entries"]
       THEN /\ verb' = [verb EXCEPT ![s] = [about |-> "remove", path |-> p, met |-> WriterIn(p)]]
            /\ left' = [left EXCEPT ![s] = Counted]
            /\ Go(s, "tally") /\ UNCHANGED <<key, pin, auto, got, fresh>>
       ELSE Refuse(s) /\ UNCHANGED <<verb, left>>
  /\ UNCHANGED <<table, registered, filed, unsettled, fails, crossed>>

RemoveTally(s) ==
  /\ at[s] = "tally"
  /\ IF verb[s].path \in filed[Head(left[s])]
     THEN /\ left' = [left EXCEPT ![s] = <<>>] /\ verb' = [verb EXCEPT ![s] = NoVerb]
          /\ Refuse(s)
     ELSE /\ left' = [left EXCEPT ![s] = Tail(@)]
          /\ Go(s, IF Len(left[s]) = 1 THEN "remove" ELSE "tally")
          /\ UNCHANGED <<key, pin, auto, got, fresh, verb>>
  /\ UNCHANGED <<table, registered, filed, unsettled, fails, crossed>>

(* remove_namespace counts the entries again; an entry that comes between
   that and the DELETE makes the foreign key refuse it. *)
RemoveWrite(s) ==
  /\ at[s] = "remove"
  /\ LET p == verb[s].path
     IN  IF p \in registered /\ p \notin filed["entries"]
         THEN /\ registered' = registered \ {p}
              /\ unsettled' = IF verb[s].met THEN unsettled \cup {p} ELSE unsettled
              /\ Tell(s)
         ELSE Refuse(s) /\ UNCHANGED <<registered, unsettled>>
  /\ verb' = [verb EXCEPT ![s] = NoVerb]
  /\ UNCHANGED <<table, filed, left, fails, crossed>>

(* The doctor's drift check: rows of the docket and the handoff shelf whose
   namespace is not registered.  It does not read the stacks. *)
Drift == {d \in {"docket", "handoff"} \X Path : d[2] \in filed[d[1]] \ registered}

Call(s) ==
  \/ AgentAdd(s) \/ AgentRename(s) \/ AgentRetire(s) \/ MergeRead(s)
  \/ NamespaceAdd(s) \/ FileEntry(s) \/ Forget(s) \/ FileLook(s) \/ RemoveLook(s)

Next ==
  \/ \E s \in Server : Serve(s)
  \/ \E s \in Human : Call(s)
  \/ \E s \in Session :
       \/ MergeWrite(s) \/ FileWrite(s) \/ RemoveTally(s) \/ RemoveWrite(s)
       \/ Resolve(s) \/ Insert(s) \/ Bind(s) \/ Mint(s) \/ AppendFails(s)

Spec == Init /\ [][Next]_vars

-----------------------------------------------------------------------------
(* Every trail reads as an actor that survives: merged_into leads to a row
   that is not merged.  merge_actor's comments call a cycle corruption; it
   takes two merges that overlap to make one. *)
ChainsEnd == ~crossed => \A a \in DOMAIN actors : actors[Root(a)].into = None

(* Every session opened for one client in one workspace reads as one actor,
   whichever of them minted it, however often it bound, and whatever was
   renamed or merged meanwhile. *)
OneKeyOneTrail ==
  ~crossed =>
    LET TrailsOf(k) == UNION {{Root(binds[s][i]) : i \in DOMAIN binds[s]} :
          s \in {t \in Session : auto[t] /\ key[t] = k}}
    IN  \A k \in Key : Cardinality(TrailsOf(k)) <= 1

(* An actor in the registry has its one actor_mint event in the ledger, or its
   minter has still to write it, or an append failed; an actor added by hand
   is told by the verb.  (cli/agent.rs and bind_actor change the registry
   first.) *)
MintsAreTold ==
  \A a \in DOMAIN actors :
    \/ actors[a].key = None
    \/ minted[a] = 1
    \/ \E s \in Session : at[s] \in {"bind", "mint"} /\ fresh[s] /\ got[s] = a
    \/ fails > 0

(* What the ledger says of a client's actor is one story: told once, and the
   same for every session the client opens. *)
ActorsAreOneStory == OneKeyOneTrail /\ MintsAreTold

(* Two trails that read as one never come apart: no verb and no later bind
   changes what history says of who acted, but a merge that overlapped
   another. *)
Together ==
  LET trail == {<<s, Reads(s)>> : s \in {t \in Session : binds[t] # <<>>}}
      pairs == {w \in trail \X trail : w[1][2] = w[2][2]}
  IN  {{w[1][1], w[2][1]} : w \in pairs}
TrailsNeverComeApart == [][~crossed' => Together \subseteq Together']_table

(* No row is left on a namespace the registry does not know, unless a writer
   was at work in it while it was removed: then the doctor tells of it, unless
   it is a secret. *)
NothingOrphaned ==
  /\ filed["entries"] \subseteq registered
  /\ Drift \subseteq {"docket", "handoff"} \X unsettled
  /\ filed["secrets"] \subseteq registered \cup unsettled
=============================================================================
