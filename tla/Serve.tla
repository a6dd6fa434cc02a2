------------------------------- MODULE Serve --------------------------------
(***************************************************************************)
(* `kum serve` processes answering tool calls (crates/kumbarium: rpc.rs,   *)
(* tools.rs, actor.rs, main.rs): what a call does to the session's memory, *)
(* to the shelf it writes, to the actor registry and to the ledger, in the *)
(* order the code does it.  These are different files with no transaction  *)
(* across them, so a call is a sequence of steps; between two of them the  *)
(* other sessions run, a step can fail, and the process can die.           *)
(*                                                                         *)
(* A session's memory outlives its process only through a reload, which    *)
(* writes it to a state file that the re-executed binary reads.            *)
(***************************************************************************)
EXTENDS Integers, Sequences, FiniteSets

CONSTANTS
  Session,      \* serve processes, each with a session id of its own
  Key,          \* registry keys: a claimed agent name in a workspace
  KeyOf,        \* the key each session binds under; two may share one
  Scope,        \* scopes recalled in
  MaxCalls,     \* bound: calls a session's client makes
  MaxFailures   \* bound: steps that fail

ASSUME BoundsAssumption == MaxCalls \in Nat /\ MaxFailures \in Nat
ASSUME KeyAssumption == KeyOf \in [Session -> Key]

NoScope == "none"
ASSUME ScopeAssumption == NoScope \notin Scope

VARIABLES
  actors,       \* memory.db actors: the keys that have a row
  shelf,        \* the writes the shelves hold: <<session, call>>
  trail,        \* audit.db: each session's events, in append order
  process,      \* each session's process: "up", "reborn", "gone"
  actor_bound,  \* its memory: actor_bound,
  served,       \*             served_handoffs,
  todo,         \*             the steps its call has left,
  call,         \*             and the call
  state_file,   \* reload-<pid>.json: the memory a reload carries
  answers,      \* history: what each client got back
  failures      \* history: how many steps failed

vars == <<actors, shelf, trail, process, actor_bound, served, todo, call,
          state_file, answers, failures>>

memory == <<process, actor_bound, served, state_file>>

NoCall == [n |-> 0, tool |-> "none", scope |-> NoScope, framed |-> FALSE, asked |-> FALSE]
NoFile == [there |-> FALSE, actor_bound |-> FALSE, served |-> {}]

Init ==
  /\ actors = {}
  /\ shelf = {}
  /\ trail = [s \in Session |-> <<>>]
  /\ process = [s \in Session |-> "up"]
  /\ actor_bound = [s \in Session |-> FALSE]
  /\ served = [s \in Session |-> {}]
  /\ todo = [s \in Session |-> <<>>]
  /\ call = [s \in Session |-> NoCall]
  /\ state_file = [s \in Session |-> NoFile]
  /\ answers = [s \in Session |-> <<>>]
  /\ failures = 0

-----------------------------------------------------------------------------
(* bind_actor, when the session is not bound yet: look the key up, insert
   it, write the bind; the mint is written only by the session that minted. *)
Bind(s) == IF actor_bound[s] THEN <<>> ELSE <<"lookup", "bind">>

(* The order in which each handler does its work.  remember and supersede
   bind before they write, the other writing tools when they witness;
   secret_read witnesses before the value moves; recall notes the frame as
   served before it witnesses. *)
Steps(s, tool, framed) ==
  CASE tool = "initialize" -> Bind(s) \o <<"reply">>
    [] tool = "remember" -> Bind(s) \o <<"write", "link", "witness", "reply">>
    [] tool = "file" -> <<"write">> \o (Bind(s) \o <<"witness", "reply">>)
    [] tool = "secret_read" -> Bind(s) \o <<"witness", "disclose", "reply">>
    [] tool = "recall" /\ framed -> Bind(s) \o <<"serve_frame", "witness", "reply">>
    [] tool = "recall" /\ ~framed -> Bind(s) \o <<"witness", "reply">>

Idle(s) == process[s] = "up" /\ todo[s] = <<>>

Begin(s, tool, scope, framed, asked) ==
  /\ Idle(s)
  /\ call[s].n < MaxCalls
  /\ call' = [call EXCEPT ![s] = [n |-> call[s].n + 1, tool |-> tool, scope |-> scope,
                                  framed |-> framed, asked |-> asked]]
  /\ todo' = [todo EXCEPT ![s] = Steps(s, tool, framed)]
  /\ UNCHANGED <<actors, shelf, trail, memory, answers, failures>>

Initialize(s) == call[s].n = 0 /\ Begin(s, "initialize", NoScope, FALSE, FALSE)

(* remember and supersede; "file" stands for task_file, task_update,
   handoff_write, link, confirm, lease_take and lease_release. *)
Write(s) == \E tool \in {"remember", "file"} : Begin(s, tool, NoScope, FALSE, FALSE)

SecretRead(s) == Begin(s, "secret_read", NoScope, FALSE, FALSE)

(* recall: the frame is due when asked for, or not served here yet. *)
Recall(s, scope) ==
  \E frame \in BOOLEAN :
    Begin(s, "recall", scope, frame \/ scope \notin served[s], frame)

-----------------------------------------------------------------------------
At(s, step) == process[s] = "up" /\ todo[s] # <<>> /\ Head(todo[s]) = step

Done(s) == todo' = [todo EXCEPT ![s] = Tail(todo[s])]

(* actor_by_key: a hit binds as found, a miss goes on to mint. *)
Lookup(s) ==
  /\ At(s, "lookup")
  /\ todo' = [todo EXCEPT ![s] =
       IF KeyOf[s] \in actors THEN Tail(@) ELSE <<"mint">> \o Tail(@)]
  /\ UNCHANGED <<actors, shelf, trail, memory, call, answers, failures>>

(* mint_actor: the UNIQUE key decides between two sessions that both missed. *)
Mint(s) ==
  /\ At(s, "mint")
  /\ actors' = actors \cup {KeyOf[s]}
  /\ todo' = [todo EXCEPT ![s] =
       IF KeyOf[s] \in actors THEN Tail(@)
       ELSE <<"bind", "log_mint">> \o Tail(Tail(@))]
  /\ UNCHANGED <<shelf, trail, memory, call, answers, failures>>

Appended(s, kind) ==
  trail' = [trail EXCEPT ![s] = Append(@, [kind |-> kind, n |-> call[s].n])]

(* actor_bound is set once the last event of the binding is written. *)
LogBind(s) ==
  /\ At(s, "bind")
  /\ Appended(s, "actor_bind")
  /\ Done(s)
  /\ actor_bound' = [actor_bound EXCEPT ![s] = (Head(Tail(todo[s])) # "log_mint")]
  /\ UNCHANGED <<actors, shelf, process, served, call, state_file, answers, failures>>

LogMint(s) ==
  /\ At(s, "log_mint")
  /\ Appended(s, "actor_mint")
  /\ Done(s)
  /\ actor_bound' = [actor_bound EXCEPT ![s] = TRUE]
  /\ UNCHANGED <<actors, shelf, process, served, call, state_file, answers, failures>>

BindActor(s) == Lookup(s) \/ Mint(s) \/ LogBind(s) \/ LogMint(s)

(* The shelf commits. *)
WriteShelf(s) ==
  /\ At(s, "write")
  /\ shelf' = shelf \cup {<<s, call[s].n>>}
  /\ Done(s)
  /\ UNCHANGED <<actors, trail, memory, call, answers, failures>>

(* served_handoffs.insert, the frame gathered. *)
ServeFrame(s) ==
  /\ At(s, "serve_frame")
  /\ served' = [served EXCEPT ![s] = @ \cup {call[s].scope}]
  /\ Done(s)
  /\ UNCHANGED <<actors, shelf, trail, process, actor_bound, call, state_file,
                 answers, failures>>

WitnessCall(s) ==
  /\ At(s, "witness")
  /\ Appended(s, call[s].tool)
  /\ Done(s)
  /\ UNCHANGED <<actors, shelf, memory, call, answers, failures>>

(* remember's `links`, and read_secret: no event and no row of their own here. *)
WorkAlong(s) ==
  /\ At(s, "link") \/ At(s, "disclose")
  /\ Done(s)
  /\ UNCHANGED <<actors, shelf, trail, memory, call, answers, failures>>

Answer(s, ok) ==
  /\ answers' = [answers EXCEPT ![s] = Append(@,
       [n |-> call[s].n, tool |-> call[s].tool, scope |-> call[s].scope,
        framed |-> call[s].framed, asked |-> call[s].asked, ok |-> ok])]
  /\ todo' = [todo EXCEPT ![s] = <<>>]

Reply(s) ==
  /\ At(s, "reply")
  /\ Answer(s, TRUE)
  /\ UNCHANGED <<actors, shelf, trail, memory, call, failures>>

Fallible == {"bind", "log_mint", "write", "link", "witness", "disclose"}

(* Mutant of StepFails: an append that fails is passed over. *)
StepFailsSilently(s) ==
  /\ \E step \in Fallible : At(s, step)
  /\ failures < MaxFailures
  /\ failures' = failures + 1
  /\ Done(s)
  /\ UNCHANGED <<actors, shelf, trail, memory, call, answers>>

(* A step's error ends the call with an error; initialize logs it and
   answers all the same.  What earlier steps did stays done. *)
StepFails(s) ==
  /\ \E step \in Fallible : At(s, step)
  /\ failures < MaxFailures
  /\ failures' = failures + 1
  /\ Answer(s, call[s].tool = "initialize")
  /\ UNCHANGED <<actors, shelf, trail, memory, call>>

(* The process is killed, or the client hangs up. *)
Dies(s) ==
  /\ process[s] # "gone"
  /\ process' = [process EXCEPT ![s] = "gone"]
  /\ actor_bound' = [actor_bound EXCEPT ![s] = FALSE]
  /\ served' = [served EXCEPT ![s] = {}]
  /\ todo' = [todo EXCEPT ![s] = <<>>]
  /\ call' = [call EXCEPT ![s] = NoCall]
  /\ UNCHANGED <<actors, shelf, trail, state_file, answers, failures>>

-----------------------------------------------------------------------------
(* SIGUSR1, taken between calls: the memory is written out and the binary
   re-executed over it. *)
Reload(s) ==
  /\ Idle(s)
  /\ state_file' = [state_file EXCEPT ![s] =
       [there |-> TRUE, actor_bound |-> actor_bound[s], served |-> served[s]]]
  /\ process' = [process EXCEPT ![s] = "reborn"]
  /\ actor_bound' = [actor_bound EXCEPT ![s] = FALSE]
  /\ served' = [served EXCEPT ![s] = {}]
  /\ UNCHANGED <<actors, shelf, trail, todo, call, answers, failures>>

(* Mutant of Reborn: the served frames are not carried over. *)
RebornUnserved(s) ==
  /\ process[s] = "reborn"
  /\ actor_bound' = [actor_bound EXCEPT ![s] = state_file[s].actor_bound]
  /\ state_file' = [state_file EXCEPT ![s] = NoFile]
  /\ process' = [process EXCEPT ![s] = "up"]
  /\ UNCHANGED <<actors, shelf, trail, served, todo, call, answers, failures>>

(* The reborn serve consumes the state file, once. *)
Reborn(s) ==
  /\ process[s] = "reborn"
  /\ actor_bound' = [actor_bound EXCEPT ![s] = state_file[s].actor_bound]
  /\ served' = [served EXCEPT ![s] = state_file[s].served]
  /\ state_file' = [state_file EXCEPT ![s] = NoFile]
  /\ process' = [process EXCEPT ![s] = "up"]
  /\ UNCHANGED <<actors, shelf, trail, todo, call, answers, failures>>

ClientCalls(s) ==
  Initialize(s) \/ Write(s) \/ SecretRead(s) \/ \E scope \in Scope : Recall(s, scope)

HandlerRuns(s) ==
  \/ BindActor(s)
  \/ WriteShelf(s) \/ ServeFrame(s) \/ WitnessCall(s) \/ WorkAlong(s)
  \/ Reply(s) \/ StepFails(s)

Next ==
  \E s \in Session :
    ClientCalls(s) \/ HandlerRuns(s) \/ Dies(s) \/ Reload(s) \/ Reborn(s)

Spec == Init /\ [][Next]_vars

-----------------------------------------------------------------------------
Tool == {"initialize", "remember", "file", "secret_read", "recall"}
Step == Fallible \cup {"lookup", "mint", "serve_frame", "reply"}
EventsOf(s, kind) == {k \in 1..Len(trail[s]) : trail[s][k].kind = kind}

(* The values the variables take; a state file exists exactly while a reload
   is under way, and a reborn process has no call of its own yet. *)
TypeOK ==
  /\ actors \subseteq Key
  /\ shelf \subseteq Session \X (1..MaxCalls)
  /\ trail \in [Session -> Seq([kind : Tool \cup {"actor_bind", "actor_mint"},
                                n : 1..MaxCalls])]
  /\ process \in [Session -> {"up", "reborn", "gone"}]
  /\ actor_bound \in [Session -> BOOLEAN]
  /\ served \in [Session -> SUBSET Scope]
  /\ todo \in [Session -> Seq(Step)]
  /\ failures \in 0..MaxFailures
  /\ \A s \in Session :
       /\ process[s] = "reborn" => state_file[s].there
       /\ process[s] = "up" => ~state_file[s].there
       /\ process[s] # "up" => todo[s] = <<>>
       /\ actor_bound[s] => KeyOf[s] \in actors

(* "a hashed `actor_bind` event that opens every session" (D-056), so that
   "which actor did this" can be read from the ledger: whatever fails, dies
   or reloads, no event of a session precedes its first bind. *)
BindOpensTrail ==
  \A s \in Session : trail[s] # <<>> => trail[s][1].kind = "actor_bind"

(* "a reloaded serve is the same session, never bound twice" (rpc.rs): a
   session's second bind only ever follows a failed step. *)
BindsOnce ==
  \A s \in Session : Cardinality(EventsOf(s, "actor_bind")) <= 1 + failures

(* Two sessions of one agent opening at once mint one actor, and one of them
   says so on the ledger. *)
MintsOnce ==
  \A k \in Key :
    Cardinality({s \in Session : KeyOf[s] = k /\ EventsOf(s, "actor_mint") # {}}) <= 1

(* A tool call that was answered without an error is on the ledger: no write
   is acknowledged and no secret handed over with nothing recorded. *)
NothingMovesUnwitnessed ==
  \A s \in Session : \A k \in 1..Len(answers[s]) :
    LET a == answers[s][k] IN
      a.ok /\ a.tool # "initialize" =>
        \E e \in EventsOf(s, a.tool) : trail[s][e].n = a.n

(* "the opening frame does not replay" (main.rs): a scope's frame is pressed
   on a session at most once, reloads included, unless it asks. *)
FrameOnce ==
  \A s \in Session, scope \in Scope :
    Cardinality({k \in 1..Len(answers[s]) :
      /\ answers[s][k].scope = scope /\ answers[s][k].framed
      /\ answers[s][k].ok /\ ~answers[s][k].asked}) <= 1

(* A session's ledger tells who acted and what: opened by its bind, with one
   mint per actor however many sessions opened at once, and a line for every
   call that was answered well, whatever failed, died or reloaded. *)
LedgerTellsTheSession == BindOpensTrail /\ MintsOnce /\ NothingMovesUnwitnessed

(* A reloaded serve is the same session: neither its binding nor the frames
   it was given are forgotten or repeated over a re-exec. *)
ReloadIsTheSameSession == BindsOnce /\ FrameOnce
=============================================================================
