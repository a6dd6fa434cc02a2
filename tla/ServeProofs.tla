---------------------------- MODULE ServeProofs -----------------------------
(***************************************************************************)
(* Proofs about the serve processes.  First what their calls do (Serve),   *)
(* for any number of sessions, keys, scopes, calls and failures: the type  *)
(* invariant, that a session's ledger tells who acted and what, and that a *)
(* reloaded serve is the session it was.  Then the stdio loop that hands   *)
(* them their lines (Hot), for any client, any idle period and ping wait,  *)
(* and any number of lines, signals and failures: the watchdog ends a      *)
(* session only over a silence of its full length, no whole line crosses   *)
(* an exec, and over any number of reloads the lines are answered once     *)
(* each in the order they were written.  Last the briefings their sessions *)
(* write and are handed (Handoff), for any number of rows, namespaces,     *)
(* writers and concurrent drops: one live head per namespace, the          *)
(* quarantine promise, and that the shelf implements the bulletin board    *)
(* its readers were promised.                                              *)
(***************************************************************************)
EXTENDS Serve, Hot, Handoff, Walks, TLAPS

(* What a call still has to do: it ends with its answer, no step comes twice,
   the key is looked up and minted right before the bind, the mint is told
   right after it, and nothing is witnessed before the binding is complete. *)
Ordered(q) ==
  /\ \A k \in 1..Len(q) : q[k] = "reply" <=> k = Len(q)
  /\ \A i, j \in 1..Len(q) : q[i] = q[j] => i = j
  /\ \A k \in 1..Len(q) : q[k] \in {"lookup", "mint"} => q[k + 1] = "bind"
  /\ \A k \in 1..Len(q) : q[k] = "mint" => k = 1
  /\ \A k \in 1..Len(q) : q[k] = "log_mint" => k = 1 \/ (k = 2 /\ q[1] = "bind")
  /\ \A i, j \in 1..Len(q) : q[i] = "witness" /\ q[j] \in {"bind", "log_mint"} => j < i

Has(q, step) == \E k \in 1..Len(q) : q[k] = step
Due(s, step) == Has(todo[s], step)

CallType == [n : 0..MaxCalls, tool : Tool \cup {"none"}, scope : Scope \cup {NoScope},
             framed : BOOLEAN, asked : BOOLEAN]
AnswerType == [n : 0..MaxCalls, tool : Tool \cup {"none"}, scope : Scope \cup {NoScope},
               framed : BOOLEAN, asked : BOOLEAN, ok : BOOLEAN]
FileType == [there : BOOLEAN, actor_bound : BOOLEAN, served : SUBSET Scope]
EventType == [kind : Tool \cup {"actor_bind", "actor_mint"}, n : 1..MaxCalls]

(* The types of the variables. *)
Types ==
  /\ actors \subseteq Key
  /\ shelf \subseteq Session \X (1..MaxCalls)
  /\ trail \in [Session -> Seq(EventType)]
  /\ process \in [Session -> {"up", "reborn", "gone"}]
  /\ actor_bound \in [Session -> BOOLEAN]
  /\ served \in [Session -> SUBSET Scope]
  /\ todo \in [Session -> Seq(Step)]
  /\ call \in [Session -> CallType]
  /\ state_file \in [Session -> FileType]
  /\ answers \in [Session -> Seq(AnswerType)]
  /\ failures \in 0..MaxFailures

(* A call in flight is a call, of a process that is up; a state file exists
   exactly while a reload is under way. *)
CallInv(s) ==
  /\ todo[s] # <<>> => /\ Ordered(todo[s]) /\ process[s] = "up"
                       /\ call[s].n \in 1..MaxCalls /\ call[s].tool \in Tool
                       /\ call[s].tool = "initialize" => ~call[s].framed
                       /\ Due(s, "serve_frame") => call[s].scope \in Scope
  /\ process[s] = "reborn" => state_file[s].there
  /\ process[s] = "up" => ~state_file[s].there

(* What the session remembers of its binding, in its process or over a
   reload. *)
Bound(s) == actor_bound[s] \/ (process[s] = "reborn" /\ state_file[s].actor_bound)

Binds(s) == Cardinality(EventsOf(s, "actor_bind"))

(* A session that is bound has opened its trail and has an actor; one that is
   not binds before it witnesses, and was bound before only as often as steps
   have failed. *)
BindInv(s) ==
  /\ actor_bound[s] => process[s] = "up" /\ ~Due(s, "bind") /\ ~Due(s, "log_mint")
  /\ Bound(s) => trail[s] # <<>> /\ KeyOf[s] \in actors
  /\ Due(s, "witness") \/ Due(s, "log_mint") => trail[s] # <<>> \/ Due(s, "bind")
  /\ trail[s] # <<>> => trail[s][1].kind = "actor_bind"
  /\ Due(s, "bind") => Due(s, "lookup") \/ Due(s, "mint") \/ KeyOf[s] \in actors
  /\ Due(s, "log_mint") \/ EventsOf(s, "actor_mint") # {} => KeyOf[s] \in actors
  /\ Due(s, "log_mint") /\ Due(s, "bind") => todo[s][1] = "bind"
  /\ Binds(s) <= 1 + failures
  /\ process[s] # "gone" /\ ~Bound(s) /\ (Due(s, "log_mint") => Due(s, "bind"))
       => Binds(s) <= failures

(* Who minted, or is about to say so. *)
Claims(s) == Due(s, "log_mint") \/ EventsOf(s, "actor_mint") # {}
OneMinter == \A s, t \in Session : Claims(s) /\ Claims(t) /\ KeyOf[s] = KeyOf[t] => s = t

Told(s, tool, n) == \E e \in EventsOf(s, tool) : trail[s][e].n = n

(* A call that is past its witnessing has its line, and so has each that was
   answered well. *)
WitnessInv(s) ==
  /\ todo[s] # <<>> /\ call[s].tool # "initialize" =>
       Due(s, "witness") \/ Told(s, call[s].tool, call[s].n)
  /\ \A k \in 1..Len(answers[s]) :
       answers[s][k].ok /\ answers[s][k].tool # "initialize" =>
         Told(s, answers[s][k].tool, answers[s][k].n)

Remembered(s) == IF process[s] = "reborn" THEN state_file[s].served ELSE served[s]

(* The k-th answer pressed a frame on the session unasked. *)
Pressed(s, k) == answers[s][k].framed /\ answers[s][k].ok /\ ~answers[s][k].asked

(* The session remembers each frame it was given and the one it is about to
   be given, which it was not given before. *)
FrameInv(s) ==
  /\ todo[s] # <<>> /\ call[s].framed =>
       Due(s, "serve_frame") \/ call[s].scope \in served[s]
  /\ todo[s] # <<>> /\ call[s].framed /\ ~call[s].asked =>
       \A k \in 1..Len(answers[s]) : Pressed(s, k) => answers[s][k].scope # call[s].scope
  /\ process[s] # "gone" =>
       \A k \in 1..Len(answers[s]) : Pressed(s, k) => answers[s][k].scope \in Remembered(s)
  /\ \A k, l \in 1..Len(answers[s]) :
       Pressed(s, k) /\ Pressed(s, l) /\ answers[s][k].scope = answers[s][l].scope => k = l

SessionInv(s) == CallInv(s) /\ BindInv(s) /\ WitnessInv(s) /\ FrameInv(s)

SInv == Types /\ OneMinter /\ \A s \in Session : SessionInv(s)

-----------------------------------------------------------------------------
(* Sequences of steps. *)

(* Two steps put before the rest. *)
LEMMA PairThen ==
  ASSUME NEW S, NEW r \in Seq(S), NEW x \in S, NEW y \in S
  PROVE  LET p == <<x, y>> \o r IN
         /\ p \in Seq(S) /\ Len(p) = 2 + Len(r) /\ p[1] = x /\ p[2] = y
         /\ \A j \in 1..Len(r) : p[j + 2] = r[j]
  OBVIOUS

(* A step taken: the rest is ordered and has what is left. *)
LEMMA TailOrdered ==
  ASSUME NEW q \in Seq(Step), q # <<>>, Ordered(q)
  PROVE  /\ Tail(q) \in Seq(Step) /\ Ordered(Tail(q))
         /\ \A step : Has(Tail(q), step) <=> Has(q, step) /\ step # Head(q)
         /\ Has(q, Head(q)) /\ Head(q) = q[1]
         /\ Head(q) = "reply" <=> Tail(q) = <<>>
  <1> DEFINE t == Tail(q) n == Len(q)
  <1>1. /\ t \in Seq(Step) /\ n \in Nat \ {0} /\ Len(t) = n - 1
        /\ \A k \in 1..Len(t) : t[k] = q[k + 1]
        /\ Head(q) = q[1]
    OBVIOUS
  <1>0. t = <<>> <=> Len(t) = 0
    BY <1>1
  <1> HIDE DEF t
  <1>2. \A k \in 1..Len(t) : k + 1 \in 1..n /\ t[k] = q[k + 1]
    BY <1>1
  <1>3. Ordered(t)
    <2>1. \A k \in 1..Len(t) : t[k] = "reply" <=> k = Len(t)
      BY <1>1, <1>2 DEF Ordered
    <2>2. \A i, j \in 1..Len(t) : t[i] = t[j] => i = j
      BY <1>1, <1>2 DEF Ordered
    <2>3. \A k \in 1..Len(t) : t[k] \in {"lookup", "mint"} => t[k + 1] = "bind"
      BY <1>1, <1>2, <2>1 DEF Ordered
    <2>4. \A k \in 1..Len(t) : t[k] = "mint" => k = 1
      BY <1>1, <1>2 DEF Ordered
    <2>5. \A k \in 1..Len(t) : t[k] = "log_mint" => k = 1 \/ (k = 2 /\ t[1] = "bind")
      BY <1>1, <1>2 DEF Ordered
    <2>6. \A i, j \in 1..Len(t) : t[i] = "witness" /\ t[j] \in {"bind", "log_mint"} => j < i
      BY <1>1, <1>2 DEF Ordered
    <2>7. QED
      BY <2>1, <2>2, <2>3, <2>4, <2>5, <2>6 DEF Ordered
  <1>4. ASSUME NEW step PROVE Has(t, step) <=> Has(q, step) /\ step # q[1]
    <2>1. \A k \in 1..n : k # 1 => k - 1 \in 1..Len(t) /\ t[k - 1] = q[k]
      BY <1>1
    <2>2. ASSUME Has(t, step) PROVE Has(q, step) /\ step # q[1]
      BY <1>1, <2>2 DEF Ordered, Has
    <2>3. ASSUME Has(q, step), step # q[1] PROVE Has(t, step)
      BY <2>1, <2>3 DEF Has
    <2>4. QED
      BY <2>2, <2>3
  <1>5. Has(q, q[1]) /\ (q[1] = "reply" <=> t = <<>>)
    BY <1>0, <1>1 DEF Has, Ordered
  <1>6. QED
    BY <1>1, <1>3, <1>4, <1>5 DEF t

(* A session that is not bound puts its binding before the rest of a call. *)
LEMMA BindingOrdered ==
  ASSUME NEW w \in Seq(Step), w # <<>>, Ordered(w),
         \A step \in {"lookup", "mint", "bind", "log_mint"} : ~Has(w, step)
  PROVE  LET p == <<"lookup", "bind">> \o w IN
         /\ p \in Seq(Step) /\ p # <<>> /\ Ordered(p)
         /\ \A step : Has(p, step) <=> step \in {"lookup", "bind"} \/ Has(w, step)
  <1> DEFINE p == <<"lookup", "bind">> \o w n == Len(w)
  <1>1. /\ p \in Seq(Step) /\ Len(p) = n + 2 /\ n \in Nat \ {0}
        /\ p[1] = "lookup" /\ p[2] = "bind"
        /\ \A k \in 1..Len(p) : k = 1 \/ k = 2 \/ (k - 2 \in 1..n /\ p[k] = w[k - 2])
    BY DEF Step, Fallible
  <1>2. \A k \in 1..n : k + 2 \in 1..Len(p) /\ p[k + 2] = w[k]
    BY <1>1
  <1> HIDE DEF p
  <1>3. \A k \in 1..Len(p) : p[k] = "reply" <=> k = Len(p)
    BY <1>1 DEF Ordered
  <1>4. \A k \in 1..n : w[k] \notin {"lookup", "mint", "bind", "log_mint"}
    BY DEF Has
  <1>5. \A i, j \in 1..Len(p) : p[i] = p[j] => i = j
    BY <1>1, <1>4 DEF Ordered
  <1>6. \A k \in 1..Len(p) : p[k] \in {"lookup", "mint"} => p[k + 1] = "bind"
    BY <1>1, <1>4
  <1>7. \A k \in 1..Len(p) : p[k] \notin {"mint", "log_mint"}
    BY <1>1, <1>4
  <1>8. \A i, j \in 1..Len(p) : p[i] = "witness" /\ p[j] \in {"bind", "log_mint"} => j < i
    <2>1. \A j \in 1..Len(p) : p[j] \in {"bind", "log_mint"} => j = 2
      BY <1>1, <1>4
    <2>2. \A i \in 1..Len(p) : p[i] = "witness" => i > 2
      BY <1>1
    <2>3. QED
      BY <2>1, <2>2
  <1>9. Ordered(p)
    BY <1>3, <1>5, <1>6, <1>7, <1>8 DEF Ordered
  <1>10. ASSUME NEW step PROVE Has(p, step) <=> step \in {"lookup", "bind"} \/ Has(w, step)
    <2>1. ASSUME Has(p, step) PROVE step \in {"lookup", "bind"} \/ Has(w, step)
      BY <1>1, <2>1 DEF Has
    <2>2. ASSUME Has(w, step) PROVE Has(p, step)
      BY <1>2, <2>2 DEF Has
    <2>3. ASSUME step \in {"lookup", "bind"} PROVE Has(p, step)
      BY <1>1, <2>3 DEF Has
    <2>4. QED
      BY <2>1, <2>2, <2>3
  <1>11. QED
    BY <1>1, <1>9, <1>10 DEF p

(* A handler that writes first puts that before its binding. *)
LEMMA WriteFirstOrdered ==
  ASSUME NEW w \in Seq(Step), w # <<>>, Ordered(w),
         \A step \in {"write", "mint", "log_mint"} : ~Has(w, step)
  PROVE  LET p == <<"write">> \o w IN
         /\ p \in Seq(Step) /\ p # <<>> /\ Ordered(p)
         /\ \A step : Has(p, step) <=> step = "write" \/ Has(w, step)
  <1> DEFINE p == <<"write">> \o w n == Len(w)
  <1>1. /\ p \in Seq(Step) /\ Len(p) = n + 1 /\ n \in Nat \ {0} /\ p[1] = "write"
        /\ \A k \in 1..Len(p) : k = 1 \/ (k - 1 \in 1..n /\ p[k] = w[k - 1])
    BY DEF Step, Fallible
  <1>2. \A k \in 1..n : k + 1 \in 1..Len(p) /\ p[k + 1] = w[k]
    BY <1>1
  <1> HIDE DEF p
  <1>3. \A k \in 1..Len(p) : p[k] = "reply" <=> k = Len(p)
    BY <1>1 DEF Ordered
  <1>4. \A k \in 1..n : w[k] \notin {"write", "mint", "log_mint"}
    BY DEF Has
  <1>5. \A i, j \in 1..Len(p) : p[i] = p[j] => i = j
    BY <1>1, <1>4 DEF Ordered
  <1>6. \A k \in 1..Len(p) : p[k] \in {"lookup", "mint"} => p[k + 1] = "bind"
    <2> SUFFICES ASSUME NEW k \in 1..Len(p), p[k] \in {"lookup", "mint"}
                 PROVE  p[k + 1] = "bind"
      OBVIOUS
    <2>1. k - 1 \in 1..n /\ w[k - 1] \in {"lookup", "mint"}
      BY <1>1
    <2>2. w[(k - 1) + 1] = "bind"
      BY <2>1 DEF Ordered
    <2>3. w[k - 1] # "reply" /\ k - 1 # n
      BY <2>1 DEF Ordered
    <2>4. QED
      BY <1>1, <1>2, <2>1, <2>2, <2>3
  <1>7. \A k \in 1..Len(p) : p[k] \notin {"mint", "log_mint"}
    BY <1>1, <1>4
  <1>8. \A i, j \in 1..Len(p) : p[i] = "witness" /\ p[j] \in {"bind", "log_mint"} => j < i
    <2> SUFFICES ASSUME NEW i \in 1..Len(p), NEW j \in 1..Len(p),
                        p[i] = "witness", p[j] \in {"bind", "log_mint"}
                 PROVE  j < i
      OBVIOUS
    <2>1. /\ i - 1 \in 1..n /\ w[i - 1] = "witness"
          /\ j - 1 \in 1..n /\ w[j - 1] \in {"bind", "log_mint"}
      BY <1>1
    <2>2. j - 1 < i - 1
      BY <2>1 DEF Ordered
    <2>3. QED
      BY <2>2
  <1>9. Ordered(p)
    BY <1>3, <1>5, <1>6, <1>7, <1>8 DEF Ordered
  <1>10. ASSUME NEW step PROVE Has(p, step) <=> step = "write" \/ Has(w, step)
    BY <1>1, <1>2 DEF Has
  <1>11. QED
    BY <1>1, <1>9, <1>10 DEF p

(* A lookup that misses becomes a mint. *)
LEMMA MissOrdered ==
  ASSUME NEW q \in Seq(Step), q # <<>>, Ordered(q), Head(q) = "lookup"
  PROVE  LET p == <<"mint">> \o Tail(q) IN
         /\ p \in Seq(Step) /\ p # <<>> /\ Ordered(p)
         /\ \A step : Has(p, step) <=> step = "mint" \/ (Has(q, step) /\ step # "lookup")
  <1> DEFINE p == <<"mint">> \o Tail(q) n == Len(q)
  <1>1. /\ p \in Seq(Step) /\ Len(p) = n /\ n \in Nat \ {0} /\ p[1] = "mint" /\ q[1] = "lookup"
        /\ \A k \in 1..n : k = 1 \/ p[k] = q[k]
    BY DEF Step, Fallible
  <1> HIDE DEF p
  <1>2. n # 1 /\ q[2] = "bind" /\ p[2] = "bind"
    BY <1>1 DEF Ordered
  <1>3. \A k \in 2..n : q[k] \notin {"lookup", "mint"}
    BY <1>1 DEF Ordered
  <1>4. \A k \in 1..n : p[k] = "reply" <=> k = n
    BY <1>1 DEF Ordered
  <1>5. \A i, j \in 1..n : p[i] = p[j] => i = j
    BY <1>1, <1>3 DEF Ordered
  <1>6. \A k \in 1..n : p[k] \in {"lookup", "mint"} => k = 1 /\ p[k + 1] = "bind"
    BY <1>1, <1>2, <1>3
  <1>7. \A k \in 1..n : p[k] # "log_mint"
    BY <1>1 DEF Ordered
  <1>8. \A i, j \in 1..n : p[i] = "witness" /\ p[j] \in {"bind", "log_mint"} => j < i
    BY <1>1 DEF Ordered
  <1>9. Ordered(p)
    BY <1>1, <1>4, <1>5, <1>6, <1>7, <1>8 DEF Ordered
  <1>10. ASSUME NEW step PROVE Has(p, step) <=> step = "mint" \/ (Has(q, step) /\ step # "lookup")
    BY <1>1, <1>3 DEF Has
  <1>11. QED
    BY <1>1, <1>9, <1>10 DEF p

(* The session that minted will tell it right after its bind. *)
LEMMA MintedOrdered ==
  ASSUME NEW q \in Seq(Step), q # <<>>, Ordered(q), Head(q) = "mint"
  PROVE  LET p == <<"bind", "log_mint">> \o Tail(Tail(q)) IN
         /\ p \in Seq(Step) /\ p # <<>> /\ Ordered(p)
         /\ \A step : Has(p, step) <=> step = "log_mint" \/ (Has(q, step) /\ step # "mint")
  <1> DEFINE p == <<"bind", "log_mint">> \o Tail(Tail(q)) n == Len(q)
  <1>1. n \in Nat \ {0} /\ q[1] = "mint" /\ n # 1 /\ q[2] = "bind"
    BY DEF Ordered
  <1>2. /\ p \in Seq(Step) /\ Len(p) = n /\ p[1] = "bind" /\ p[2] = "log_mint"
        /\ \A k \in 1..n : k = 1 \/ k = 2 \/ p[k] = q[k]
    <2>1. PICK t : t = Tail(q)
      OBVIOUS
    <2>2. PICK r : r = Tail(t)
      OBVIOUS
    <2>3. t \in Seq(Step) /\ Len(t) = n - 1 /\ \A k \in 1..(n - 1) : t[k] = q[k + 1]
      BY <1>1, <2>1
    <2>4. r \in Seq(Step) /\ Len(r) = n - 2 /\ \A k \in 1..(n - 2) : r[k] = t[k + 1]
      BY <1>1, <2>2, <2>3
    <2>5. \A k \in 1..(n - 2) : r[k] = q[k + 2]
      BY <1>1, <2>3, <2>4
    <2>6. p = <<"bind", "log_mint">> \o r
      BY <2>1, <2>2
    <2> HIDE DEF p
    <2>7. "bind" \in Step /\ "log_mint" \in Step
      BY DEF Step, Fallible
    <2>8. <<"bind", "log_mint">> \o r \in Seq(Step)
      BY <2>4, <2>7, PairThen
    <2>9. /\ Len(p) = 2 + Len(r) /\ p[1] = "bind" /\ p[2] = "log_mint"
          /\ \A j \in 1..Len(r) : p[j + 2] = r[j]
      BY <2>4, <2>6, <2>7, PairThen
    <2>12. ASSUME NEW k \in 1..n, k # 1, k # 2 PROVE p[k] = q[k]
      <3>1. k - 2 \in 1..(n - 2) /\ (k - 2) + 2 = k
        BY <1>1, <2>12
      <3>2. p[(k - 2) + 2] = r[k - 2] /\ r[k - 2] = q[(k - 2) + 2]
        BY <2>4, <2>5, <2>9, <3>1
      <3>3. QED
        BY <3>1, <3>2
    <2>13. QED
      BY <1>1, <2>4, <2>6, <2>8, <2>9, <2>12
  <1> HIDE DEF p
  <1>3. \A k \in 1..n : k > 2 => q[k] \notin {"lookup", "mint", "bind", "log_mint"}
    BY <1>1 DEF Ordered
  <1>4. \A k \in 1..n : p[k] = "reply" <=> k = n
    BY <1>1, <1>2 DEF Ordered
  <1>5. \A i, j \in 1..n : p[i] = p[j] => i = j
    BY <1>1, <1>2, <1>3 DEF Ordered
  <1>6. \A k \in 1..n : p[k] \notin {"lookup", "mint"}
    BY <1>1, <1>2, <1>3
  <1>7. \A k \in 1..n : p[k] = "log_mint" => k = 2
    BY <1>1, <1>2, <1>3
  <1>8. \A i, j \in 1..n : p[i] = "witness" /\ p[j] \in {"bind", "log_mint"} => j < i
    BY <1>1, <1>2, <1>3
  <1>9. Ordered(p)
    BY <1>2, <1>4, <1>5, <1>6, <1>7, <1>8 DEF Ordered
  <1>10. ASSUME NEW step
         PROVE  Has(p, step) <=> step = "log_mint" \/ (Has(q, step) /\ step # "mint")
    BY <1>1, <1>2, <1>3 DEF Has
  <1>11. QED
    BY <1>1, <1>2, <1>9, <1>10 DEF p

(* What a handler does after its binding, step by step. *)
Work == {<<"reply">>, <<"witness", "reply">>, <<"write", "link", "witness", "reply">>,
         <<"witness", "disclose", "reply">>, <<"serve_frame", "witness", "reply">>}

LEMMA WorkOrdered ==
  ASSUME NEW w \in Work
  PROVE  /\ w \in Seq(Step) /\ w # <<>> /\ Ordered(w)
         /\ \A step \in {"lookup", "mint", "bind", "log_mint"} : ~Has(w, step)
         /\ Has(w, "witness") <=> w # <<"reply">>
         /\ Has(w, "serve_frame") <=> w = <<"serve_frame", "witness", "reply">>
  <1>1. CASE w = <<"reply">>
    BY <1>1 DEF Ordered, Has, Step, Fallible
  <1>2. CASE w = <<"witness", "reply">>
    BY <1>2 DEF Ordered, Has, Step, Fallible
  <1>3. CASE w = <<"write", "link", "witness", "reply">>
    BY <1>3 DEF Ordered, Has, Step, Fallible
  <1>4. CASE w = <<"witness", "disclose", "reply">>
    BY <1>4 DEF Ordered, Has, Step, Fallible
  <1>5. CASE w = <<"serve_frame", "witness", "reply">>
    BY <1>5 DEF Ordered, Has, Step, Fallible
  <1>6. QED
    BY <1>1, <1>2, <1>3, <1>4, <1>5 DEF Work

(* The binding, if one is due, and then the work. *)
LEMMA BindThenWork ==
  ASSUME Types, NEW s \in Session, NEW w \in Work
  PROVE  LET q == Bind(s) \o w IN
         /\ q \in Seq(Step) /\ q # <<>> /\ Ordered(q)
         /\ \A step : Has(q, step) <=>
              Has(w, step) \/ (~actor_bound[s] /\ step \in {"lookup", "bind"})
  <1>1. /\ w \in Seq(Step) /\ w # <<>> /\ Ordered(w)
        /\ \A step \in {"lookup", "mint", "bind", "log_mint"} : ~Has(w, step)
    BY WorkOrdered
  <1>2. CASE actor_bound[s]
    <2>1. Bind(s) \o w = w
      BY <1>1, <1>2 DEF Bind
    <2>2. QED
      BY <1>1, <1>2, <2>1
  <1>3. CASE ~actor_bound[s]
    <2>1. Bind(s) \o w = <<"lookup", "bind">> \o w
      BY <1>3 DEF Bind
    <2>2. QED
      BY <1>1, <1>3, <2>1, BindingOrdered
  <1>4. QED
    BY <1>2, <1>3

(* A handler's plan: it binds exactly if the session is not bound, witnesses
   unless it is initialize, and a framed recall notes its frame. *)
LEMMA PlanOrdered ==
  ASSUME Types, NEW s \in Session, NEW tool \in Tool, NEW framed \in BOOLEAN
  PROVE  LET q == Steps(s, tool, framed) IN
         /\ q \in Seq(Step) /\ q # <<>> /\ Ordered(q)
         /\ Has(q, "bind") <=> ~actor_bound[s]
         /\ Has(q, "bind") => Has(q, "lookup")
         /\ ~Has(q, "log_mint")
         /\ Has(q, "witness") <=> tool # "initialize"
         /\ Has(q, "serve_frame") <=> tool = "recall" /\ framed
  <1> DEFINE q == Steps(s, tool, framed)
  <1>1. ASSUME NEW w \in Work, q = Bind(s) \o w,
               tool = "initialize" <=> w = <<"reply">>,
               w = <<"serve_frame", "witness", "reply">> <=> tool = "recall" /\ framed
        PROVE  /\ q \in Seq(Step) /\ q # <<>> /\ Ordered(q)
               /\ Has(q, "bind") <=> ~actor_bound[s]
               /\ Has(q, "bind") => Has(q, "lookup")
               /\ ~Has(q, "log_mint")
               /\ Has(q, "witness") <=> tool # "initialize"
               /\ Has(q, "serve_frame") <=> tool = "recall" /\ framed
    <2> HIDE DEF q
    <2>1. /\ q \in Seq(Step) /\ q # <<>> /\ Ordered(q)
          /\ \A step : Has(q, step) <=>
               Has(w, step) \/ (~actor_bound[s] /\ step \in {"lookup", "bind"})
      BY <1>1, BindThenWork
    <2>2. /\ \A step \in {"lookup", "mint", "bind", "log_mint"} : ~Has(w, step)
          /\ Has(w, "witness") <=> w # <<"reply">>
          /\ Has(w, "serve_frame") <=> w = <<"serve_frame", "witness", "reply">>
      BY WorkOrdered
    <2>3. QED
      BY <1>1, <2>1, <2>2
  <1>2. CASE tool = "initialize"
    <2>1. /\ q = Bind(s) \o <<"reply">> /\ <<"reply">> \in Work
          /\ <<"reply">> # <<"serve_frame", "witness", "reply">>
      BY <1>2 DEF Steps, Work
    <2>2. QED
      BY <1>1, <1>2, <2>1
  <1>3. CASE tool = "remember"
    <2>1. /\ q = Bind(s) \o <<"write", "link", "witness", "reply">>
          /\ <<"write", "link", "witness", "reply">> \in Work
          /\ <<"write", "link", "witness", "reply">> # <<"reply">>
          /\ <<"write", "link", "witness", "reply">> # <<"serve_frame", "witness", "reply">>
      BY <1>3 DEF Steps, Work
    <2>2. QED
      BY <1>1, <1>3, <2>1
  <1>4. CASE tool = "file"
    <2>1. PICK w : w = Bind(s) \o <<"witness", "reply">>
      OBVIOUS
    <2>2. <<"witness", "reply">> \in Work /\ <<"witness", "reply">> # <<"reply">>
      BY DEF Work
    <2>3. /\ w \in Seq(Step) /\ w # <<>> /\ Ordered(w)
          /\ \A step : Has(w, step) <=>
               Has(<<"witness", "reply">>, step) \/ (~actor_bound[s] /\ step \in {"lookup", "bind"})
      BY <2>1, <2>2, BindThenWork
    <2>4. /\ \A step \in {"lookup", "mint", "bind", "log_mint"} : ~Has(<<"witness", "reply">>, step)
          /\ Has(<<"witness", "reply">>, "witness") /\ ~Has(<<"witness", "reply">>, "write")
          /\ ~Has(<<"witness", "reply">>, "serve_frame")
      BY <2>2, WorkOrdered DEF Has
    <2>5. q = <<"write">> \o w
      BY <1>4, <2>1 DEF Steps
    <2> HIDE DEF q
    <2>6. /\ q \in Seq(Step) /\ q # <<>> /\ Ordered(q)
          /\ \A step : Has(q, step) <=> step = "write" \/ Has(w, step)
      BY <2>3, <2>4, <2>5, WriteFirstOrdered
    <2>7. QED
      BY <1>4, <2>3, <2>4, <2>6 DEF q
  <1>5. CASE tool = "secret_read"
    <2>1. /\ q = Bind(s) \o <<"witness", "disclose", "reply">>
          /\ <<"witness", "disclose", "reply">> \in Work
          /\ <<"witness", "disclose", "reply">> # <<"reply">>
          /\ <<"witness", "disclose", "reply">> # <<"serve_frame", "witness", "reply">>
      BY <1>5 DEF Steps, Work
    <2>2. QED
      BY <1>1, <1>5, <2>1
  <1>6. CASE tool = "recall" /\ framed
    <2>1. /\ q = Bind(s) \o <<"serve_frame", "witness", "reply">>
          /\ <<"serve_frame", "witness", "reply">> \in Work
          /\ <<"serve_frame", "witness", "reply">> # <<"reply">>
      BY <1>6 DEF Steps, Work
    <2>2. QED
      BY <1>1, <1>6, <2>1
  <1>7. CASE tool = "recall" /\ ~framed
    <2>1. /\ q = Bind(s) \o <<"witness", "reply">>
          /\ <<"witness", "reply">> \in Work /\ <<"witness", "reply">> # <<"reply">>
          /\ <<"witness", "reply">> # <<"serve_frame", "witness", "reply">>
      BY <1>7 DEF Steps, Work
    <2>2. QED
      BY <1>1, <1>7, <2>1
  <1>8. QED
    BY <1>2, <1>3, <1>4, <1>5, <1>6, <1>7 DEF Tool

-----------------------------------------------------------------------------
(* The ledger as a session's events. *)

LEMMA EventsAreFinite ==
  ASSUME Types, NEW s \in Session, NEW sort
  PROVE  /\ EventsOf(s, sort) \subseteq 1..Len(trail[s])
         /\ IsFiniteSet(EventsOf(s, sort)) /\ Cardinality(EventsOf(s, sort)) \in Nat
         /\ Len(trail[s]) \in Nat
  <1>1. Len(trail[s]) \in Nat
    BY DEF Types
  <1>2. EventsOf(s, sort) \subseteq 1..Len(trail[s])
    BY DEF EventsOf
  <1>3. IsFiniteSet(1..Len(trail[s]))
    BY <1>1, FS_Interval
  <1>4. IsFiniteSet(EventsOf(s, sort))
    BY <1>2, <1>3, FS_Subset
  <1>5. QED
    BY <1>1, <1>2, <1>4, FS_CardinalityType

(* An append adds its event at the end and no other. *)
LEMMA AppendedFacts ==
  ASSUME Types, NEW s \in Session, NEW sort \in Tool \cup {"actor_bind", "actor_mint"},
         call[s].n \in 1..MaxCalls, Appended(s, sort)
  PROVE  LET n == Len(trail[s]) IN
         /\ trail' \in [Session -> Seq(EventType)]
         /\ \A t \in Session \ {s} : trail'[t] = trail[t]
         /\ n \in Nat /\ Len(trail'[s]) = n + 1
         /\ \A k \in 1..n : trail'[s][k] = trail[s][k]
         /\ trail'[s][n + 1] = [kind |-> sort, n |-> call[s].n]
         /\ trail'[s] # <<>>
  <1>1. PICK e : e = [kind |-> sort, n |-> call[s].n]
    OBVIOUS
  <1>2. e \in EventType
    BY <1>1 DEF EventType
  <1>3. trail' = [trail EXCEPT ![s] = Append(trail[s], e)]
    BY <1>1 DEF Appended
  <1>4. trail[s] \in Seq(EventType)
    BY DEF Types
  <1>5. /\ Append(trail[s], e) \in Seq(EventType) /\ Len(trail[s]) \in Nat
        /\ Len(Append(trail[s], e)) = Len(trail[s]) + 1
        /\ \A k \in 1..Len(trail[s]) : Append(trail[s], e)[k] = trail[s][k]
        /\ Append(trail[s], e)[Len(trail[s]) + 1] = e
        /\ Append(trail[s], e) # <<>>
    BY <1>2, <1>4
  <1>6. trail'[s] = Append(trail[s], e) /\ \A t \in Session \ {s} : trail'[t] = trail[t]
    BY <1>3 DEF Types
  <1>7. trail' \in [Session -> Seq(EventType)]
    BY <1>3, <1>5 DEF Types
  <1>8. QED
    BY <1>1, <1>5, <1>6, <1>7

LEMMA AppendedEvents ==
  ASSUME Types, NEW s \in Session, NEW sort \in Tool \cup {"actor_bind", "actor_mint"},
         call[s].n \in 1..MaxCalls, Appended(s, sort)
  PROVE  /\ \A other : other # sort => EventsOf(s, other)' = EventsOf(s, other)
         /\ Cardinality(EventsOf(s, sort))' = Cardinality(EventsOf(s, sort)) + 1
         /\ \E k \in EventsOf(s, sort)' : trail'[s][k].n = call[s].n
         /\ \A tool, n : Told(s, tool, n) => Told(s, tool, n)'
         /\ trail[s] # <<>> => trail'[s][1] = trail[s][1]
         /\ trail[s] = <<>> => trail'[s][1].kind = sort
  <1> DEFINE n == Len(trail[s]) line == [kind |-> sort, n |-> call[s].n]
  <1>0. line.kind = sort /\ line.n = call[s].n
    OBVIOUS
  <1> HIDE DEF line
  <1>1. /\ n \in Nat /\ Len(trail'[s]) = n + 1
        /\ \A k \in 1..n : trail'[s][k] = trail[s][k]
        /\ trail'[s][n + 1] = line
    BY AppendedFacts DEF line
  <1>2. \A other : other # sort => EventsOf(s, other)' = EventsOf(s, other)
    BY <1>0, <1>1 DEF EventsOf
  <1>3. EventsOf(s, sort)' = EventsOf(s, sort) \cup {n + 1} /\ n + 1 \notin EventsOf(s, sort)
    BY <1>0, <1>1 DEF EventsOf
  <1>4. Cardinality(EventsOf(s, sort))' = Cardinality(EventsOf(s, sort)) + 1
    BY <1>3, EventsAreFinite, FS_AddElement
  <1>5. \E k \in EventsOf(s, sort)' : trail'[s][k].n = call[s].n
    BY <1>0, <1>1, <1>3
  <1>6. ASSUME NEW tool, NEW m, Told(s, tool, m) PROVE Told(s, tool, m)'
    <2>1. PICK e \in EventsOf(s, tool) : trail[s][e].n = m
      BY <1>6 DEF Told
    <2>2. e \in EventsOf(s, tool)' /\ trail'[s][e].n = m
      BY <1>1, <2>1 DEF EventsOf
    <2>3. QED
      BY <2>2 DEF Told
  <1>7. trail[s] # <<>> => 1 \in 1..n
    BY <1>1 DEF Types
  <1>8. trail[s] = <<>> => n = 0
    OBVIOUS
  <1>9. QED
    BY <1>0, <1>1, <1>2, <1>4, <1>5, <1>6, <1>7, <1>8

-----------------------------------------------------------------------------
(* A step of one session leaves the others as they were. *)
Stays(t) ==
  /\ trail'[t] = trail[t] /\ process'[t] = process[t] /\ actor_bound'[t] = actor_bound[t]
  /\ served'[t] = served[t] /\ todo'[t] = todo[t] /\ call'[t] = call[t]
  /\ state_file'[t] = state_file[t] /\ answers'[t] = answers[t]

LEMMA EventsStay ==
  ASSUME NEW t \in Session, trail'[t] = trail[t]
  PROVE  /\ \A sort : EventsOf(t, sort)' = EventsOf(t, sort)
         /\ Binds(t)' = Binds(t)
         /\ \A tool, n : Told(t, tool, n)' <=> Told(t, tool, n)
  <1>1. \A sort : EventsOf(t, sort)' = EventsOf(t, sort)
    BY DEF EventsOf
  <1>2. Binds(t)' = Binds(t)
    BY <1>1 DEF Binds
  <1>3. \A tool, n : Told(t, tool, n)' <=> Told(t, tool, n)
    BY <1>1 DEF Told
  <1>4. QED
    BY <1>1, <1>2, <1>3

LEMMA BindsIsNat ==
  ASSUME Types, NEW s \in Session
  PROVE  Binds(s) \in Nat
  BY EventsAreFinite DEF Binds

LEMMA OthersStay ==
  ASSUME SInv, NEW t \in Session, Stays(t), actors \subseteq actors',
         failures' \in Nat, failures <= failures'
  PROVE  SessionInv(t)' /\ (Claims(t)' <=> Claims(t))
  <1>1. /\ \A sort : EventsOf(t, sort)' = EventsOf(t, sort)
        /\ Binds(t)' = Binds(t) /\ Binds(t) \in Nat /\ failures \in Nat
        /\ \A tool, n : Told(t, tool, n)' <=> Told(t, tool, n)
        /\ \A step : Due(t, step)' <=> Due(t, step)
        /\ Bound(t)' <=> Bound(t)
        /\ Remembered(t)' = Remembered(t)
    BY EventsStay, BindsIsNat, BoundsAssumption DEF Stays, Due, Bound, Remembered, SInv, Types
  <1>2. SessionInv(t)
    BY DEF SInv
  <1>3. CallInv(t)'
    BY <1>1, <1>2 DEF SessionInv, CallInv, Stays
  <1>4. BindInv(t)'
    BY <1>1, <1>2 DEF SessionInv, BindInv, Stays
  <1>5. WitnessInv(t)'
    BY <1>1, <1>2 DEF SessionInv, WitnessInv, Stays
  <1>6. FrameInv(t)'
    BY <1>1, <1>2 DEF SessionInv, FrameInv, Stays, Pressed
  <1>7. Claims(t)' <=> Claims(t)
    BY <1>1 DEF Claims
  <1>8. QED
    BY <1>3, <1>4, <1>5, <1>6, <1>7 DEF SessionInv

(* So a step is judged by what it does to its own session. *)
LEMMA OwnStep ==
  ASSUME SInv, NEW s \in Session, Types', SessionInv(s)', actors \subseteq actors',
         failures <= failures', \A t \in Session \ {s} : Stays(t),
         Claims(s)' => Claims(s) \/ \A t \in Session : KeyOf[t] = KeyOf[s] => ~Claims(t)
  PROVE  SInv'
  <1>1. \A t \in Session \ {s} : SessionInv(t)' /\ (Claims(t)' <=> Claims(t))
    BY OthersStay, BoundsAssumption DEF Types
  <1>2. OneMinter'
    BY <1>1 DEF OneMinter, SInv
  <1>3. QED
    BY <1>1, <1>2 DEF SInv

-----------------------------------------------------------------------------
(* A step taken off a call, the answer excepted, which ends it. *)
LEMMA Taken ==
  ASSUME SInv, NEW s \in Session, NEW h, At(s, h), Done(s)
  PROVE  /\ todo' \in [Session -> Seq(Step)]
         /\ \A t \in Session \ {s} : todo'[t] = todo[t]
         /\ todo[s] # <<>> /\ todo[s][1] = h /\ Ordered(todo[s]) /\ Due(s, h)
         /\ todo'[s] # <<>> => Ordered(todo'[s])
         /\ \A step : Due(s, step)' <=> Due(s, step) /\ step # h
         /\ process[s] = "up" /\ call[s].n \in 1..MaxCalls /\ call[s].tool \in Tool
         /\ call[s].tool = "initialize" => ~call[s].framed
         /\ ~Bound(s) <=> ~actor_bound[s]
  <1>1. /\ todo[s] \in Seq(Step) /\ todo[s] # <<>> /\ Head(todo[s]) = h
        /\ Ordered(todo[s]) /\ process[s] = "up"
        /\ call[s].n \in 1..MaxCalls /\ call[s].tool \in Tool
        /\ call[s].tool = "initialize" => ~call[s].framed
    BY DEF SInv, Types, SessionInv, CallInv, At
  <1>2. todo' = [todo EXCEPT ![s] = Tail(todo[s])] /\ todo \in [Session -> Seq(Step)]
    BY DEF Done, SInv, Types
  <1>3. /\ Tail(todo[s]) \in Seq(Step) /\ Ordered(Tail(todo[s]))
        /\ \A step : Has(Tail(todo[s]), step) <=> Has(todo[s], step) /\ step # h
        /\ Has(todo[s], h) /\ todo[s][1] = h
    BY <1>1, TailOrdered
  <1>4. todo'[s] = Tail(todo[s]) /\ \A t \in Session \ {s} : todo'[t] = todo[t]
    BY <1>2
  <1>5. todo' \in [Session -> Seq(Step)]
    BY <1>2, <1>3
  <1>6. \A step : Due(s, step)' <=> Due(s, step) /\ step # h
    BY <1>3, <1>4 DEF Due
  <1>7. QED
    BY <1>1, <1>3, <1>4, <1>5, <1>6 DEF Due, Bound

(* What is left after the step at the head of a call. *)
LEMMA HeadFacts ==
  ASSUME NEW q \in Seq(Step), q # <<>>, Ordered(q)
  PROVE  /\ q[1] = "reply" => \A step : Has(q, step) <=> step = "reply"
         /\ q[1] = "bind" => ~Has(q, "lookup") /\ ~Has(q, "mint")
         /\ q[1] = "bind" => (Has(q, "log_mint") <=> Head(Tail(q)) = "log_mint")
         /\ q[1] = "witness" => ~Has(q, "bind") /\ ~Has(q, "log_mint")
         /\ q[1] = "lookup" \/ q[1] = "mint" => Has(q, "bind") /\ q[2] = "bind"
         /\ q[1] = "lookup" => ~Has(q, "mint")
         /\ Has(q, "reply")
  <1>1. Len(q) \in Nat \ {0}
    OBVIOUS
  <1>2. q[1] = "reply" => \A step : Has(q, step) <=> step = "reply"
    BY <1>1 DEF Ordered, Has
  <1>3. ASSUME q[1] = "bind" PROVE ~Has(q, "lookup") /\ ~Has(q, "mint")
    <2>1. Len(q) # 1
      BY <1>1, <1>3 DEF Ordered
    <2>2. ASSUME NEW k \in 1..Len(q), q[k] \in {"lookup", "mint"} PROVE FALSE
      <3>1. q[k + 1] = "bind" /\ k # Len(q)
        BY <1>1, <2>2 DEF Ordered
      <3>2. k + 1 \in 1..Len(q) /\ k + 1 # 1
        BY <1>1, <3>1
      <3>3. QED
        BY <1>1, <1>3, <3>1, <3>2 DEF Ordered
    <2>3. QED
      BY <2>2 DEF Has
  <1>4. ASSUME q[1] = "bind" PROVE Has(q, "log_mint") <=> Head(Tail(q)) = "log_mint"
    <2>1. Len(q) # 1
      BY <1>1, <1>4 DEF Ordered
    <2>6. PICK n \in Nat : n = Len(q) /\ n > 1
      BY <1>1, <2>1
    <2>2. Head(Tail(q)) = q[2]
      <3>1. PICK t : t = Tail(q)
        OBVIOUS
      <3>2. t \in Seq(Step) /\ Len(t) = n - 1 /\ \A k \in 1..(n - 1) : t[k] = q[k + 1]
        BY <2>6, <3>1
      <3>3. Head(t) = q[2]
        BY <2>6, <3>2
      <3>4. QED
        BY <3>1, <3>3, Zenon
    <2>3. 2 \in 1..Len(q)
      BY <2>6
    <2>4. \A k \in 1..Len(q) : q[k] = "log_mint" => k = 2
      BY <1>4 DEF Ordered
    <2>5. QED
      BY <2>2, <2>3, <2>4 DEF Has
  <1>5. q[1] = "witness" => ~Has(q, "bind") /\ ~Has(q, "log_mint")
    BY <1>1 DEF Ordered, Has
  <1>6. q[1] = "lookup" \/ q[1] = "mint" => Has(q, "bind") /\ q[2] = "bind"
    <2>1. q[1] = "lookup" \/ q[1] = "mint" => q[2] = "bind" /\ 1 # Len(q)
      BY <1>1 DEF Ordered
    <2>2. QED
      BY <1>1, <2>1 DEF Has
  <1>7. q[1] = "lookup" => ~Has(q, "mint")
    BY <1>1 DEF Ordered, Has
  <1>8. Has(q, "reply")
    BY <1>1 DEF Ordered, Has
  <1>9. QED
    BY <1>2, <1>3, <1>4, <1>5, <1>6, <1>7, <1>8

-----------------------------------------------------------------------------
LEMMA InitSInv ==
  ASSUME Init
  PROVE  SInv
  <1>1. Types
    BY BoundsAssumption DEF Init, Types, NoCall, NoFile, CallType, FileType
  <1>2. ASSUME NEW s \in Session
        PROVE  /\ todo[s] = <<>> /\ trail[s] = <<>> /\ answers[s] = <<>>
               /\ ~actor_bound[s] /\ process[s] = "up" /\ ~state_file[s].there
               /\ failures = 0
    BY DEF Init, NoFile
  <1>3. ASSUME NEW s \in Session
        PROVE  /\ \A sort : EventsOf(s, sort) = {}
               /\ Binds(s) = 0
               /\ \A step : ~Due(s, step)
    <2>1. \A sort : EventsOf(s, sort) = {}
      BY <1>2 DEF EventsOf
    <2>2. Binds(s) = 0
      BY <2>1, FS_EmptySet DEF Binds
    <2>3. \A step : ~Due(s, step)
      BY <1>2 DEF Due, Has
    <2>4. QED
      BY <2>1, <2>2, <2>3
  <1>4. ASSUME NEW s \in Session PROVE SessionInv(s)
    <2>1. CallInv(s)
      BY <1>2 DEF CallInv
    <2>2. BindInv(s)
      BY <1>2, <1>3 DEF BindInv, Bound
    <2>3. WitnessInv(s) /\ FrameInv(s)
      BY <1>2 DEF WitnessInv, FrameInv
    <2>4. QED
      BY <2>1, <2>2, <2>3 DEF SessionInv
  <1>5. OneMinter
    BY <1>3 DEF OneMinter, Claims
  <1>6. QED
    BY <1>1, <1>4, <1>5 DEF SInv

(* A call begins: what it will do is planned by what the session remembers. *)
LEMMA BeginKeeps ==
  ASSUME SInv, NEW s \in Session, NEW tool \in Tool, NEW scope \in Scope \cup {NoScope},
         NEW framed \in BOOLEAN, NEW asked \in BOOLEAN,
         Begin(s, tool, scope, framed, asked),
         tool # "recall" => ~framed, tool = "recall" => scope \in Scope,
         framed /\ ~asked => scope \notin served[s]
  PROVE  SInv'
  <1> DEFINE q == Steps(s, tool, framed)
  <1>1. /\ Types /\ SessionInv(s) /\ process[s] = "up" /\ todo[s] = <<>>
        /\ UNCHANGED <<actors, shelf, trail, process, actor_bound, served, state_file,
                       answers, failures>>
    BY DEF SInv, Begin, Idle, memory
  <1>2. /\ q \in Seq(Step) /\ q # <<>> /\ Ordered(q)
        /\ Has(q, "bind") <=> ~actor_bound[s]
        /\ Has(q, "bind") => Has(q, "lookup")
        /\ ~Has(q, "log_mint")
        /\ Has(q, "witness") <=> tool # "initialize"
        /\ Has(q, "serve_frame") <=> tool = "recall" /\ framed
    BY <1>1, PlanOrdered
  <1>3. /\ todo' = [todo EXCEPT ![s] = q]
        /\ call' = [call EXCEPT ![s] = [n |-> call[s].n + 1, tool |-> tool, scope |-> scope,
                                         framed |-> framed, asked |-> asked]]
        /\ call[s].n < MaxCalls
    BY DEF Begin
  <1> HIDE DEF q
  <1>4. call[s].n \in Nat /\ call[s].n + 1 \in 1..MaxCalls
    BY <1>1, <1>3, BoundsAssumption DEF Types, CallType
  <1>5. /\ todo'[s] = q /\ \A t \in Session \ {s} : todo'[t] = todo[t] /\ call'[t] = call[t]
        /\ call'[s].n = call[s].n + 1 /\ call'[s].tool = tool /\ call'[s].scope = scope
        /\ call'[s].framed = framed /\ call'[s].asked = asked
    BY <1>1, <1>3 DEF Types
  <1>6. Types'
    <2>1. todo' \in [Session -> Seq(Step)]
      BY <1>1, <1>2, <1>3 DEF Types
    <2>2. call' \in [Session -> CallType]
      BY <1>1, <1>3, <1>4, BoundsAssumption DEF Types, CallType
    <2>3. QED
      BY <1>1, <2>1, <2>2 DEF Types
  <1>7. /\ \A sort : EventsOf(s, sort)' = EventsOf(s, sort)
        /\ Binds(s)' = Binds(s)
        /\ \A t, n : Told(s, t, n)' <=> Told(s, t, n)
    BY <1>1, EventsStay
  <1>8. /\ \A step : Due(s, step)' <=> Has(q, step)
        /\ \A step : ~Due(s, step)
        /\ (Bound(s)' <=> actor_bound[s]) /\ (Bound(s) <=> actor_bound[s])
        /\ Remembered(s)' = served[s] /\ Remembered(s) = served[s]
    BY <1>1, <1>5 DEF Due, Has, Bound, Remembered
  <1>9. CallInv(s)'
    BY <1>1, <1>2, <1>4, <1>5, <1>8 DEF SessionInv, CallInv
  <1>10. BindInv(s)'
    BY <1>1, <1>2, <1>7, <1>8 DEF SessionInv, BindInv
  <1>11. WitnessInv(s)'
    BY <1>1, <1>2, <1>5, <1>7, <1>8 DEF SessionInv, WitnessInv
  <1>12. FrameInv(s)'
    BY <1>1, <1>2, <1>5, <1>8 DEF SessionInv, FrameInv, Pressed
  <1>13. \A t \in Session \ {s} : Stays(t)
    BY <1>1, <1>5 DEF Stays
  <1>14. Claims(s)' => Claims(s)
    BY <1>2, <1>7, <1>8 DEF Claims
  <1>15. SessionInv(s)'
    BY <1>9, <1>10, <1>11, <1>12 DEF SessionInv
  <1>16. actors \subseteq actors' /\ failures <= failures'
    BY <1>1, BoundsAssumption DEF Types
  <1>17. QED
    BY <1>6, <1>13, <1>14, <1>15, <1>16, OwnStep

LEMMA ClientCallsKeep ==
  ASSUME SInv, NEW s \in Session, ClientCalls(s)
  PROVE  SInv'
  <1>1. CASE Initialize(s)
    BY <1>1, BeginKeeps DEF Initialize, Tool
  <1>2. CASE Write(s)
    BY <1>2, BeginKeeps DEF Write, Tool
  <1>3. CASE SecretRead(s)
    BY <1>3, BeginKeeps DEF SecretRead, Tool
  <1>4. ASSUME NEW scope \in Scope, Recall(s, scope) PROVE SInv'
    <2>1. PICK frame \in BOOLEAN : Begin(s, "recall", scope, frame \/ scope \notin served[s], frame)
      BY <1>4 DEF Recall
    <2>2. /\ "recall" \in Tool /\ scope \in Scope \cup {NoScope}
          /\ (frame \/ scope \notin served[s]) \in BOOLEAN
          /\ (frame \/ scope \notin served[s]) /\ ~frame => scope \notin served[s]
      BY DEF Tool
    <2>3. QED
      BY <2>1, <2>2, BeginKeeps
  <1>5. QED
    BY <1>1, <1>2, <1>3, <1>4 DEF ClientCalls

-----------------------------------------------------------------------------
(* Lookup and Mint: how the binding goes on. *)
LEMMA PlanChanges ==
  ASSUME SInv, NEW s \in Session, NEW h, At(s, h), NEW p \in Seq(Step), p # <<>>, Ordered(p),
         todo' = [todo EXCEPT ![s] = p], actors' \subseteq Key,
         actors \subseteq actors', UNCHANGED <<shelf, trail, memory, call, answers, failures>>,
         Has(p, "bind"), Has(p, "lookup") \/ Has(p, "mint") \/ KeyOf[s] \in actors',
         Has(p, "log_mint") => Due(s, "log_mint") \/
           (KeyOf[s] \in actors' /\ p[1] = "bind"
             /\ \A t \in Session : KeyOf[t] = KeyOf[s] => ~Claims(t)),
         Due(s, "bind"), Due(s, "log_mint") => p[1] = "bind",
         Has(p, "witness") <=> Due(s, "witness"),
         Has(p, "serve_frame") <=> Due(s, "serve_frame")
  PROVE  SInv'
  <1>1. /\ Types /\ SessionInv(s) /\ process[s] = "up" /\ todo[s] # <<>>
        /\ UNCHANGED <<trail, process, actor_bound, served, state_file, call, answers, failures>>
    BY DEF SInv, At, memory
  <1>2. todo'[s] = p /\ \A t \in Session \ {s} : todo'[t] = todo[t]
    BY <1>1 DEF Types
  <1>3. todo' \in [Session -> Seq(Step)]
    BY <1>1 DEF Types
  <1>4. Types'
    BY <1>1, <1>3 DEF Types
  <1>5. /\ \A sort : EventsOf(s, sort)' = EventsOf(s, sort)
        /\ Binds(s)' = Binds(s)
        /\ \A t, n : Told(s, t, n)' <=> Told(s, t, n)
    BY <1>1, EventsStay
  <1>6. /\ \A step : Due(s, step)' <=> Has(p, step)
        /\ (Bound(s)' <=> Bound(s)) /\ (Bound(s) <=> actor_bound[s])
        /\ Remembered(s)' = served[s] /\ Remembered(s) = served[s]
    BY <1>1, <1>2 DEF Due, Bound, Remembered
  <1>7. CallInv(s)'
    BY <1>1, <1>2, <1>6 DEF SessionInv, CallInv
  <1>8. BindInv(s)'
    BY <1>1, <1>2, <1>5, <1>6 DEF SessionInv, BindInv
  <1>9. WitnessInv(s)' /\ FrameInv(s)'
    BY <1>1, <1>5, <1>6 DEF SessionInv, WitnessInv, FrameInv, Pressed
  <1>10. \A t \in Session \ {s} : Stays(t)
    BY <1>1, <1>2 DEF Stays
  <1>11. Claims(s)' => Claims(s) \/ \A t \in Session : KeyOf[t] = KeyOf[s] => ~Claims(t)
    BY <1>5, <1>6 DEF Claims
  <1>12. SessionInv(s)' /\ failures <= failures'
    BY <1>1, <1>7, <1>8, <1>9, BoundsAssumption DEF SessionInv, Types
  <1>13. QED
    BY <1>4, <1>10, <1>11, <1>12, OwnStep

LEMMA LookupKeeps ==
  ASSUME SInv, NEW s \in Session, Lookup(s)
  PROVE  SInv'
  <1>1. /\ At(s, "lookup") /\ todo[s] \in Seq(Step) /\ todo[s] # <<>> /\ Ordered(todo[s])
        /\ Head(todo[s]) = "lookup" /\ todo[s][1] = "lookup" /\ BindInv(s)
        /\ actors' = actors /\ actors \subseteq Key
        /\ UNCHANGED <<shelf, trail, memory, call, answers, failures>>
    BY DEF Lookup, SInv, Types, SessionInv, CallInv, At
  <1>2. Due(s, "bind") /\ ~Due(s, "mint") /\ ~Due(s, "log_mint")
    BY <1>1, HeadFacts DEF Due, BindInv
  <1>3. CASE KeyOf[s] \in actors
    <2> DEFINE p == Tail(todo[s])
    <2>1. /\ p \in Seq(Step) /\ Ordered(p) /\ p # <<>>
          /\ \A step : Has(p, step) <=> Due(s, step) /\ step # "lookup"
      BY <1>1, TailOrdered DEF Due
    <2>2. todo' = [todo EXCEPT ![s] = p]
      BY <1>3 DEF Lookup
    <2> HIDE DEF p
    <2>3. QED
      BY <1>1, <1>2, <1>3, <2>1, <2>2, PlanChanges
  <1>4. CASE KeyOf[s] \notin actors
    <2> DEFINE p == <<"mint">> \o Tail(todo[s])
    <2>1. /\ p \in Seq(Step) /\ p # <<>> /\ Ordered(p)
          /\ \A step : Has(p, step) <=> step = "mint" \/ (Due(s, step) /\ step # "lookup")
      BY <1>1, MissOrdered DEF Due
    <2>2. todo' = [todo EXCEPT ![s] = p]
      BY <1>4 DEF Lookup
    <2> HIDE DEF p
    <2>3. QED
      BY <1>1, <1>2, <2>1, <2>2, PlanChanges
  <1>5. QED
    BY <1>3, <1>4

(* The UNIQUE key: whoever finds no row is the first to claim it. *)
LEMMA MintKeeps ==
  ASSUME SInv, NEW s \in Session, Mint(s)
  PROVE  SInv'
  <1>1. /\ At(s, "mint") /\ todo[s] \in Seq(Step) /\ todo[s] # <<>> /\ Ordered(todo[s])
        /\ Head(todo[s]) = "mint" /\ todo[s][1] = "mint" /\ BindInv(s)
        /\ actors' = actors \cup {KeyOf[s]} /\ actors' \subseteq Key
        /\ UNCHANGED <<shelf, trail, memory, call, answers, failures>>
    <2>1. /\ At(s, "mint") /\ todo[s] \in Seq(Step) /\ todo[s] # <<>> /\ Ordered(todo[s])
          /\ Head(todo[s]) = "mint" /\ todo[s][1] = "mint" /\ BindInv(s)
      BY DEF Mint, SInv, Types, SessionInv, CallInv, At
    <2>2. actors' = actors \cup {KeyOf[s]} /\ actors' \subseteq Key
      BY KeyAssumption DEF Mint, SInv, Types
    <2>3. QED
      BY <2>1, <2>2 DEF Mint
  <1>2. Due(s, "bind") /\ ~Due(s, "log_mint")
    BY <1>1, HeadFacts DEF Due, BindInv
  <1>3. CASE KeyOf[s] \in actors
    <2> DEFINE p == Tail(todo[s])
    <2>1. /\ p \in Seq(Step) /\ Ordered(p) /\ p # <<>>
          /\ \A step : Has(p, step) <=> Due(s, step) /\ step # "mint"
      BY <1>1, TailOrdered DEF Due
    <2>2. todo' = [todo EXCEPT ![s] = p]
      BY <1>3 DEF Mint
    <2> HIDE DEF p
    <2>3. QED
      BY <1>1, <1>2, <1>3, <2>1, <2>2, PlanChanges
  <1>4. CASE KeyOf[s] \notin actors
    <2> DEFINE p == <<"bind", "log_mint">> \o Tail(Tail(todo[s]))
    <2>1. /\ p \in Seq(Step) /\ p # <<>> /\ Ordered(p)
          /\ \A step : Has(p, step) <=> step = "log_mint" \/ (Due(s, step) /\ step # "mint")
      BY <1>1, MintedOrdered DEF Due
    <2>2. todo' = [todo EXCEPT ![s] = p]
      BY <1>4 DEF Mint
    <2>3. p[1] = "bind"
      BY <1>1
    <2>4. \A t \in Session : KeyOf[t] = KeyOf[s] => ~Claims(t)
      BY <1>4 DEF SInv, SessionInv, BindInv, Claims
    <2> HIDE DEF p
    <2>5. QED
      BY <1>1, <1>2, <2>1, <2>2, <2>3, <2>4, PlanChanges
  <1>5. QED
    BY <1>3, <1>4

-----------------------------------------------------------------------------
(* An event is written: what the ledger then says of the session. *)
LEMMA Witnessed ==
  ASSUME SInv, NEW s \in Session, NEW h, NEW sort \in Tool \cup {"actor_bind", "actor_mint"},
         At(s, h), Done(s), Appended(s, sort)
  PROVE  /\ trail' \in [Session -> Seq(EventType)]
         /\ \A t \in Session \ {s} : trail'[t] = trail[t]
         /\ trail'[s] # <<>>
         /\ \A other : other # sort => EventsOf(s, other)' = EventsOf(s, other)
         /\ Binds(s)' = IF sort = "actor_bind" THEN Binds(s) + 1 ELSE Binds(s)
         /\ Binds(s) \in Nat
         /\ \E k \in EventsOf(s, sort)' : trail'[s][k].n = call[s].n
         /\ \A tool, n : Told(s, tool, n) => Told(s, tool, n)'
         /\ BindInv(s) /\ (trail[s] # <<>> \/ sort = "actor_bind")
              => trail'[s][1].kind = "actor_bind"
  <1>1. Types /\ call[s].n \in 1..MaxCalls
    BY Taken DEF SInv
  <1>2. /\ trail' \in [Session -> Seq(EventType)]
        /\ \A t \in Session \ {s} : trail'[t] = trail[t]
        /\ trail'[s] # <<>>
    BY <1>1, AppendedFacts
  <1>3. /\ \A other : other # sort => EventsOf(s, other)' = EventsOf(s, other)
        /\ Cardinality(EventsOf(s, sort))' = Cardinality(EventsOf(s, sort)) + 1
        /\ \E k \in EventsOf(s, sort)' : trail'[s][k].n = call[s].n
        /\ \A tool, n : Told(s, tool, n) => Told(s, tool, n)'
        /\ trail[s] # <<>> => trail'[s][1] = trail[s][1]
        /\ trail[s] = <<>> => trail'[s][1].kind = sort
    BY <1>1, AppendedEvents
  <1>4. Binds(s)' = IF sort = "actor_bind" THEN Binds(s) + 1 ELSE Binds(s)
    <2>1. CASE sort = "actor_bind"
      BY <1>3, <2>1 DEF Binds
    <2>2. CASE sort # "actor_bind"
      BY <1>3, <2>2 DEF Binds
    <2>3. QED
      BY <2>1, <2>2
  <1>5. Binds(s) \in Nat
    BY <1>1, BindsIsNat
  <1>6. BindInv(s) /\ (trail[s] # <<>> \/ sort = "actor_bind")
          => trail'[s][1].kind = "actor_bind"
    BY <1>3 DEF BindInv
  <1>7. QED
    BY <1>2, <1>3, <1>4, <1>5, <1>6

LEMMA LogBindKeeps ==
  ASSUME SInv, NEW s \in Session, LogBind(s)
  PROVE  SInv'
  <1>1. /\ At(s, "bind") /\ Done(s) /\ Appended(s, "actor_bind") /\ Types /\ SessionInv(s)
        /\ UNCHANGED <<actors, shelf, process, served, call, state_file, answers, failures>>
        /\ actor_bound' = [actor_bound EXCEPT ![s] = (Head(Tail(todo[s])) # "log_mint")]
    BY DEF LogBind, SInv
  <1>2. /\ todo' \in [Session -> Seq(Step)]
        /\ \A t \in Session \ {s} : todo'[t] = todo[t]
        /\ todo[s] # <<>> /\ todo[s][1] = "bind" /\ Ordered(todo[s]) /\ Due(s, "bind")
        /\ todo'[s] # <<>> => Ordered(todo'[s])
        /\ \A step : Due(s, step)' <=> Due(s, step) /\ step # "bind"
        /\ process[s] = "up" /\ call[s].n \in 1..MaxCalls /\ call[s].tool \in Tool
        /\ ~Bound(s) <=> ~actor_bound[s]
    BY <1>1, Taken
  <1>3. /\ trail' \in [Session -> Seq(EventType)]
        /\ \A t \in Session \ {s} : trail'[t] = trail[t]
        /\ trail'[s] # <<>>
        /\ \A other : other # "actor_bind" => EventsOf(s, other)' = EventsOf(s, other)
        /\ Binds(s)' = Binds(s) + 1 /\ Binds(s) \in Nat
        /\ \A tool, n : Told(s, tool, n) => Told(s, tool, n)'
        /\ trail'[s][1].kind = "actor_bind"
    <2>1. BindInv(s)
      BY <1>1 DEF SessionInv
    <2>2. QED
      BY <1>1, <2>1, Witnessed
  <1>4. /\ ~Due(s, "lookup") /\ ~Due(s, "mint")
        /\ actor_bound'[s] = ~Due(s, "log_mint")
        /\ \A t \in Session \ {s} : actor_bound'[t] = actor_bound[t]
    BY <1>1, <1>2, HeadFacts DEF Due, Types
  <1>5. Types'
    <2>1. actor_bound' \in [Session -> BOOLEAN]
      BY <1>1 DEF Types
    <2>2. QED
      BY <1>1, <1>2, <1>3, <2>1 DEF Types
  <1>6. /\ Bound(s)' <=> ~Due(s, "log_mint")
        /\ Remembered(s)' = Remembered(s)
        /\ ~actor_bound[s]
    BY <1>1, <1>2, <1>4 DEF Bound, Remembered, SessionInv, BindInv
  <1>7. CallInv(s)'
    BY <1>1, <1>2 DEF SessionInv, CallInv
  <1>8. BindInv(s)'
    <2>1. BindInv(s) /\ failures \in Nat
      BY <1>1, BoundsAssumption DEF SessionInv, Types
    <2>2. KeyOf[s] \in actors
      BY <1>2, <1>4, <2>1 DEF BindInv
    <2>3. Binds(s) <= failures
      BY <1>2, <1>6, <2>1 DEF BindInv
    <2>4. /\ ~Due(s, "bind")' /\ (Due(s, "log_mint")' <=> Due(s, "log_mint"))
          /\ EventsOf(s, "actor_mint")' = EventsOf(s, "actor_mint")
      BY <1>2, <1>3
    <2>5. Binds(s)' <= 1 + failures'
      BY <1>1, <1>3, <2>1, <2>3
    <2>6. actor_bound[s]' => process[s]' = "up" /\ ~Due(s, "bind")' /\ ~Due(s, "log_mint")'
      BY <1>1, <1>2, <1>4, <2>4
    <2>7. (KeyOf[s] \in actors)'
      BY <1>1, <2>2
    <2>8. QED
      BY <1>3, <1>6, <2>4, <2>5, <2>6, <2>7 DEF BindInv
  <1>9. WitnessInv(s)'
    BY <1>1, <1>2, <1>3 DEF SessionInv, WitnessInv
  <1>10. FrameInv(s)'
    BY <1>1, <1>2, <1>6 DEF SessionInv, FrameInv, Pressed
  <1>11. \A t \in Session \ {s} : Stays(t)
    BY <1>1, <1>2, <1>3, <1>4 DEF Stays
  <1>12. Claims(s)' => Claims(s)
    BY <1>2, <1>3 DEF Claims
  <1>13. SessionInv(s)' /\ failures <= failures' /\ actors \subseteq actors'
    BY <1>1, <1>7, <1>8, <1>9, <1>10, BoundsAssumption DEF SessionInv, Types
  <1>14. QED
    BY <1>5, <1>11, <1>12, <1>13, OwnStep

LEMMA LogMintKeeps ==
  ASSUME SInv, NEW s \in Session, LogMint(s)
  PROVE  SInv'
  <1>1. /\ At(s, "log_mint") /\ Done(s) /\ Appended(s, "actor_mint") /\ Types /\ SessionInv(s)
        /\ UNCHANGED <<actors, shelf, process, served, call, state_file, answers, failures>>
        /\ actor_bound' = [actor_bound EXCEPT ![s] = TRUE]
    BY DEF LogMint, SInv
  <1>2. /\ todo' \in [Session -> Seq(Step)]
        /\ \A t \in Session \ {s} : todo'[t] = todo[t]
        /\ todo[s] # <<>> /\ todo[s][1] = "log_mint" /\ Ordered(todo[s]) /\ Due(s, "log_mint")
        /\ todo'[s] # <<>> => Ordered(todo'[s])
        /\ \A step : Due(s, step)' <=> Due(s, step) /\ step # "log_mint"
        /\ process[s] = "up" /\ call[s].n \in 1..MaxCalls /\ call[s].tool \in Tool
    BY <1>1, Taken
  <1>3. ~Due(s, "bind") /\ trail[s] # <<>> /\ KeyOf[s] \in actors
    BY <1>1, <1>2 DEF SessionInv, BindInv
  <1>4. /\ trail' \in [Session -> Seq(EventType)]
        /\ \A t \in Session \ {s} : trail'[t] = trail[t]
        /\ trail'[s] # <<>>
        /\ \A other : other # "actor_mint" => EventsOf(s, other)' = EventsOf(s, other)
        /\ Binds(s)' = Binds(s) /\ Binds(s) \in Nat
        /\ \A tool, n : Told(s, tool, n) => Told(s, tool, n)'
        /\ trail'[s][1].kind = "actor_bind"
    <2>1. BindInv(s)
      BY <1>1 DEF SessionInv
    <2>2. QED
      BY <1>1, <1>3, <2>1, Witnessed
  <1>5. actor_bound'[s] /\ \A t \in Session \ {s} : actor_bound'[t] = actor_bound[t]
    BY <1>1 DEF Types
  <1>6. Types'
    <2>1. actor_bound' \in [Session -> BOOLEAN]
      BY <1>1 DEF Types
    <2>2. QED
      BY <1>1, <1>2, <1>4, <2>1 DEF Types
  <1>7. Bound(s)' /\ Remembered(s)' = Remembered(s)
    BY <1>1, <1>2, <1>5 DEF Bound, Remembered
  <1>8. CallInv(s)'
    BY <1>1, <1>2 DEF SessionInv, CallInv
  <1>9. BindInv(s)'
    BY <1>1, <1>2, <1>3, <1>4, <1>7, BoundsAssumption DEF SessionInv, BindInv, Types
  <1>10. WitnessInv(s)'
    BY <1>1, <1>2, <1>4 DEF SessionInv, WitnessInv
  <1>11. FrameInv(s)'
    BY <1>1, <1>2, <1>7 DEF SessionInv, FrameInv, Pressed
  <1>12. \A t \in Session \ {s} : Stays(t)
    BY <1>1, <1>2, <1>4, <1>5 DEF Stays
  <1>13. Claims(s)
    BY <1>2 DEF Claims
  <1>14. SessionInv(s)' /\ failures <= failures' /\ actors \subseteq actors'
    BY <1>1, <1>8, <1>9, <1>10, <1>11, BoundsAssumption DEF SessionInv, Types
  <1>15. QED
    BY <1>6, <1>12, <1>13, <1>14, OwnStep

LEMMA WitnessCallKeeps ==
  ASSUME SInv, NEW s \in Session, WitnessCall(s)
  PROVE  SInv'
  <1>1. /\ At(s, "witness") /\ Done(s) /\ Appended(s, call[s].tool) /\ Types /\ SessionInv(s)
        /\ UNCHANGED <<actors, shelf, process, actor_bound, served, call, state_file,
                       answers, failures>>
    BY DEF WitnessCall, SInv, memory
  <1>2. /\ todo' \in [Session -> Seq(Step)]
        /\ \A t \in Session \ {s} : todo'[t] = todo[t]
        /\ todo[s] \in Seq(Step)
        /\ todo[s] # <<>> /\ todo[s][1] = "witness" /\ Ordered(todo[s]) /\ Due(s, "witness")
        /\ todo'[s] # <<>> => Ordered(todo'[s])
        /\ \A step : Due(s, step)' <=> Due(s, step) /\ step # "witness"
        /\ process[s] = "up" /\ call[s].n \in 1..MaxCalls /\ call[s].tool \in Tool
    BY <1>1, Taken DEF Types
  <1>3. ~Due(s, "bind") /\ ~Due(s, "log_mint") /\ trail[s] # <<>>
    BY <1>1, <1>2, HeadFacts DEF SessionInv, BindInv, Due
  <1>4. /\ trail' \in [Session -> Seq(EventType)]
        /\ \A t \in Session \ {s} : trail'[t] = trail[t]
        /\ trail'[s] # <<>>
        /\ EventsOf(s, "actor_mint")' = EventsOf(s, "actor_mint")
        /\ Binds(s)' = Binds(s) /\ Binds(s) \in Nat
        /\ \E k \in EventsOf(s, call[s].tool)' : trail'[s][k].n = call[s].n
        /\ \A tool, n : Told(s, tool, n) => Told(s, tool, n)'
        /\ trail'[s][1].kind = "actor_bind"
    <2>1. BindInv(s)
      BY <1>1 DEF SessionInv
    <2>2. call[s].tool # "actor_bind" /\ call[s].tool # "actor_mint"
      BY <1>2 DEF Tool
    <2>3. QED
      BY <1>1, <1>2, <1>3, <2>1, <2>2, Witnessed
  <1>5. Types'
    BY <1>1, <1>2, <1>4 DEF Types
  <1>6. (Bound(s)' <=> Bound(s)) /\ Remembered(s)' = Remembered(s)
    BY <1>1 DEF Bound, Remembered
  <1>7. CallInv(s)'
    BY <1>1, <1>2 DEF SessionInv, CallInv
  <1>8. BindInv(s)'
    BY <1>1, <1>2, <1>3, <1>4, <1>6 DEF SessionInv, BindInv
  <1>9. WitnessInv(s)'
    <2>1. Told(s, call[s].tool, call[s].n)'
      BY <1>1, <1>4 DEF Told
    <2>2. QED
      BY <1>1, <1>4, <2>1 DEF SessionInv, WitnessInv
  <1>10. FrameInv(s)'
    BY <1>1, <1>2, <1>6 DEF SessionInv, FrameInv, Pressed
  <1>11. \A t \in Session \ {s} : Stays(t)
    BY <1>1, <1>2, <1>4 DEF Stays
  <1>12. Claims(s)' => Claims(s)
    BY <1>2, <1>4 DEF Claims
  <1>13. SessionInv(s)' /\ failures <= failures' /\ actors \subseteq actors'
    BY <1>1, <1>7, <1>8, <1>9, <1>10, BoundsAssumption DEF SessionInv, Types
  <1>14. QED
    BY <1>5, <1>11, <1>12, <1>13, OwnStep

-----------------------------------------------------------------------------
(* Steps that write no event: a shelf's, a frame noted, work on the side. *)
LEMMA QuietStep ==
  ASSUME SInv, NEW s \in Session, NEW h, At(s, h), Done(s),
         h \notin {"reply", "lookup", "mint", "bind", "log_mint", "witness"},
         shelf' \subseteq Session \X (1..MaxCalls),
         \/ served' = served /\ h # "serve_frame"
         \/ served' = [served EXCEPT ![s] = @ \cup {call[s].scope}] /\ call[s].scope \in Scope,
         UNCHANGED <<actors, trail, process, actor_bound, call, state_file, answers, failures>>
  PROVE  SInv'
  <1>1. /\ todo' \in [Session -> Seq(Step)]
        /\ \A t \in Session \ {s} : todo'[t] = todo[t]
        /\ todo[s] \in Seq(Step) /\ todo[s] # <<>> /\ todo[s][1] = h /\ Ordered(todo[s])
        /\ todo'[s] # <<>> => Ordered(todo'[s])
        /\ \A step : Due(s, step)' <=> Due(s, step) /\ step # h
        /\ process[s] = "up" /\ call[s].n \in 1..MaxCalls /\ call[s].tool \in Tool
        /\ Types /\ SessionInv(s)
    BY Taken DEF SInv, Types
  <1>2. /\ served' \in [Session -> SUBSET Scope] /\ served[s] \subseteq served'[s]
        /\ h = "serve_frame" => call[s].scope \in served'[s]
        /\ \A t \in Session \ {s} : served'[t] = served[t]
    <2>1. CASE served' = served /\ h # "serve_frame"
      BY <1>1, <2>1 DEF Types
    <2>2. CASE served' = [served EXCEPT ![s] = @ \cup {call[s].scope}] /\ call[s].scope \in Scope
      BY <1>1, <2>2 DEF Types
    <2>3. QED
      BY <2>1, <2>2
  <1>3. Types'
    BY <1>1, <1>2 DEF Types
  <1>4. /\ \A sort : EventsOf(s, sort)' = EventsOf(s, sort)
        /\ Binds(s)' = Binds(s)
        /\ \A t, n : Told(s, t, n)' <=> Told(s, t, n)
    BY EventsStay
  <1>5. /\ Bound(s)' <=> Bound(s)
        /\ Remembered(s)' = served'[s] /\ Remembered(s) = served[s]
    BY <1>1 DEF Bound, Remembered
  <1>6. ~Due(s, "log_mint") \/ ~Due(s, "bind")
    BY <1>1 DEF SessionInv, BindInv
  <1>7. CallInv(s)'
    BY <1>1 DEF SessionInv, CallInv
  <1>8. BindInv(s)'
    BY <1>1, <1>4, <1>5, <1>6 DEF SessionInv, BindInv
  <1>9. WitnessInv(s)'
    BY <1>1, <1>4 DEF SessionInv, WitnessInv
  <1>10. FrameInv(s)'
    <2>1. FrameInv(s) /\ todo[s] # <<>> /\ process[s] # "gone"
      BY <1>1 DEF SessionInv
    <2>2. call[s].framed => Due(s, "serve_frame")' \/ call[s].scope \in served'[s]
      BY <1>1, <1>2, <2>1 DEF FrameInv
    <2>3. \A k \in 1..Len(answers[s]) : Pressed(s, k) => answers[s][k].scope \in served'[s]
      BY <1>2, <1>5, <2>1 DEF FrameInv
    <2>4. QED
      BY <1>5, <2>1, <2>2, <2>3 DEF FrameInv, Pressed
  <1>11. \A t \in Session \ {s} : Stays(t)
    BY <1>1, <1>2 DEF Stays
  <1>12. Claims(s)' => Claims(s)
    BY <1>1, <1>4 DEF Claims
  <1>13. SessionInv(s)' /\ failures <= failures' /\ actors \subseteq actors'
    BY <1>1, <1>7, <1>8, <1>9, <1>10, BoundsAssumption DEF SessionInv, Types
  <1>14. QED
    BY <1>3, <1>11, <1>12, <1>13, OwnStep

(* An answer ends its call; a good one was witnessed, and pressed no frame
   that the session did not note. *)
LEMMA AnswerKeeps ==
  ASSUME SInv, NEW s \in Session, NEW h, At(s, h), NEW ok \in BOOLEAN, Answer(s, ok),
         UNCHANGED <<actors, shelf, trail, memory, call>>,
         failures' \in 0..MaxFailures,
         \/ h = "reply" /\ failures' = failures
         \/ (ok => call[s].tool = "initialize") /\ failures' = failures + 1
  PROVE  SInv'
  <1> DEFINE a == [n |-> call[s].n, tool |-> call[s].tool, scope |-> call[s].scope,
                   framed |-> call[s].framed, asked |-> call[s].asked, ok |-> ok]
  <1>0. PICK m : m = Len(answers[s])
    OBVIOUS
  <1>1. /\ Types /\ SessionInv(s) /\ process[s] = "up" /\ todo[s] # <<>> /\ Head(todo[s]) = h
        /\ todo[s] \in Seq(Step) /\ Ordered(todo[s]) /\ todo[s][1] = h
        /\ UNCHANGED <<actors, shelf, trail, process, actor_bound, served, state_file, call>>
        /\ call[s].tool = "initialize" => ~call[s].framed
        /\ failures \in Nat /\ failures' \in Nat /\ failures <= failures'
    BY BoundsAssumption DEF SInv, At, memory, Types, SessionInv, CallInv
  <1>2. /\ a \in AnswerType /\ a.n = call[s].n /\ a.tool = call[s].tool /\ a.scope = call[s].scope
        /\ a.framed = call[s].framed /\ a.asked = call[s].asked /\ a.ok = ok
    BY <1>1 DEF Types, CallType, AnswerType
  <1>3. /\ answers' = [answers EXCEPT ![s] = Append(answers[s], a)]
        /\ todo' = [todo EXCEPT ![s] = <<>>]
    BY DEF Answer
  <1> HIDE DEF a
  <1>4. /\ answers' \in [Session -> Seq(AnswerType)]
        /\ m \in Nat /\ Len(answers'[s]) = m + 1
        /\ \A k \in 1..m : answers'[s][k] = answers[s][k]
        /\ answers'[s][m + 1] = a
        /\ \A t \in Session \ {s} : answers'[t] = answers[t]
    <2>1. answers[s] \in Seq(AnswerType)
      BY <1>1 DEF Types
    <2>2. /\ Append(answers[s], a) \in Seq(AnswerType)
          /\ m \in Nat /\ Len(Append(answers[s], a)) = m + 1
          /\ \A k \in 1..m : Append(answers[s], a)[k] = answers[s][k]
          /\ Append(answers[s], a)[m + 1] = a
      BY <1>0, <1>2, <2>1
    <2>3. /\ answers'[s] = Append(answers[s], a)
          /\ \A t \in Session \ {s} : answers'[t] = answers[t]
      BY <1>1, <1>3 DEF Types
    <2>4. QED
      BY <1>0, <1>1, <1>3, <2>2, <2>3 DEF Types
  <1>5. todo'[s] = <<>> /\ \A t \in Session \ {s} : todo'[t] = todo[t]
    BY <1>1, <1>3 DEF Types
  <1>6. Types'
    <2>1. todo' \in [Session -> Seq(Step)]
      BY <1>1, <1>3 DEF Types
    <2>2. QED
      BY <1>1, <1>4, <2>1 DEF Types
  <1>7. /\ \A sort : EventsOf(s, sort)' = EventsOf(s, sort)
        /\ Binds(s)' = Binds(s) /\ Binds(s) \in Nat
        /\ \A t, n : Told(s, t, n)' <=> Told(s, t, n)
    BY <1>1, EventsStay, BindsIsNat
  <1>8. /\ \A step : ~Due(s, step)'
        /\ (Bound(s)' <=> Bound(s)) /\ Remembered(s)' = served[s] /\ Remembered(s) = served[s]
    BY <1>1, <1>5 DEF Due, Has, Bound, Remembered
  <1>9. h = "reply" => \A step : step # "reply" => ~Due(s, step)
    BY <1>1, HeadFacts DEF Due
  <1>10. CallInv(s)'
    BY <1>1, <1>5 DEF SessionInv, CallInv
  <1>11. BindInv(s)'
    <2>1. BindInv(s)
      BY <1>1 DEF SessionInv
    <2>2. Binds(s) <= 1 + failures'
      BY <1>1, <1>7, <2>1 DEF BindInv
    <2>3. ~Bound(s) => Binds(s) <= failures'
      BY <1>1, <1>7, <1>9, <2>1 DEF BindInv
    <2>4. QED
      BY <1>1, <1>7, <1>8, <2>1, <2>2, <2>3 DEF BindInv
  <1>12. WitnessInv(s)'
    <2>1. a.ok /\ a.tool # "initialize" => Told(s, a.tool, a.n)
      BY <1>1, <1>2, <1>9 DEF SessionInv, WitnessInv
    <2>2. ASSUME NEW k \in 1..(m + 1)
          PROVE  answers'[s][k].ok /\ answers'[s][k].tool # "initialize"
                   => Told(s, answers'[s][k].tool, answers'[s][k].n)
      <3>1. CASE k = m + 1
        BY <1>4, <2>1, <3>1
      <3>2. CASE k # m + 1
        BY <1>0, <1>1, <1>4, <3>2 DEF SessionInv, WitnessInv
      <3>3. QED
        BY <3>1, <3>2
    <2>3. QED
      BY <1>4, <1>5, <1>7, <2>2 DEF WitnessInv
  <1>13. FrameInv(s)'
    <2>1. /\ \A k \in 1..m : Pressed(s, k) => answers[s][k].scope \in served[s]
          /\ \A k, l \in 1..m : Pressed(s, k) /\ Pressed(s, l)
                 /\ answers[s][k].scope = answers[s][l].scope => k = l
      BY <1>0, <1>1, <1>8 DEF SessionInv, FrameInv
    <2>2. a.framed /\ a.ok /\ ~a.asked
            => /\ a.scope \in served[s]
               /\ \A k \in 1..m : Pressed(s, k) => answers[s][k].scope # a.scope
      BY <1>0, <1>1, <1>2, <1>9 DEF SessionInv, FrameInv
    <2>3. /\ \A k \in 1..m : Pressed(s, k)' <=> Pressed(s, k)
          /\ Pressed(s, m + 1)' <=> a.framed /\ a.ok /\ ~a.asked
      BY <1>4 DEF Pressed
    <2>4. \A k \in 1..(m + 1) : k = m + 1 \/ k \in 1..m
      BY <1>4
    <2>5. \A k \in 1..(m + 1) : Pressed(s, k)' => answers'[s][k].scope \in served[s]
      BY <1>4, <2>1, <2>2, <2>3, <2>4
    <2>6. ASSUME NEW k \in 1..(m + 1), NEW l \in 1..(m + 1), Pressed(s, k)', Pressed(s, l)',
                 answers'[s][k].scope = answers'[s][l].scope
          PROVE  k = l
      BY <1>4, <2>1, <2>2, <2>3, <2>4, <2>6
    <2>7. \A k, l \in 1..(m + 1) : Pressed(s, k)' /\ Pressed(s, l)'
             /\ answers'[s][k].scope = answers'[s][l].scope => k = l
      BY <2>6
    <2>8. QED
      BY <1>4, <1>5, <1>8, <2>5, <2>7 DEF FrameInv
  <1>14. \A t \in Session \ {s} : Stays(t)
    BY <1>1, <1>4, <1>5 DEF Stays
  <1>15. Claims(s)' => Claims(s)
    BY <1>7, <1>8 DEF Claims
  <1>16. SessionInv(s)' /\ actors \subseteq actors'
    BY <1>1, <1>10, <1>11, <1>12, <1>13 DEF SessionInv
  <1>17. QED
    BY <1>1, <1>6, <1>14, <1>15, <1>16, OwnStep

LEMMA HandlerRunsKeep ==
  ASSUME SInv, NEW s \in Session, HandlerRuns(s)
  PROVE  SInv'
  <1>1. CASE BindActor(s)
    BY <1>1, LookupKeeps, MintKeeps, LogBindKeeps, LogMintKeeps DEF BindActor
  <1>2. CASE WriteShelf(s)
    <2>1. call[s].n \in 1..MaxCalls /\ shelf \subseteq Session \X (1..MaxCalls)
      BY <1>2, Taken DEF WriteShelf, SInv, Types
    <2>2. shelf' \subseteq Session \X (1..MaxCalls)
      BY <1>2, <2>1 DEF WriteShelf
    <2>3. QED
      BY <1>2, <2>2, QuietStep DEF WriteShelf, memory
  <1>3. CASE ServeFrame(s)
    <2>1. /\ At(s, "serve_frame") /\ Done(s)
          /\ served' = [served EXCEPT ![s] = @ \cup {call[s].scope}]
          /\ shelf' \subseteq Session \X (1..MaxCalls)
          /\ UNCHANGED <<actors, trail, process, actor_bound, call, state_file, answers, failures>>
      BY <1>3 DEF ServeFrame, SInv, Types
    <2>2. call[s].scope \in Scope
      <3>1. Due(s, "serve_frame") /\ todo[s] # <<>>
        BY <2>1, Taken
      <3>2. QED
        BY <3>1 DEF SInv, SessionInv, CallInv
    <2>3. QED
      BY <2>1, <2>2, QuietStep
  <1>4. CASE WitnessCall(s)
    BY <1>4, WitnessCallKeeps
  <1>5. CASE WorkAlong(s)
    BY <1>5, QuietStep DEF WorkAlong, memory, SInv, Types
  <1>6. CASE Reply(s)
    BY <1>6, AnswerKeeps DEF Reply, SInv, Types
  <1>7. CASE StepFails(s)
    <2>1. PICK step \in Fallible : At(s, step)
      BY <1>7 DEF StepFails
    <2>2. failures' \in 0..MaxFailures
      BY <1>7, BoundsAssumption DEF StepFails, SInv, Types
    <2>3. QED
      BY <1>7, <2>1, <2>2, AnswerKeeps DEF StepFails
  <1>8. QED
    BY <1>1, <1>2, <1>3, <1>4, <1>5, <1>6, <1>7 DEF HandlerRuns

-----------------------------------------------------------------------------
(* The process changes: a session that is gone remembers nothing, and one
   that re-executes carries its memory over in the state file. *)
LEMMA ProcessChanges ==
  ASSUME SInv, NEW s \in Session, Types', \A t \in Session \ {s} : Stays(t),
         todo'[s] = <<>>, UNCHANGED <<actors, shelf, trail, answers, failures>>,
         process'[s] = "reborn" => state_file'[s].there,
         process'[s] = "up" => ~state_file'[s].there,
         actor_bound'[s] => process'[s] = "up",
         Bound(s)' => Bound(s),
         process'[s] # "gone" =>
           process[s] # "gone" /\ todo[s] = <<>>
             /\ (Bound(s)' <=> Bound(s)) /\ Remembered(s)' = Remembered(s)
  PROVE  SInv'
  <1>1. SessionInv(s) /\ Types
    BY DEF SInv
  <1>2. /\ \A sort : EventsOf(s, sort)' = EventsOf(s, sort)
        /\ Binds(s)' = Binds(s)
        /\ \A t, n : Told(s, t, n)' <=> Told(s, t, n)
    BY EventsStay
  <1>3. \A step : ~Due(s, step)'
    BY DEF Due, Has
  <1>4. todo[s] = <<>> => \A step : ~Due(s, step)
    BY DEF Due, Has
  <1>5. CallInv(s)'
    BY DEF CallInv
  <1>6. BindInv(s)'
    BY <1>1, <1>2, <1>3, <1>4 DEF SessionInv, BindInv
  <1>7. WitnessInv(s)'
    BY <1>1, <1>2 DEF SessionInv, WitnessInv
  <1>8. FrameInv(s)'
    BY <1>1 DEF SessionInv, FrameInv, Pressed
  <1>9. Claims(s)' => Claims(s)
    BY <1>2, <1>3 DEF Claims
  <1>10. SessionInv(s)' /\ failures <= failures' /\ actors \subseteq actors'
    BY <1>1, <1>5, <1>6, <1>7, <1>8, BoundsAssumption DEF SessionInv, Types
  <1>11. QED
    BY <1>9, <1>10, OwnStep

LEMMA DiesKeeps ==
  ASSUME SInv, NEW s \in Session, Dies(s)
  PROVE  SInv'
  <1>1. /\ UNCHANGED <<actors, shelf, trail, state_file, answers, failures>>
        /\ process' = [process EXCEPT ![s] = "gone"]
        /\ actor_bound' = [actor_bound EXCEPT ![s] = FALSE]
        /\ served' = [served EXCEPT ![s] = {}]
        /\ todo' = [todo EXCEPT ![s] = <<>>]
        /\ call' = [call EXCEPT ![s] = NoCall]
        /\ Types
    BY DEF Dies, SInv
  <1>2. NoCall \in CallType
    BY BoundsAssumption DEF NoCall, CallType
  <1>3. Types'
    BY <1>1, <1>2 DEF Types
  <1>4. /\ process'[s] = "gone" /\ ~actor_bound'[s] /\ todo'[s] = <<>>
        /\ \A t \in Session \ {s} : Stays(t)
    BY <1>1 DEF Types, Stays
  <1>5. ~Bound(s)'
    BY <1>4 DEF Bound
  <1>6. QED
    BY <1>1, <1>3, <1>4, <1>5, ProcessChanges

LEMMA ReloadKeeps ==
  ASSUME SInv, NEW s \in Session, Reload(s)
  PROVE  SInv'
  <1> DEFINE file == [there |-> TRUE, actor_bound |-> actor_bound[s], served |-> served[s]]
  <1>1. /\ UNCHANGED <<actors, shelf, trail, todo, call, answers, failures>>
        /\ process' = [process EXCEPT ![s] = "reborn"]
        /\ actor_bound' = [actor_bound EXCEPT ![s] = FALSE]
        /\ served' = [served EXCEPT ![s] = {}]
        /\ state_file' = [state_file EXCEPT ![s] = file]
        /\ process[s] = "up" /\ todo[s] = <<>> /\ Types
    BY DEF Reload, Idle, SInv
  <1>2. /\ file \in FileType /\ file.there /\ file.actor_bound = actor_bound[s]
        /\ file.served = served[s]
    BY <1>1 DEF FileType, Types
  <1> HIDE DEF file
  <1>3. Types'
    BY <1>1, <1>2 DEF Types
  <1>4. /\ process'[s] = "reborn" /\ ~actor_bound'[s] /\ state_file'[s] = file
        /\ \A t \in Session \ {s} : Stays(t)
    BY <1>1 DEF Types, Stays
  <1>5. /\ Bound(s)' <=> actor_bound[s]
        /\ Bound(s) <=> actor_bound[s]
        /\ Remembered(s)' = served[s] /\ Remembered(s) = served[s]
    BY <1>1, <1>2, <1>4 DEF Bound, Remembered
  <1>6. QED
    BY <1>1, <1>2, <1>3, <1>4, <1>5, ProcessChanges

LEMMA RebornKeeps ==
  ASSUME SInv, NEW s \in Session, Reborn(s)
  PROVE  SInv'
  <1>1. /\ UNCHANGED <<actors, shelf, trail, todo, call, answers, failures>>
        /\ process' = [process EXCEPT ![s] = "up"]
        /\ actor_bound' = [actor_bound EXCEPT ![s] = state_file[s].actor_bound]
        /\ served' = [served EXCEPT ![s] = state_file[s].served]
        /\ state_file' = [state_file EXCEPT ![s] = NoFile]
        /\ process[s] = "reborn" /\ Types /\ SessionInv(s)
    BY DEF Reborn, SInv
  <1>2. todo[s] = <<>> /\ ~actor_bound[s]
    BY <1>1 DEF SessionInv, CallInv, BindInv
  <1>3. /\ NoFile \in FileType /\ ~NoFile.there /\ state_file[s] \in FileType
        /\ state_file[s].actor_bound \in BOOLEAN /\ state_file[s].served \in SUBSET Scope
    BY <1>1 DEF NoFile, FileType, Types
  <1>4. Types'
    BY <1>1, <1>3 DEF Types
  <1>5. /\ process'[s] = "up" /\ actor_bound'[s] = state_file[s].actor_bound
        /\ served'[s] = state_file[s].served /\ ~state_file'[s].there
        /\ \A t \in Session \ {s} : Stays(t)
    BY <1>1, <1>3 DEF Types, Stays
  <1>6. /\ Bound(s)' <=> Bound(s)
        /\ Remembered(s)' = Remembered(s)
    BY <1>1, <1>2, <1>5 DEF Bound, Remembered
  <1>7. QED
    BY <1>1, <1>2, <1>4, <1>5, <1>6, ProcessChanges

LEMMA StepKeepsSInv ==
  ASSUME SInv, [Next]_vars
  PROVE  SInv'
  <1>1. ASSUME NEW s \in Session,
               ClientCalls(s) \/ HandlerRuns(s) \/ Dies(s) \/ Reload(s) \/ Reborn(s)
        PROVE  SInv'
    BY <1>1, ClientCallsKeep, HandlerRunsKeep, DiesKeeps, ReloadKeeps, RebornKeeps
  <1>2. CASE UNCHANGED vars
    <2>1. UNCHANGED <<actors, shelf, trail, process, actor_bound, served, todo, call,
                      state_file, answers, failures>>
      BY <1>2 DEF vars
    <2>2. Types'
      BY <2>1 DEF SInv, Types
    <2>3. \A s \in Session : SessionInv(s)' /\ (Claims(s)' <=> Claims(s))
      BY <2>1, OthersStay, BoundsAssumption DEF Stays, SInv, Types
    <2>4. QED
      BY <2>2, <2>3 DEF SInv, OneMinter
  <1>3. QED
    BY <1>1, <1>2 DEF Next

-----------------------------------------------------------------------------
(* The inductive invariant. *)
THEOREM Invariance == Spec => []SInv
  <1>1. Init => SInv
    BY InitSInv
  <1>2. SInv /\ [Next]_vars => SInv'
    BY StepKeepsSInv
  <1>3. QED
    BY <1>1, <1>2, PTL DEF Spec

LEMMA AtMostOne ==
  ASSUME NEW S, \A x, y \in S : x = y
  PROVE  Cardinality(S) <= 1
  <1>1. CASE S = {}
    BY <1>1, FS_EmptySet
  <1>2. CASE S # {}
    <2>1. PICK x : S = {x}
      BY <1>2
    <2>2. QED
      BY <2>1, FS_Singleton
  <1>3. QED
    BY <1>1, <1>2

(* Type correctness of the serve processes, a state file there exactly while a
   reload is under way and an actor for every session that is bound. *)
THEOREM TypeCorrect == Spec => []TypeOK
  <1>1. SInv => TypeOK
    BY DEF SInv, Types, TypeOK, EventType, SessionInv, CallInv, BindInv, Bound
  <1>2. QED
    BY <1>1, Invariance, PTL

(* Every session's ledger opens with its bind: no event is written by a
   session whose actor the ledger does not name yet. *)
THEOREM BindOpensTrailHolds == Spec => []BindOpensTrail
  <1>1. SInv => BindOpensTrail
    BY DEF SInv, SessionInv, BindInv, BindOpensTrail
  <1>2. QED
    BY <1>1, Invariance, PTL

(* A session binds again only after a step has failed, never for having been
   reloaded. *)
THEOREM BindsOnceHolds == Spec => []BindsOnce
  <1>1. SInv => BindsOnce
    BY DEF SInv, SessionInv, BindInv, BindsOnce, Binds
  <1>2. QED
    BY <1>1, Invariance, PTL

(* However many sessions of one agent open at once, one of them tells that it
   minted the actor. *)
THEOREM MintsOnceHolds == Spec => []MintsOnce
  <1>1. ASSUME SInv, NEW k \in Key
        PROVE  Cardinality({s \in Session : KeyOf[s] = k /\ EventsOf(s, "actor_mint") # {}}) <= 1
    <2> DEFINE S == {s \in Session : KeyOf[s] = k /\ EventsOf(s, "actor_mint") # {}}
    <2>1. \A s, t \in S : s = t
      BY <1>1 DEF SInv, OneMinter, Claims
    <2> HIDE DEF S
    <2>2. Cardinality(S) <= 1
      BY <2>1, AtMostOne
    <2>3. QED
      BY <2>2 DEF S
  <1>2. SInv => MintsOnce
    BY <1>1 DEF MintsOnce
  <1>3. QED
    BY <1>2, Invariance, PTL

(* A call that was answered well has its line on the ledger. *)
THEOREM NothingMovesUnwitnessedHolds == Spec => []NothingMovesUnwitnessed
  <1>1. SInv => NothingMovesUnwitnessed
    BY DEF SInv, SessionInv, WitnessInv, Told, NothingMovesUnwitnessed
  <1>2. QED
    BY <1>1, Invariance, PTL

(* A scope's frame is pressed on a session at most once, over any number of
   reloads and failures, unless it asks for it. *)
THEOREM FrameOnceHolds == Spec => []FrameOnce
  <1>1. ASSUME SInv, NEW s \in Session, NEW scope \in Scope
        PROVE  Cardinality({k \in 1..Len(answers[s]) :
                 /\ answers[s][k].scope = scope /\ answers[s][k].framed
                 /\ answers[s][k].ok /\ ~answers[s][k].asked}) <= 1
    <2> DEFINE S == {k \in 1..Len(answers[s]) :
                 /\ answers[s][k].scope = scope /\ answers[s][k].framed
                 /\ answers[s][k].ok /\ ~answers[s][k].asked}
    <2>1. \A k, l \in S : k = l
      BY <1>1 DEF SInv, SessionInv, FrameInv, Pressed
    <2> HIDE DEF S
    <2>2. Cardinality(S) <= 1
      BY <2>1, AtMostOne
    <2>3. QED
      BY <2>2 DEF S
  <1>2. SInv => FrameOnce
    BY <1>1 DEF FrameOnce
  <1>3. QED
    BY <1>2, Invariance, PTL

(* A session's ledger tells who acted and what they were answered, whatever
   failed, died, raced or reloaded. *)
THEOREM LedgerTellsHolds == Spec => []LedgerTellsTheSession
  <1>1. BindOpensTrail /\ MintsOnce /\ NothingMovesUnwitnessed => LedgerTellsTheSession
    BY DEF LedgerTellsTheSession
  <1>2. QED
    BY <1>1, BindOpensTrailHolds, MintsOnceHolds, NothingMovesUnwitnessedHolds, PTL

(* A reloaded serve is the session it was. *)
THEOREM SameSessionHolds == Spec => []ReloadIsTheSameSession
  <1>1. BindsOnce /\ FrameOnce => ReloadIsTheSameSession
    BY DEF ReloadIsTheSameSession
  <1>2. QED
    BY <1>1, BindsOnceHolds, FrameOnceHolds, PTL

-----------------------------------------------------------------------------
(* The stdio loop.                                                         *)

WatchTypes ==
  /\ pc \in Running \cup Gone /\ pipe \in Seq(Int) /\ polled \in BOOLEAN
  /\ idle \in 0 .. IdleFor /\ ping \in {NoPing} \cup 0 .. PingWait /\ tries \in 0 .. 2
  /\ lag \in 0 .. 2 /\ silence \in 0 .. Unresponsive /\ sent \in Nat

(* A loop that came round to its poll since the last tick left nothing unread. *)
PolledIsRead == (polled \/ pipe = <<>>) => lag = 0

(* In the loop the idle count starts at the handler's installation and a tick
   waits for a poll, so what waits while the count runs waited one tick. *)
CountedWhileRead == pc \in Loop /\ (idle > 0 \/ ping # NoPing) => lag <= 1

(* What the watchdog has counted is silence: an idle period, then a ping wait
   for each ping that is out or gave up. *)
CountIsSilence ==
  /\ idle <= silence
  /\ ping = NoPing => tries < 2
  /\ ping = NoPing /\ tries = 1 => silence >= IdleFor + PingWait
  /\ ping # NoPing => tries > 0 /\ silence >= IdleFor + ping
  /\ ping # NoPing /\ tries = 2 => silence >= IdleFor + PingWait + ping

WInv ==
  /\ WatchTypes /\ PolledIsRead /\ CountedWhileRead /\ CountIsSilence
  /\ WatchdogSparesTheLively

-----------------------------------------------------------------------------
(* The bounds are numbers, and a ping is given some time. *)
LEMMA Ticks ==
  IdleFor \in Nat /\ PingWait \in Nat /\ PingWait > 0 /\ MaxLines \in Nat
  /\ Unresponsive = IdleFor + 2 * PingWait
  BY LoopAssumption, WaitAssumption DEF Unresponsive

LEMMA InitWInv == HotInit => WInv
  <1> SUFFICES ASSUME HotInit PROVE WInv
    OBVIOUS
  <1>1. /\ pc = "boot" /\ pipe = <<>> /\ polled = FALSE /\ idle = 0 /\ ping = NoPing
        /\ tries = 0 /\ lag = 0 /\ silence = 0 /\ sent = 0
    BY DEF HotInit
  <1>2. WatchTypes
    <2>1. pc \in Running \cup Gone /\ polled \in BOOLEAN
      BY <1>1 DEF Running, Booting
    <2>0. pipe \in Seq(Int)
      <3>1. <<>> \in Seq(Int)
        OBVIOUS
      <3>2. QED
        BY <1>1, <3>1
    <2>2. idle \in 0 .. IdleFor /\ ping \in {NoPing} \cup 0 .. PingWait /\ tries \in 0 .. 2
      BY <1>1, Ticks
    <2>3. lag \in 0 .. 2 /\ silence \in 0 .. Unresponsive /\ sent \in Nat
      BY <1>1, Ticks
    <2>4. QED
      BY <2>0, <2>1, <2>2, <2>3, Zenon DEF WatchTypes
  <1>3. PolledIsRead /\ CountedWhileRead /\ CountIsSilence /\ WatchdogSparesTheLively
    BY <1>1 DEF PolledIsRead, CountedWhileRead, CountIsSilence, WatchdogSparesTheLively
  <1>4. QED
    BY <1>2, <1>3 DEF WInv

(* A step that leaves the watchdog and the input alone, and goes to the loop
   from the loop only. *)
LEMMA ElsewhereWInv ==
  ASSUME WInv, UNCHANGED <<pipe, idle, ping, tries, polled, lag, silence>>,
         pc' \in Running \cup Gone, sent' = sent,
         pc' \in Loop => pc \in Loop, pc' = "shut" => pc = "shut"
  PROVE  WInv'
  BY DEF WInv, WatchTypes, PolledIsRead, CountedWhileRead, CountIsSilence,
     WatchdogSparesTheLively, Unresponsive

(* A step that starts the count anew. *)
LEMMA AnewWInv ==
  ASSUME WInv, UNCHANGED <<pipe, polled, lag, silence, sent>>,
         idle' = 0, ping' = NoPing, tries' = 0, pc' \in Running
  PROVE  WInv'
  BY Ticks DEF WInv, WatchTypes, PolledIsRead, CountedWhileRead, CountIsSilence,
     WatchdogSparesTheLively, Unresponsive, Running, Loop, Booting, NoPing

(* The client writes: what was unread is joined by more. *)
LEMMA WriteWInv == ASSUME WInv, ClientWrites PROVE WInv'
  <1>1. PICK n \in {1, 2} :
          sent' = sent + n /\ pipe' = pipe \o [i \in 1 .. n |-> sent + i]
    BY DEF ClientWrites
  <1>2. UNCHANGED <<pc, idle, ping, tries, polled, lag, silence>>
    BY DEF ClientWrites, watch
  <1>3. /\ pipe \in Seq(Int) /\ sent \in Nat
        /\ [i \in 1 .. n |-> sent + i] \in Seq(Int) /\ Len([i \in 1 .. n |-> sent + i]) = n
    BY DEF WInv, WatchTypes
  <1>4. pipe' \in Seq(Int) /\ pipe' # <<>> /\ sent' \in Nat
    BY <1>1, <1>3
  <1>5. QED
    BY <1>2, <1>4 DEF WInv, WatchTypes, PolledIsRead, CountedWhileRead, CountIsSilence,
       WatchdogSparesTheLively, Unresponsive

(* Time passes, in the loop only after a poll. *)
LEMMA TickWInv == ASSUME WInv, Tick PROVE WInv'
  <1>1. /\ pc \in Running /\ (pc \in Loop => polled)
        /\ UNCHANGED <<pc, pipe, tries, sent>>
        /\ idle' = AtMost(idle + 1, IdleFor)
        /\ ping' = IF ping = NoPing THEN NoPing ELSE AtMost(ping + 1, PingWait)
        /\ polled' = FALSE
        /\ lag' = IF pipe = <<>> THEN 0 ELSE AtMost(lag + 1, 2)
        /\ silence' = AtMost(silence + 1, Unresponsive)
    BY DEF Tick, outside
  <1>2. WatchTypes'
    <2>1. pc' \in Running \cup Gone /\ pipe' \in Seq(Int) /\ polled' \in BOOLEAN /\ sent' \in Nat
      BY <1>1 DEF WInv, WatchTypes
    <2>2. idle' \in 0 .. IdleFor /\ tries' \in 0 .. 2
      BY <1>1, Ticks DEF WInv, WatchTypes, AtMost
    <2>3. ping' \in {NoPing} \cup 0 .. PingWait
      BY <1>1, Ticks DEF WInv, WatchTypes, AtMost, NoPing
    <2>4. lag' \in 0 .. 2 /\ silence' \in 0 .. Unresponsive
      BY <1>1, Ticks DEF WInv, WatchTypes, AtMost
    <2>5. QED
      BY <2>1, <2>2, <2>3, <2>4, Zenon DEF WatchTypes
  <1>3. PolledIsRead' /\ CountedWhileRead'
    BY <1>1, <1>2 DEF WInv, WatchTypes, PolledIsRead, CountedWhileRead, AtMost
  <1>4. CountIsSilence'
    BY <1>1, Ticks DEF WInv, WatchTypes, CountIsSilence, AtMost, NoPing
  <1>5. pc' # "shut"
    BY <1>1 DEF Running, Loop, Booting
  <1>6. QED
    BY <1>2, <1>3, <1>4, <1>5 DEF WInv, WatchdogSparesTheLively

(* The watchdog: a ping, a second one, the end. *)
LEMMA WatchWInv ==
  ASSUME WInv, SendPing \/ Retry \/ ShutDown
  PROVE  WInv'
  <1>1. /\ pc = "watch" /\ pc \in Loop /\ IdleFor > 0
        /\ UNCHANGED <<pipe, polled, lag, silence, sent>>
    BY DEF SendPing, Retry, ShutDown, Loop, outside
  <1>2. lag \in 0 .. 1 /\ idle \in Nat /\ (PingDue \/ PingLate)
    BY <1>1, Ticks DEF SendPing, Retry, ShutDown, PingDue, PingLate, WInv, WatchTypes,
       CountedWhileRead
  <1>3. CASE SendPing /\ pc' = "poll" /\ ping' = 0 /\ tries' = tries + 1 /\ idle' = idle
    BY <1>1, <1>2, <1>3, Ticks DEF SendPing, PingDue, WInv, WatchTypes, PolledIsRead,
       CountedWhileRead, CountIsSilence, WatchdogSparesTheLively, NoPing, Running, Loop
  <1>4. CASE SendPing /\ pc' = "error" /\ UNCHANGED <<idle, ping, tries>>
    BY <1>1, <1>4, ElsewhereWInv DEF Gone, Loop
  <1>5. CASE Retry
    <2>1. /\ PingLate /\ tries < 2 /\ pc' = "poll" /\ ping' = NoPing /\ idle' = IdleFor
          /\ tries' = tries
      BY <1>5 DEF Retry
    <2>2. silence >= IdleFor + PingWait /\ tries = 1
      BY <2>1, Ticks DEF PingLate, WInv, WatchTypes, CountIsSilence, NoPing
    <2>3. QED
      BY <1>1, <1>2, <2>1, <2>2, Ticks DEF WInv, WatchTypes, PolledIsRead, CountedWhileRead,
         CountIsSilence, WatchdogSparesTheLively, NoPing, Running, Loop
  <1>6. CASE ShutDown
    <2>1. PingLate /\ tries >= 2 /\ pc' = "shut" /\ UNCHANGED <<idle, ping, tries>>
      BY <1>6 DEF ShutDown, watch
    <2>2. silence >= Unresponsive
      BY <2>1, Ticks DEF PingLate, WInv, WatchTypes, CountIsSilence, NoPing
    <2>3. QED
      BY <1>1, <1>2, <2>1, <2>2 DEF WInv, WatchTypes, PolledIsRead, CountedWhileRead,
         CountIsSilence, WatchdogSparesTheLively, Unresponsive, Gone, Loop
  <1>7. QED
    BY <1>3, <1>4, <1>5, <1>6 DEF SendPing

(* The poll: a chunk, or nothing there. *)
LEMMA PollWInv ==
  ASSUME WInv, Read \/ PollEmpty
  PROVE  WInv'
  <1>1. CASE Read
    <2>1. PICK n \in 1 .. Len(pipe) : pipe' = SubSeq(pipe, n + 1, Len(pipe))
      BY <1>1 DEF Read
    <2>2. pipe' \in Seq(Int)
      BY <2>1 DEF WInv, WatchTypes
    <2>3. /\ pc' = "drain" /\ polled' = TRUE /\ idle' = 0 /\ ping' = NoPing /\ tries' = 0
          /\ lag' = 0 /\ silence' = 0 /\ sent' = sent
      BY <1>1 DEF Read, outside
    <2>4. QED
      BY <2>2, <2>3, Ticks DEF WInv, WatchTypes, PolledIsRead, CountedWhileRead,
         CountIsSilence, WatchdogSparesTheLively, NoPing, Running, Loop
  <1>2. CASE PollEmpty
    <2>1. /\ pipe = <<>> /\ pc = "poll" /\ pc' = "drain" /\ polled' = TRUE
          /\ UNCHANGED <<pipe, idle, ping, tries, lag, silence, sent>>
      BY <1>2 DEF PollEmpty, watch, outside
    <2>2. QED
      BY <2>1 DEF WInv, WatchTypes, PolledIsRead, CountedWhileRead,
         CountIsSilence, WatchdogSparesTheLively, Unresponsive, Running, Loop
  <1>3. QED
    BY <1>1, <1>2

LEMMA NextWInv == WInv /\ [HotNext]_hotvars => WInv'
  <1> SUFFICES ASSUME WInv, [HotNext]_hotvars PROVE WInv'
    OBVIOUS
  <1> USE DEF Running, Gone, Loop, Booting, outside, watch
  <1>0. pc \in Running \cup Gone
    BY DEF WInv, WatchTypes
  <1>1. CASE ClientWrites \/ Tick
    BY <1>1, WriteWInv, TickWInv
  <1>2. CASE HangUp \/ Wedge \/ UNCHANGED hotvars
    BY <1>0, <1>2, ElsewhereWInv DEF HangUp, Wedge, hotvars
  <1>3. CASE Sigusr1
    BY <1>0, <1>3, ElsewhereWInv DEF Sigusr1
  <1>4. CASE Boot \/ BootFails
    BY <1>4, ElsewhereWInv DEF Boot, BootFails
  <1>5. CASE Install \/ Reexec
    BY <1>5, AnewWInv DEF Install, Reexec
  <1>6. CASE Drain
    <2>1. /\ pc = "drain" /\ pc' \in {"drain", "error"}
          /\ UNCHANGED <<pipe, idle, ping, tries, polled, lag, silence, sent>>
      BY <1>6 DEF Drain
    <2>2. QED
      BY <2>1, ElsewhereWInv
  <1>7. CASE Drained \/ ReloadFails \/ Patient \/ Eof
    BY <1>7, ElsewhereWInv DEF Drained, ReloadFails, Patient, Eof
  <1>8. CASE SendPing \/ Retry \/ ShutDown
    BY <1>8, WatchWInv
  <1>9. CASE Read \/ PollEmpty
    BY <1>9, PollWInv
  <1>10. QED
    BY <1>1, <1>2, <1>3, <1>4, <1>5, <1>6, <1>7, <1>8, <1>9 DEF HotNext, Server

(* A session is ended only after a whole idle period and two whole ping waits
   in which nothing was read, and never over bytes that waited a whole tick
   (hot::serve, the wedged-client watchdog), whatever is written, signalled
   or re-executed. *)
THEOREM WatchdogSparesHolds == HotSpec => []WatchdogSparesTheLively
  <1>1. WInv => WatchdogSparesTheLively
    BY DEF WInv
  <1>2. QED
    BY <1>1, InitWInv, NextWInv, PTL DEF HotSpec

(* "A reload must never jump the queue past a received request" (hot::serve):
   the residue a reload carries holds no whole line. *)
THEOREM ReloadWaitsHolds == HotSpec => []ReloadWaitsItsTurn
  <1>1. HotInit => ReloadWaitsItsTurn
    BY DEF HotInit, ReloadWaitsItsTurn
  <1>2. ReloadWaitsItsTurn /\ [HotNext]_hotvars => ReloadWaitsItsTurn'
    <2> SUFFICES ASSUME ReloadWaitsItsTurn, [HotNext]_hotvars PROVE ReloadWaitsItsTurn'
      OBVIOUS
    <2>1. CASE Reexec
      BY <2>1 DEF Reexec, HasLine, Newline, ReloadWaitsItsTurn
    <2>2. CASE Boot
      BY <2>2 DEF Boot, ReloadWaitsItsTurn
    <2>3. CASE carried' = carried
      BY <2>3 DEF ReloadWaitsItsTurn
    <2>4. QED
      BY <2>1, <2>2, <2>3 DEF HotNext, Server, Install, Drain, Drained, SendPing, Retry, ShutDown,
         Patient, PollEmpty, Read, Eof, BootFails, ReloadFails, ClientWrites, HangUp, Wedge, Sigusr1,
         Tick, hotvars
  <1>3. QED
    BY <1>1, <1>2, PTL DEF HotSpec

-----------------------------------------------------------------------------
(* Every line is answered once.  Before line n + 1 is handled, what the loop  *)
(* holds and what waits unread are the pieces from 2n + 1 on, in order, and   *)
(* the answers are those that the first n lines ask for.                      *)
LEMMA AskedGrows ==
  /\ Asked(0) = <<>>
  /\ \A n \in 1 .. MaxLines :
       Asked(2 * n) = IF Answered(kind[n]) THEN Append(Asked(2 * (n - 1)), n)
                      ELSE Asked(2 * (n - 1))
  <1> DEFINE D == 0 .. MaxLines
             A == CHOOSE A : A = [i \in 0 .. MaxLines |->
                    IF i = 0 THEN <<>>
                    ELSE IF Answered(kind[i]) THEN Append(A[i-1], i) ELSE A[i-1]]
  <1>1. MaxLines \in Nat
    BY Ticks
  <1>2. \A n : Asked(n) = A[n \div 2]
    BY Zenon DEF Asked
  <1>3. \E B : B = [i \in D |-> IF i = 0 THEN <<>>
                                ELSE IF Answered(kind[i]) THEN Append(B[i-1], i) ELSE B[i-1]]
    <2> DEFINE V == Seq(Int)
    <2>1. PICK m \in [D -> 0 .. MaxLines] : \A j \in D : m[j] = j
      <3>1. [j \in D |-> j] \in [D -> 0 .. MaxLines]
        OBVIOUS
      <3>2. QED
        BY <3>1
    <2>2. PICK p : \A j \in D : p[j] = j - 1
      <3>1. \A j \in D : [k \in D |-> k - 1][j] = j - 1
        OBVIOUS
      <3>2. QED
        BY <3>1
    <2>3. PICK base \in [D -> V] : \A j \in D : base[j] = <<>>
      <3>1. [j \in D |-> <<>>] \in [D -> V]
        OBVIOUS
      <3>2. \A j \in D : [k \in D |-> <<>>][j] = <<>>
        OBVIOUS
      <3>3. QED
        BY <3>1, <3>2
    <2>4. PICK step \in [D \X V -> V] :
            \A j \in D, s \in V :
              step[<<j, s>>] = IF Answered(kind[j]) THEN Append(s, j) ELSE s
      <3> DEFINE f == [x \in D \X V |-> IF Answered(kind[x[1]]) THEN Append(x[2], x[1]) ELSE x[2]]
      <3>1. \A x \in D \X V : x[1] \in Int /\ x[2] \in V
        BY <1>1
      <3>2. \A j \in Int, s \in V : Append(s, j) \in V
        OBVIOUS
      <3>3. f \in [D \X V -> V]
        BY <3>1, <3>2
      <3>4. \A j \in D, s \in V : f[<<j, s>>] = IF Answered(kind[j]) THEN Append(s, j) ELSE s
        OBVIOUS
      <3> HIDE DEF f
      <3>5. QED
        BY <3>3, <3>4
    <2> HIDE DEF V
    <2>5. \A j \in D : p[j] # -1 => p[j] \in D /\ m[p[j]] < m[j]
      BY <1>1, <2>1, <2>2
    <2>6. PICK B \in [D -> V] : Tabulates(B, D, p, -1, base, step)
      <3>1. PICK nil : nil = -1
        OBVIOUS
      <3>2. \A j \in D : p[j] # nil => p[j] \in D /\ m[p[j]] < m[j]
        BY <2>5, <3>1
      <3>3. \E B \in [D -> V] : Tabulates(B, D, p, nil, base, step)
        BY <1>1, <2>1, <2>3, <2>4, <3>2, WalkTable
      <3>4. QED
        BY <3>1, <3>3
    <2>7. ASSUME NEW i \in D
          PROVE  B[i] = IF i = 0 THEN <<>>
                        ELSE IF Answered(kind[i]) THEN Append(B[i-1], i) ELSE B[i-1]
      <3>1. B[i] = IF p[i] = -1 THEN base[i] ELSE step[<<i, B[p[i]]>>]
        BY <2>6 DEF Tabulates
      <3>2. CASE i = 0
        BY <1>1, <2>2, <2>3, <3>1, <3>2
      <3>3. CASE i # 0
        <4>0. i - 1 \in D /\ i - 1 \in Nat
          BY <1>1, <3>3
        <4>1. p[i] = i - 1 /\ p[i] # -1 /\ i - 1 \in D
          BY <2>2, <4>0
        <4>2. B[i-1] \in V
          BY <4>1
        <4>3. B[i] = step[<<i, B[i-1]>>]
          BY <3>1, <4>1
        <4>4. QED
          BY <2>4, <3>3, <4>2, <4>3
      <3>4. QED
        BY <3>2, <3>3
    <2>8. B = [i \in D |-> IF i = 0 THEN <<>>
                           ELSE IF Answered(kind[i]) THEN Append(B[i-1], i) ELSE B[i-1]]
      BY <2>7
    <2>9. QED
      BY <2>8, Zenon
  <1>4. A = [i \in D |-> IF i = 0 THEN <<>>
                         ELSE IF Answered(kind[i]) THEN Append(A[i-1], i) ELSE A[i-1]]
    BY <1>3, Zenon
  <1> HIDE DEF A
  <1>5. ASSUME NEW i \in D
        PROVE  A[i] = IF i = 0 THEN <<>>
                      ELSE IF Answered(kind[i]) THEN Append(A[i-1], i) ELSE A[i-1]
    <2> HIDE DEF D
    <2>1. PICK B : B = A
      OBVIOUS
    <2>2. A = [j \in D |-> IF j = 0 THEN <<>>
                           ELSE IF Answered(kind[j]) THEN Append(B[j-1], j) ELSE B[j-1]]
      BY <1>4, <2>1
    <2>3. A[i] = IF i = 0 THEN <<>>
                 ELSE IF Answered(kind[i]) THEN Append(B[i-1], i) ELSE B[i-1]
      BY <2>2
    <2>4. QED
      BY <2>1, <2>3
  <1>6. Asked(0) = <<>>
    <2>1. 0 \div 2 = 0 /\ 0 \in D
      BY <1>1
    <2>2. A[0] = <<>>
      BY <1>4, <2>1
    <2>3. QED
      BY <1>2, <2>1, <2>2
  <1>7. ASSUME NEW n \in 1 .. MaxLines
        PROVE  Asked(2 * n) = IF Answered(kind[n]) THEN Append(Asked(2 * (n - 1)), n)
                              ELSE Asked(2 * (n - 1))
    <2>1. (2 * n) \div 2 = n /\ (2 * (n - 1)) \div 2 = n - 1 /\ n \in D /\ n # 0
      BY <1>1
    <2>2. A[n] = IF n = 0 THEN <<>>
                 ELSE IF Answered(kind[n]) THEN Append(A[n-1], n) ELSE A[n-1]
      BY <1>5, <2>1
    <2>3. Asked(2 * n) = A[n] /\ Asked(2 * (n - 1)) = A[n-1]
      BY <1>2, <2>1
    <2>4. QED
      BY <2>1, <2>2, <2>3
  <1>8. QED
    BY <1>6, <1>7

(* The pieces of q are those after the first h, in order. *)
Follows(q, h) == \A i \in 1 .. Len(q) : q[i] = h + i

(* What the loop holds, or its state file does while the new image boots. *)
Kept == IF carried # NoResidue /\ pc = "boot" THEN carried ELSE buf

HandledTo(n) ==
  /\ replies = Asked(2 * n)
  /\ Follows(Kept, 2 * n) /\ Follows(pipe, 2 * n + Len(Kept))
  /\ sent = 2 * n + Len(Kept) + Len(pipe)

Faithful == Running \cup {"eof", "shut"}

LineInv ==
  /\ kind \in [1 .. MaxLines -> LineKind] /\ sent \in 0 .. 2 * MaxLines
  /\ pipe \in Seq(Int) /\ buf \in Seq(Int) /\ carried \in Seq(Int)
  /\ carried # NoResidue => pc \in {"boot", "error"}
  /\ pc = "boot" => buf = <<>>
  /\ pc \in Faithful => \E n \in 0 .. MaxLines : HandledTo(n)

LEMMA KeptIsASeq == LineInv => Kept \in Seq(Int)
  BY DEF LineInv, Kept

(* A step that moves no bytes and answers nothing. *)
LEMMA SilentLineInv ==
  ASSUME LineInv, UNCHANGED <<kind, sent, pipe, buf, carried, replies>>,
         carried # NoResidue => pc' = pc \/ pc' = "error",
         pc' = "boot" => pc = "boot",
         pc = "boot" => pc' \in {"boot", "error"},
         pc' \in Faithful => pc \in Faithful
  PROVE  LineInv'
  <1>1. pc' \in Faithful => Kept' = Kept
    BY DEF Kept, LineInv, Faithful, Running, Loop, Booting
  <1>2. \A n : Asked(n)' = Asked(n)
    BY Zenon DEF Asked
  <1>3. ASSUME pc' \in Faithful PROVE \E n \in 0 .. MaxLines : HandledTo(n)'
    <2>1. PICK n \in 0 .. MaxLines : HandledTo(n)
      BY <1>3 DEF LineInv
    <2>2. HandledTo(n)'
      BY <1>1, <1>2, <1>3, <2>1 DEF HandledTo, Follows
    <2>3. QED
      BY <2>2
  <1>4. QED
    BY <1>3 DEF LineInv

(* The client writes one piece or two. *)
LEMMA WritesLineInv == ASSUME LineInv, ClientWrites PROVE LineInv'
  <1>1. PICK k \in {1, 2} :
          /\ sent + k <= 2 * MaxLines
          /\ sent' = sent + k
          /\ pipe' = pipe \o [i \in 1 .. k |-> sent + i]
    BY DEF ClientWrites
  <1>2. PICK new : new = [i \in 1 .. k |-> sent + i]
    OBVIOUS
  <1>3. /\ sent \in Int /\ 0 <= sent /\ pipe \in Seq(Int) /\ MaxLines \in Nat
        /\ UNCHANGED <<kind, buf, carried, replies, pc>> /\ k \in Nat
    BY Ticks DEF LineInv, ClientWrites
  <1>4. new \in Seq(Int) /\ Len(new) = k /\ \A i \in 1 .. k : new[i] = sent + i
    BY <1>2, <1>3
  <1>5. /\ pipe' \in Seq(Int) /\ Len(pipe') = Len(pipe) + k /\ Len(pipe) \in Nat
        /\ \A i \in 1 .. Len(pipe) : pipe'[i] = pipe[i]
        /\ \A i \in Len(pipe) + 1 .. Len(pipe) + k : pipe'[i] = new[i - Len(pipe)]
    BY <1>1, <1>2, <1>3, <1>4
  <1>6. Kept' = Kept /\ \A n : Asked(n)' = Asked(n)
    <2>1. Kept' = Kept
      BY <1>3 DEF Kept
    <2>2. \A n : Asked(n)' = Asked(n)
      BY <1>3, Zenon DEF Asked
    <2>3. QED
      BY <2>1, <2>2
  <1>7. ASSUME pc' \in Faithful PROVE \E n \in 0 .. MaxLines : HandledTo(n)'
    <2>1. PICK n \in 0 .. MaxLines : HandledTo(n)
      BY <1>3, <1>7 DEF LineInv
    <2>2. Len(Kept) \in Nat /\ n \in Nat
      BY <1>3, KeptIsASeq
    <2>3. sent = 2 * n + Len(Kept) + Len(pipe)
      BY <2>1 DEF HandledTo
    <2>4. Follows(pipe, 2 * n + Len(Kept))'
      <3> SUFFICES ASSUME NEW i \in 1 .. Len(pipe') PROVE pipe'[i] = 2 * n + Len(Kept) + i
        BY <1>6 DEF Follows
      <3>1. CASE i \in 1 .. Len(pipe)
        BY <1>5, <2>1, <3>1 DEF HandledTo, Follows
      <3>2. CASE i \notin 1 .. Len(pipe)
        <4>1. i \in Len(pipe) + 1 .. Len(pipe) + k /\ i - Len(pipe) \in 1 .. k
          BY <1>3, <1>5, <3>2
        <4>2. pipe'[i] = sent + (i - Len(pipe))
          BY <1>4, <1>5, <4>1
        <4>3. QED
          BY <1>3, <1>5, <2>2, <2>3, <4>2
      <3>3. QED
        BY <3>1, <3>2
    <2>5. sent' = 2 * n + Len(Kept) + Len(pipe')
      BY <1>1, <1>3, <1>5, <2>2, <2>3
    <2>6. HandledTo(n)'
      BY <1>3, <1>6, <2>1, <2>4, <2>5 DEF HandledTo, Follows
    <2>7. QED
      BY <2>6
  <1>8. sent' \in 0 .. 2 * MaxLines
    BY <1>1, <1>3
  <1>9. QED
    BY <1>3, <1>5, <1>7, <1>8 DEF LineInv

LEMMA RestOf ==
  ASSUME NEW q \in Seq(Int), NEW k \in 1 .. Len(q)
  PROVE  /\ SubSeq(q, k + 1, Len(q)) \in Seq(Int)
         /\ Len(SubSeq(q, k + 1, Len(q))) = Len(q) - k
         /\ \A i \in 1 .. Len(q) - k : SubSeq(q, k + 1, Len(q))[i] = q[k + i]
  OBVIOUS

(* A read moves a prefix of what waits to what is held. *)
LEMMA ReadLineInv == ASSUME LineInv, Read PROVE LineInv'
  <1>1. PICK k \in 1 .. Len(pipe) :
          /\ buf' = buf \o SubSeq(pipe, 1, k)
          /\ pipe' = SubSeq(pipe, k + 1, Len(pipe))
    BY DEF Read
  <1>2. /\ UNCHANGED <<kind, sent, carried, replies>> /\ pc = "poll" /\ pc' = "drain"
        /\ pipe \in Seq(Int) /\ buf \in Seq(Int) /\ carried = NoResidue
        /\ Len(pipe) \in Nat /\ Len(buf) \in Nat
    BY DEF Read, outside, LineInv
  <1>3. PICK head : head = SubSeq(pipe, 1, k)
    OBVIOUS
  <1>4. head \in Seq(Int) /\ Len(head) = k /\ \A i \in 1 .. k : head[i] = pipe[i]
    BY <1>2, <1>3
  <1>5. /\ pipe' \in Seq(Int) /\ Len(pipe') = Len(pipe) - k
        /\ \A i \in 1 .. Len(pipe) - k : pipe'[i] = pipe[k + i]
    BY <1>1, <1>2, RestOf
  <1>6. /\ buf' \in Seq(Int) /\ Len(buf') = Len(buf) + k
        /\ \A i \in 1 .. Len(buf) : buf'[i] = buf[i]
        /\ \A i \in Len(buf) + 1 .. Len(buf) + k : buf'[i] = head[i - Len(buf)]
    BY <1>1, <1>2, <1>3, <1>4
  <1>7. Kept = buf /\ Kept' = buf'
    BY <1>2 DEF Kept
  <1>8. \A n : Asked(n)' = Asked(n)
    BY <1>2, Zenon DEF Asked
  <1>9. PICK n \in 0 .. MaxLines : HandledTo(n)
    BY <1>2 DEF LineInv, Faithful, Running, Loop
  <1>10. /\ n \in Nat /\ replies = Asked(2 * n)
         /\ \A i \in 1 .. Len(buf) : buf[i] = 2 * n + i
         /\ \A i \in 1 .. Len(pipe) : pipe[i] = 2 * n + Len(buf) + i
         /\ sent = 2 * n + Len(buf) + Len(pipe)
    BY <1>7, <1>9, Ticks DEF HandledTo, Follows
  <1>11. Follows(buf', 2 * n)
    <2> SUFFICES ASSUME NEW i \in 1 .. Len(buf') PROVE buf'[i] = 2 * n + i
      BY DEF Follows
    <2>1. CASE i \in 1 .. Len(buf)
      BY <1>6, <1>10, <2>1
    <2>2. CASE i \notin 1 .. Len(buf)
      <3>1. i \in Len(buf) + 1 .. Len(buf) + k /\ i - Len(buf) \in 1 .. k
        BY <1>2, <1>6, <2>2
      <3>2. buf'[i] = pipe[i - Len(buf)] /\ i - Len(buf) \in 1 .. Len(pipe)
        BY <1>2, <1>4, <1>6, <3>1
      <3>3. QED
        BY <1>2, <1>10, <3>2
    <2>3. QED
      BY <2>1, <2>2
  <1>12. Follows(pipe', 2 * n + Len(buf'))
    <2> SUFFICES ASSUME NEW i \in 1 .. Len(pipe') PROVE pipe'[i] = 2 * n + Len(buf') + i
      BY DEF Follows
    <2>1. pipe'[i] = pipe[k + i] /\ k + i \in 1 .. Len(pipe)
      BY <1>2, <1>5
    <2>2. QED
      BY <1>2, <1>6, <1>10, <2>1
  <1>13. sent = 2 * n + Len(buf') + Len(pipe')
    BY <1>2, <1>5, <1>6, <1>10
  <1>14. HandledTo(n)'
    BY <1>2, <1>7, <1>8, <1>10, <1>11, <1>12, <1>13 DEF HandledTo, Follows
  <1>15. QED
    BY <1>2, <1>5, <1>6, <1>14 DEF LineInv

(* The first whole line the loop holds is the next line the client wrote. *)
LEMMA NextLine ==
  ASSUME LineInv, pc = "drain", HasLine, NEW n \in 0 .. MaxLines, HandledTo(n)
  PROVE  /\ LineEnd = 2 /\ Len(buf) >= 2 /\ n + 1 \in 1 .. MaxLines
         /\ LineOf(SubSeq(buf, 1, LineEnd)) = n + 1
  <1>1. /\ Kept = buf /\ buf \in Seq(Int) /\ Len(buf) \in Nat /\ n \in Nat /\ MaxLines \in Nat
        /\ \A i \in 1 .. Len(buf) : buf[i] = 2 * n + i
        /\ sent \in 0 .. 2 * MaxLines /\ sent = 2 * n + Len(buf) + Len(pipe)
        /\ Len(pipe) \in Nat /\ DOMAIN buf = 1 .. Len(buf)
    <2>1. Kept = buf /\ buf \in Seq(Int) /\ pipe \in Seq(Int) /\ sent \in 0 .. 2 * MaxLines
      BY DEF Kept, LineInv
    <2>2. Len(buf) \in Nat /\ Len(pipe) \in Nat /\ DOMAIN buf = 1 .. Len(buf)
      BY <2>1
    <2>3. QED
      BY <2>1, <2>2, Ticks DEF HandledTo, Follows
  <1>2. \A i \in 1 .. Len(buf) : Newline(i) <=> i % 2 = 0
    BY <1>1 DEF Newline
  <1>3. Len(buf) >= 2
    <2>1. PICK i \in 1 .. Len(buf) : i % 2 = 0
      BY <1>1, <1>2 DEF HasLine
    <2>2. i # 1
      BY <2>1
    <2>3. QED
      BY <1>1, <2>1, <2>2
  <1>4. Newline(2) /\ ~Newline(1) /\ 1 \in DOMAIN buf /\ 2 \in DOMAIN buf
    BY <1>1, <1>2, <1>3
  <1>5. LineEnd = 2
    <2>1. \A j \in 1 .. 2 - 1 : ~Newline(j)
      BY <1>4
    <2>2. ASSUME NEW i \in DOMAIN buf, Newline(i), \A j \in 1 .. i - 1 : ~Newline(j)
          PROVE  i = 2
      <3>1. i # 1 /\ i \in Nat /\ i >= 1
        BY <1>1, <1>4, <2>2
      <3>2. ~(2 \in 1 .. i - 1)
        BY <1>4, <2>2
      <3>3. QED
        BY <3>1, <3>2
    <2>3. \E i \in DOMAIN buf : Newline(i) /\ \A j \in 1 .. i - 1 : ~Newline(j)
      BY <1>4, <2>1
    <2>4. LineEnd \in DOMAIN buf /\ Newline(LineEnd) /\ \A j \in 1 .. LineEnd - 1 : ~Newline(j)
      BY <2>3, Zenon DEF LineEnd
    <2>5. QED
      BY <2>2, <2>4
  <1>6. n + 1 \in 1 .. MaxLines
    BY <1>1, <1>3
  <1>7. PICK line : line = SubSeq(buf, 1, 2)
    OBVIOUS
  <1>8. PICK want : want = <<2 * (n + 1) - 1, 2 * (n + 1)>>
    OBVIOUS
  <1>9. /\ line \in Seq(Int) /\ Len(line) = 2 /\ line[1] = 2 * n + 1 /\ line[2] = 2 * n + 2
    BY <1>1, <1>3, <1>7
  <1>10. /\ want \in Seq(Int) /\ Len(want) = 2 /\ want[1] = 2 * n + 1 /\ want[2] = 2 * n + 2
    BY <1>1, <1>8
  <1>11. line = want
    <2>1. \A i \in 1 .. 2 : line[i] = want[i]
      BY <1>9, <1>10
    <2>2. QED
      BY <1>9, <1>10, <2>1
  <1>12. \E m \in 1 .. MaxLines : line = <<2 * m - 1, 2 * m>>
    BY <1>6, <1>8, <1>11
  <1>13. Last(line) = 2 * n + 2
    BY <1>9 DEF Last
  <1>14. (2 * n + 2) \div 2 = n + 1
    BY <1>1
  <1>15. LineOf(line) = n + 1
    BY <1>12, <1>13, <1>14, Zenon DEF LineOf
  <1>16. QED
    BY <1>3, <1>5, <1>6, <1>7, <1>15

(* The loop handles one line. *)
LEMMA DrainLineInv == ASSUME LineInv, Drain PROVE LineInv'
  <1>1. /\ UNCHANGED <<kind, sent, pipe, carried>> /\ pc = "drain" /\ HasLine
        /\ buf \in Seq(Int) /\ pipe \in Seq(Int) /\ carried = NoResidue
        /\ buf' = SubSeq(buf, LineEnd + 1, Len(buf))
        /\ pc' \in {"drain", "error"}
    BY DEF Drain, outside, LineInv
  <1>2. PICK n \in 0 .. MaxLines : HandledTo(n)
    BY <1>1 DEF LineInv, Faithful, Running, Loop
  <1>3. /\ LineEnd = 2 /\ Len(buf) >= 2 /\ n + 1 \in 1 .. MaxLines
        /\ LineOf(SubSeq(buf, 1, LineEnd)) = n + 1
    BY <1>1, <1>2, NextLine
  <1>4. /\ buf' \in Seq(Int) /\ Len(buf') = Len(buf) - 2 /\ Len(buf) \in Nat
        /\ \A i \in 1 .. Len(buf) - 2 : buf'[i] = buf[i + 2]
    <2>1. Len(buf) \in Nat /\ 2 \in 1 .. Len(buf) /\ buf' = SubSeq(buf, 2 + 1, Len(buf))
      BY <1>1, <1>3
    <2>2. /\ buf' \in Seq(Int) /\ Len(buf') = Len(buf) - 2
          /\ \A i \in 1 .. Len(buf) - 2 : buf'[i] = buf[2 + i]
      BY <1>1, <2>1, RestOf
    <2>3. \A i \in 1 .. Len(buf) - 2 : 2 + i = i + 2
      OBVIOUS
    <2>4. QED
      BY <2>1, <2>2, <2>3
  <1>5. Kept = buf /\ Kept' = buf' /\ n \in Nat /\ Len(pipe) \in Nat
    BY <1>1, Ticks DEF Kept
  <1>6. \A m : Asked(m)' = Asked(m)
    BY <1>1, Zenon DEF Asked
  <1>7. CASE pc' = "error"
    BY <1>1, <1>4, <1>7 DEF LineInv, Faithful, Running, Loop, Booting
  <1>8. CASE pc' = "drain"
    <2>1. replies' = IF Replied(n + 1) THEN Append(replies, n + 1) ELSE replies
      BY <1>3, <1>8 DEF Drain
    <2>2. Replied(n + 1) <=> Answered(kind[n + 1])
      BY <1>3, <1>5 DEF Replied
    <2>3. Asked(2 * (n + 1)) = IF Answered(kind[n + 1]) THEN Append(Asked(2 * n), n + 1)
                               ELSE Asked(2 * n)
      <3>1. (n + 1) - 1 = n
        BY <1>5
      <3>2. QED
        BY <1>3, <3>1, AskedGrows
    <2>4. replies' = Asked(2 * (n + 1))
      BY <1>2, <2>1, <2>2, <2>3 DEF HandledTo
    <2>5. Follows(buf', 2 * (n + 1))
      <3> SUFFICES ASSUME NEW i \in 1 .. Len(buf') PROVE buf'[i] = 2 * (n + 1) + i
        BY DEF Follows
      <3>1. buf'[i] = buf[i + 2] /\ i + 2 \in 1 .. Len(buf)
        BY <1>4
      <3>2. QED
        BY <1>2, <1>5, <3>1 DEF HandledTo, Follows
    <2>6. 2 * (n + 1) + Len(buf') = 2 * n + Len(buf)
      BY <1>4, <1>5
    <2>7. Follows(pipe', 2 * (n + 1) + Len(buf'))
      BY <1>1, <1>2, <1>5, <2>6 DEF HandledTo, Follows
    <2>8. sent' = 2 * (n + 1) + Len(buf') + Len(pipe')
      BY <1>1, <1>2, <1>5, <2>6 DEF HandledTo
    <2>9. HandledTo(n + 1)'
      BY <1>5, <1>6, <2>4, <2>5, <2>7, <2>8 DEF HandledTo, Follows
    <2>10. QED
      BY <1>1, <1>3, <1>4, <1>8, <2>9 DEF LineInv
  <1>9. QED
    BY <1>1, <1>7, <1>8

(* The residue goes into the state file, and the next image takes it up. *)
LEMMA ReloadLineInv == ASSUME LineInv, Reexec \/ Boot PROVE LineInv'
  <1>1. /\ UNCHANGED <<kind, sent, pipe, replies>> /\ <<>> \in Seq(Int)
        /\ pipe \in Seq(Int) /\ buf \in Seq(Int) /\ carried \in Seq(Int)
        /\ NoResidue \in Seq(Int) /\ <<>> # NoResidue
    <2>1. NoResidue \in Seq(Int) /\ Len(NoResidue) = 1 /\ <<>> \in Seq(Int)
      BY DEF NoResidue
    <2>2. <<>> # NoResidue
      BY <2>1
    <2>3. QED
      BY <2>1, <2>2 DEF Reexec, Boot, outside, LineInv
  <1>2. PICK n \in 0 .. MaxLines : HandledTo(n)
    BY DEF LineInv, Faithful, Running, Loop, Booting, Reexec, Boot
  <1>3. Kept' = Kept
    <2>1. CASE Reexec
      <3>1. pc' = "boot" /\ carried' = buf /\ buf' = <<>> /\ Kept = buf
        BY <2>1 DEF Reexec, Kept
      <3>2. buf # NoResidue
        <4>1. ASSUME buf = NoResidue PROVE FALSE
          <5>1. Len(buf) = 1 /\ buf[1] = 0
            BY <4>1 DEF NoResidue
          <5>2. buf[1] = 2 * n + 1 /\ n \in Nat
            BY <1>2, <3>1, <5>1, Ticks DEF HandledTo, Follows
          <5>3. QED
            BY <5>1, <5>2
        <4>2. QED
          BY <4>1
      <3>3. QED
        BY <3>1, <3>2 DEF Kept
    <2>2. CASE Boot
      <3>1. /\ pc = "boot" /\ pc' = "registered" /\ carried' = NoResidue
            /\ buf' = IF carried = NoResidue THEN <<>> ELSE carried
            /\ buf = <<>>
        BY <2>2 DEF Boot, LineInv
      <3>2. QED
        BY <3>1 DEF Kept
    <2>3. QED
      BY <2>1, <2>2
  <1>4. \A m : Asked(m)' = Asked(m)
    BY <1>1, Zenon DEF Asked
  <1>5. HandledTo(n)'
    BY <1>1, <1>2, <1>3, <1>4 DEF HandledTo, Follows
  <1>6. /\ buf' \in Seq(Int) /\ carried' \in Seq(Int)
        /\ carried' # NoResidue => pc' \in {"boot", "error"}
        /\ pc' = "boot" => buf' = <<>>
    BY <1>1 DEF Reexec, Boot
  <1>7. QED
    BY <1>1, <1>5, <1>6 DEF LineInv

LEMMA NextLineInv == LineInv /\ [HotNext]_hotvars => LineInv'
  <1> SUFFICES ASSUME LineInv, [HotNext]_hotvars PROVE LineInv'
    OBVIOUS
  <1>1. CASE \/ Install \/ Drained \/ ReloadFails \/ SendPing \/ Retry \/ ShutDown \/ Patient
             \/ PollEmpty \/ Eof \/ BootFails \/ HangUp \/ Wedge \/ Sigusr1 \/ Tick
             \/ UNCHANGED hotvars
    <2>1. CASE Install \/ Drained \/ SendPing \/ Retry \/ ShutDown \/ Patient
               \/ PollEmpty \/ Eof
      <3>1. UNCHANGED <<kind, sent, pipe, buf, carried, replies>>
        BY <2>1 DEF Install, Drained, SendPing, Retry, ShutDown, Patient, PollEmpty, Eof, outside
      <3>2. /\ pc \in {"registered", "drain", "watch", "poll"}
            /\ pc' \in {"drain", "watch", "poll", "shut", "eof", "error"}
        BY <2>1 DEF Install, Drained, SendPing, Retry, ShutDown, Patient, PollEmpty, Eof
      <3>3. carried = NoResidue
        BY <3>2 DEF LineInv
      <3>4. QED
        BY <3>1, <3>2, <3>3, SilentLineInv DEF Faithful, Running, Loop, Booting
    <2>2. CASE BootFails \/ ReloadFails
      <3>1. UNCHANGED <<kind, sent, pipe, buf, replies>>
        BY <2>2 DEF BootFails, ReloadFails, outside
      <3>2. CASE BootFails
        BY <3>1, <3>2, SilentLineInv
        DEF BootFails, Faithful, Running, Loop, Booting
      <3>3. CASE ReloadFails
        <4>1. pc = "drain" /\ pc' = "watch" /\ UNCHANGED carried
          BY <3>3 DEF ReloadFails
        <4>2. carried = NoResidue
          BY <4>1 DEF LineInv
        <4>3. QED
          BY <3>1, <4>1, <4>2, SilentLineInv DEF Faithful, Running, Loop, Booting
      <3>4. QED
        BY <2>2, <3>2, <3>3
    <2>3. CASE HangUp \/ Wedge \/ Tick \/ UNCHANGED hotvars
      <3>1. UNCHANGED <<kind, sent, pipe, buf, carried, replies, pc>>
        BY <2>3 DEF HangUp, Wedge, Tick, hotvars, outside
      <3>2. QED
        BY <3>1, SilentLineInv
    <2>4. CASE Sigusr1
      <3>1. UNCHANGED <<kind, sent, pipe, buf, carried, replies>>
        BY <2>4 DEF Sigusr1
      <3>2. pc \in {"registered", "drain", "watch", "poll"} /\ pc' \in {pc, "killed"}
        BY <2>4 DEF Sigusr1, Loop
      <3>3. carried = NoResidue
        BY <3>2 DEF LineInv
      <3>4. QED
        BY <3>1, <3>2, <3>3, SilentLineInv DEF Faithful, Running, Loop, Booting
    <2>5. QED
      BY <1>1, <2>1, <2>2, <2>3, <2>4
  <1>2. QED
    BY <1>1, WritesLineInv, ReadLineInv, DrainLineInv, ReloadLineInv DEF HotNext, Server

(* "Nothing is lost" over a reload (hot::serve): over any number of reloads,
   failed execs and split reads, what is answered is exactly what is no longer
   held, once and in the order written, and no whole line crosses an exec. *)
THEOREM ReloadKeepsHolds == HotSpec => []ReloadKeepsTheLines
  <1>1. HotInit => LineInv
    <2> SUFFICES ASSUME HotInit PROVE LineInv
      OBVIOUS
    <2>1. /\ kind \in [1 .. MaxLines -> LineKind] /\ sent = 0 /\ pipe = <<>> /\ buf = <<>>
          /\ pc = "boot" /\ carried = NoResidue /\ replies = <<>> /\ MaxLines \in Nat
      BY KindAssumption, Ticks DEF HotInit
    <2>2. /\ <<>> \in Seq(Int) /\ Len(<<>>) = 0 /\ NoResidue \in Seq(Int)
      BY DEF NoResidue
    <2>3. Kept = <<>>
      BY <2>1 DEF Kept
    <2>4. HandledTo(0)
      BY <2>1, <2>2, <2>3, AskedGrows DEF HandledTo, Follows
    <2>5. QED
      BY <2>1, <2>2, <2>4 DEF LineInv
  <1>2. LineInv => NothingLostOrRepeated
    <2> SUFFICES ASSUME LineInv, pc \in Faithful
                 PROVE  /\ Held = [i \in 1 .. Len(Held) |-> sent - Len(Held) + i]
                        /\ replies = Asked(sent - Len(Held))
      BY DEF NothingLostOrRepeated, Faithful
    <2>1. PICK n \in 0 .. MaxLines : HandledTo(n)
      BY DEF LineInv
    <2>2. /\ Kept \in Seq(Int) /\ pipe \in Seq(Int) /\ n \in Nat
          /\ Len(Kept) \in Nat /\ Len(pipe) \in Nat
      BY KeptIsASeq, Ticks DEF LineInv
    <2>3. Held = Kept \o pipe
      BY DEF Held, Kept
    <2>4. /\ Held \in Seq(Int) /\ Len(Held) = Len(Kept) + Len(pipe)
          /\ \A i \in 1 .. Len(Kept) : Held[i] = Kept[i]
          /\ \A i \in Len(Kept) + 1 .. Len(Kept) + Len(pipe) : Held[i] = pipe[i - Len(Kept)]
      BY <2>2, <2>3
    <2>5. sent - Len(Held) = 2 * n
      BY <2>1, <2>2, <2>4 DEF HandledTo
    <2>6. ASSUME NEW i \in 1 .. Len(Held) PROVE Held[i] = 2 * n + i
      <3>1. CASE i \in 1 .. Len(Kept)
        BY <2>1, <2>4, <3>1 DEF HandledTo, Follows
      <3>2. CASE i \notin 1 .. Len(Kept)
        <4>1. /\ i \in Len(Kept) + 1 .. Len(Kept) + Len(pipe)
              /\ i - Len(Kept) \in 1 .. Len(pipe)
          BY <2>2, <2>4, <3>2
        <4>2. Held[i] = 2 * n + Len(Kept) + (i - Len(Kept))
          BY <2>1, <2>4, <4>1 DEF HandledTo, Follows
        <4>3. QED
          BY <2>2, <2>4, <4>2
      <3>3. QED
        BY <3>1, <3>2
    <2>7. Held = [i \in 1 .. Len(Held) |-> 2 * n + i]
      <3>1. DOMAIN Held = 1 .. Len(Held) /\ Held = [i \in DOMAIN Held |-> Held[i]]
        BY <2>4
      <3>2. QED
        BY <2>6, <3>1
    <2>8. QED
      BY <2>1, <2>5, <2>7 DEF HandledTo
  <1>3. HotSpec => []LineInv
    BY <1>1, NextLineInv, PTL DEF HotSpec
  <1>4. NothingLostOrRepeated /\ ReloadWaitsItsTurn => ReloadKeepsTheLines
    BY DEF ReloadKeepsTheLines
  <1>5. QED
    BY <1>2, <1>3, <1>4, ReloadWaitsHolds, PTL

-----------------------------------------------------------------------------
(* The briefings a session is handed (Handoff). *)

(* What a drop process holds was standing when it was read, and a row that
   stood stays in the record. *)
DropTargets ==
  \A p \in Human : dropping[p] # None => dropping[p] \in Rows /\ Circulated(dropping[p])

(* The inductive invariant: uniqueness of heads needs the types, and a
   drop's second half needs to know what the first half can have left. *)
HandoffInv ==
  /\ HandoffTypeOK
  /\ DropTargets
  /\ OneLiveHead
  /\ OnePendingHead
  /\ QuarantineNeverDisplaces

-----------------------------------------------------------------------------
(* query_row over rows that are all the same row returns that row. *)
LEMMA FirstRowOfOne ==
  ASSUME NEW S \in SUBSET Id, \A i, j \in S : i = j
  PROVE  /\ S = {} => FirstRow(S) = None
         /\ S # {} => FirstRow(S) \in S /\ S = {FirstRow(S)}
  <1>1. ASSUME S # {}
        PROVE  FirstRow(S) \in S
    <2>1. PICK i \in S : \A j \in S : j = i
      BY <1>1
    <2>2. i <= i
      BY DEF Id
    <2>3. \E k \in S : \A j \in S : k <= j
      BY <2>1, <2>2
    <2>4. FirstRow(S) = CHOOSE k \in S : \A j \in S : k <= j
      BY <1>1 DEF FirstRow
    <2>5. QED
      BY <2>3, <2>4
  <1>2. QED
    BY <1>1 DEF FirstRow

(* NULL is not a row id. *)
LEMMA NoneIsNoId == None \notin Id
  BY NoneAssumption DEF Id

(* The heads of a namespace are rows, and `standing` returns the one there is. *)
LEMMA StandingIsTheHead ==
  ASSUME HandoffTypeOK, OneLiveHead, NEW ns \in Namespace
  PROVE  /\ Heads(ns) \subseteq Id
         /\ Heads(ns) = {} => FirstRow(Heads(ns)) = None
         /\ Heads(ns) # {} => Heads(ns) = {FirstRow(Heads(ns))}
  <1>1. Heads(ns) \in SUBSET Id
    BY MaxRowsAssumption DEF Heads, Rows, Id, HandoffTypeOK
  <1>2. QED
    BY <1>1, FirstRowOfOne DEF OneLiveHead

(* The same for one writer's pending head. *)
LEMMA PendingHeadIsOne ==
  ASSUME HandoffTypeOK, OnePendingHead, NEW ns \in Namespace, NEW agent \in Author
  PROVE  /\ PendingHeads(ns, agent) \subseteq Id
         /\ PendingHeads(ns, agent) = {} => FirstRow(PendingHeads(ns, agent)) = None
         /\ PendingHeads(ns, agent) # {} =>
              PendingHeads(ns, agent) = {FirstRow(PendingHeads(ns, agent))}
  <1>1. PendingHeads(ns, agent) \in SUBSET Id
    BY MaxRowsAssumption DEF PendingHeads, Rows, Id, HandoffTypeOK
  <1>2. QED
    BY <1>1, FirstRowOfOne DEF OnePendingHead

-----------------------------------------------------------------------------
(* The migrated, empty table satisfies the inductive invariant. *)
LEMMA InitHandoffInv == HandoffInit => HandoffInv
  BY MaxRowsAssumption
  DEF HandoffInit, HandoffInv, HandoffTypeOK, DropTargets, OneLiveHead, OnePendingHead,
      QuarantineNeverDisplaces, Heads, PendingHeads, IsHead, Rows, Id, Status

(* A write, whichever status the policy gives it. *)
LEMMA WriteHandoffInv ==
  ASSUME HandoffInv, NEW ns \in Namespace, NEW agent \in Author,
         NEW st \in {"live", "pending"}, WriteHandoff(ns, agent, st)
  PROVE  HandoffInv'
  <1> DEFINE id == rows + 1
             old == Prior(ns, agent, st)
  <1>1. /\ rows \in Nat /\ id \in Id /\ rows' = id /\ id \notin Rows
        /\ Rows' = Rows \cup {id} /\ Rows \subseteq Id
        /\ status[id] = "absent"
    BY MaxRowsAssumption DEF WriteHandoff, HandoffInv, HandoffTypeOK, Id, Rows
  <1>2. old = None \/ old \in Rows
    BY StandingIsTheHead, PendingHeadIsOne DEF Prior, HandoffInv, Heads, PendingHeads, IsHead
  <1>3. HandoffTypeOK'
    <2>1. superseded_by' \in [Id -> Id \cup {None}]
      BY <1>1, <1>2 DEF WriteHandoff, Supersede, HandoffInv, HandoffTypeOK
    <2>2. \A i \in Id \ Rows' : superseded_by'[i] = None
      BY <1>1, <1>2, NoneIsNoId DEF WriteHandoff, Supersede, HandoffInv, HandoffTypeOK
    <2>3. rows' \in 0..MaxRows
      BY <1>1 DEF Id
    <2>4. status' \in [Id -> Status] /\ (\A i \in Id : i \in Rows' <=> status'[i] # "absent")
      BY <1>1 DEF WriteHandoff, HandoffInv, HandoffTypeOK, Status
    <2>5. QED
      BY <1>1, <2>1, <2>2, <2>3, <2>4 DEF WriteHandoff, HandoffInv, HandoffTypeOK
  <1>4. DropTargets'
    BY <1>1 DEF WriteHandoff, HandoffInv, DropTargets, HandoffTypeOK, Circulated
  <1>5. /\ superseded_by' \in [Id -> Id \cup {None}]
        /\ superseded_by'[id] = superseded_by[id]
        /\ \A i \in Rows : superseded_by'[i] = IF i = old THEN id ELSE superseded_by[i]
    BY <1>1, <1>2, <1>3, NoneIsNoId DEF WriteHandoff, Supersede, HandoffInv, HandoffTypeOK
  <1>6. /\ \A i \in Rows : /\ status'[i] = status[i]
                           /\ namespace'[i] = namespace[i]
                           /\ agent_id'[i] = agent_id[i]
        /\ status'[id] = st /\ namespace'[id] = ns /\ agent_id'[id] = agent
    BY <1>1 DEF WriteHandoff, HandoffInv, HandoffTypeOK
  <1>7. OneLiveHead'
    <2> SUFFICES ASSUME NEW n \in Namespace, NEW i \in Heads(n)', NEW j \in Heads(n)'
                 PROVE  i = j
      BY DEF OneLiveHead
    <2>1. \A k \in Heads(n)' : k = id \/ k \in Heads(n)
      BY <1>1, <1>5, <1>6, NoneIsNoId DEF Heads, IsHead
    <2>2. ASSUME id \in Heads(n)', NEW k \in Heads(n)', k # id
          PROVE  FALSE
      <3>1. st = "live" /\ n = ns
        BY <2>2, <1>1, <1>6 DEF Heads, IsHead
      <3>2. k \in Heads(ns)
        BY <2>1, <2>2, <3>1
      <3>3. k = old
        BY <3>1, <3>2, StandingIsTheHead DEF Prior, HandoffInv
      <3>4. superseded_by'[k] = id
        BY <3>2, <3>3, <1>5 DEF Heads, IsHead
      <3>5. QED
        BY <3>4, <2>2, <1>1, NoneIsNoId DEF Heads, IsHead
    <2>3. QED
      BY <2>1, <2>2 DEF HandoffInv, OneLiveHead
  <1>8. OnePendingHead'
    <2> SUFFICES ASSUME NEW n \in Namespace, NEW a \in Author,
                        NEW i \in PendingHeads(n, a)', NEW j \in PendingHeads(n, a)'
                 PROVE  i = j
      BY DEF OnePendingHead
    <2>1. \A k \in PendingHeads(n, a)' : k = id \/ k \in PendingHeads(n, a)
      BY <1>1, <1>5, <1>6, NoneIsNoId DEF PendingHeads, IsHead
    <2>2. ASSUME id \in PendingHeads(n, a)', NEW k \in PendingHeads(n, a)', k # id
          PROVE  FALSE
      <3>1. st = "pending" /\ n = ns /\ a = agent
        BY <2>2, <1>1, <1>6 DEF PendingHeads, IsHead
      <3>2. k \in PendingHeads(ns, agent)
        BY <2>1, <2>2, <3>1
      <3>3. k = old
        BY <3>1, <3>2, PendingHeadIsOne DEF Prior, HandoffInv
      <3>4. superseded_by'[k] = id
        BY <3>2, <3>3, <1>5 DEF PendingHeads, IsHead
      <3>5. QED
        BY <3>4, <2>2, <1>1, NoneIsNoId DEF PendingHeads, IsHead
    <2>3. QED
      BY <2>1, <2>2 DEF HandoffInv, OnePendingHead
  <1>9. QuarantineNeverDisplaces'
    <2> SUFFICES ASSUME NEW i \in Rows', Circulated(i)', superseded_by'[i] # None
                 PROVE  Circulated(superseded_by[i])'
      BY DEF QuarantineNeverDisplaces
    <2>1. CASE i = id
      <3>1. superseded_by[id] # None /\ superseded_by'[id] = superseded_by[id]
        BY <2>1, <1>5
      <3>2. QED
        BY <3>1, <1>1 DEF HandoffInv, HandoffTypeOK
    <2>2. CASE i # id /\ i = old
      <3>1. ASSUME st = "pending"
            PROVE  FALSE
        <4>1. i \in Rows /\ i # None
          BY <2>2, <1>1, NoneIsNoId
        <4>2. old = FirstRow(PendingHeads(ns, agent))
          BY <3>1 DEF Prior
        <4>3. old \in PendingHeads(ns, agent)
          BY <4>1, <4>2, <2>2, PendingHeadIsOne DEF HandoffInv
        <4>4. QED
          BY <4>1, <4>3, <2>2, <1>6 DEF PendingHeads, IsHead, Circulated
      <3>2. QED
        BY <3>1, <2>2, <1>1, <1>2, <1>5, <1>6, NoneIsNoId DEF Circulated
    <2>3. CASE i # id /\ i # old
      <3>1. i \in Rows /\ Circulated(i) /\ superseded_by'[i] = superseded_by[i]
        BY <2>3, <1>1, <1>5, <1>6 DEF Circulated
      <3>2. superseded_by[i] \in Rows /\ Circulated(superseded_by[i])
        BY <3>1, <1>1 DEF HandoffInv, QuarantineNeverDisplaces, Circulated, HandoffTypeOK
      <3>3. QED
        BY <3>1, <3>2, <1>6 DEF Circulated
    <2>4. QED
      BY <2>1, <2>2, <2>3
  <1>10. QED
    BY <1>3, <1>4, <1>7, <1>8, <1>9 DEF HandoffInv

(* The desk's approval: the incumbent is displaced in the same step. *)
LEMMA ApproveHandoffInv ==
  ASSUME HandoffInv, NEW id \in Id, Approve(id)
  PROVE  HandoffInv'
  <1> DEFINE ns == namespace[id]
             old == FirstRow(Heads(ns))
  <1>1. /\ rows \in Nat /\ Rows' = Rows /\ Rows \subseteq Id /\ id \in Rows
        /\ ns \in Namespace
        /\ status[id] = "pending" /\ superseded_by[id] = None
    BY MaxRowsAssumption DEF Approve, Approvable, HandoffInv, HandoffTypeOK, Id, Rows
  <1>2. /\ old = None \/ old \in Rows
        /\ old # None => old \in Heads(ns)
        /\ old # id
    BY <1>1, StandingIsTheHead, NoneIsNoId DEF HandoffInv, Heads, IsHead
  <1>3. /\ superseded_by' \in [Id -> Id \cup {None}]
        /\ \A i \in Id : superseded_by'[i] = IF i = old THEN id ELSE superseded_by[i]
    BY <1>1, <1>2, NoneIsNoId DEF Approve, Supersede, HandoffInv, HandoffTypeOK
  <1>4. /\ status' \in [Id -> Status]
        /\ \A i \in Id : status'[i] = IF i = id THEN "live" ELSE status[i]
    BY <1>1 DEF Approve, HandoffInv, HandoffTypeOK, Status
  <1>5. HandoffTypeOK'
    <2>1. \A i \in Id : i \in Rows' <=> status'[i] # "absent"
      BY <1>1, <1>4 DEF HandoffInv, HandoffTypeOK
    <2>2. \A i \in Id \ Rows' : superseded_by'[i] = None
      BY <1>1, <1>2, <1>3, NoneIsNoId DEF HandoffInv, HandoffTypeOK
    <2>3. QED
      BY <1>1, <1>3, <1>4, <2>1, <2>2 DEF Approve, HandoffInv, HandoffTypeOK
  <1>6. DropTargets'
    BY <1>1, <1>4 DEF Approve, HandoffInv, DropTargets, HandoffTypeOK, Circulated
  <1>7. OneLiveHead'
    <2> SUFFICES ASSUME NEW n \in Namespace, NEW i \in Heads(n)', NEW j \in Heads(n)'
                 PROVE  i = j
      BY DEF OneLiveHead
    <2>1. \A k \in Heads(n)' : k = id \/ (k \in Heads(n) /\ k # old)
      BY <1>1, <1>3, <1>4, NoneIsNoId DEF Heads, IsHead, Approve
    <2>2. id \in Heads(n)' => n = ns
      BY <1>1 DEF Heads, IsHead, Approve
    <2>3. \A k \in Heads(ns) : k = old
      BY <1>1, StandingIsTheHead DEF HandoffInv
    <2>4. QED
      BY <2>1, <2>2, <2>3 DEF HandoffInv, OneLiveHead
  <1>8. OnePendingHead'
    <2> SUFFICES ASSUME NEW n \in Namespace, NEW a \in Author,
                        NEW i \in PendingHeads(n, a)', NEW j \in PendingHeads(n, a)'
                 PROVE  i = j
      BY DEF OnePendingHead
    <2>1. \A k \in PendingHeads(n, a)' : k \in PendingHeads(n, a)
      BY <1>1, <1>3, <1>4, NoneIsNoId DEF PendingHeads, IsHead, Approve
    <2>2. QED
      BY <2>1 DEF HandoffInv, OnePendingHead
  <1>9. QuarantineNeverDisplaces'
    <2> SUFFICES ASSUME NEW i \in Rows, Circulated(i)', superseded_by'[i] # None
                 PROVE  Circulated(superseded_by[i])'
      BY <1>1 DEF QuarantineNeverDisplaces
    <2>1. CASE i = old
      BY <2>1, <1>1, <1>3, <1>4 DEF Circulated
    <2>2. CASE i # old
      <3>1. superseded_by'[i] = superseded_by[i] /\ i # id /\ Circulated(i)
        BY <2>2, <1>1, <1>3, <1>4 DEF Circulated
      <3>2. superseded_by[i] \in Id /\ Circulated(superseded_by[i])
        BY <3>1, <1>1 DEF HandoffInv, QuarantineNeverDisplaces, HandoffTypeOK
      <3>3. QED
        BY <3>1, <3>2, <1>4 DEF Circulated
    <2>3. QED
      BY <2>1, <2>2
  <1>10. QED
    BY <1>5, <1>6, <1>7, <1>8, <1>9 DEF HandoffInv

(* A step that only moves one row to a status outside circulation, or along
   it from live to dropped, and leaves the pointers alone. *)
LEMMA StatusStepHandoffInv ==
  ASSUME HandoffInv, NEW id \in Rows, NEW st \in {"rejected", "dropped"},
         \/ status[id] = "pending" /\ st = "rejected"
         \/ Circulated(id) /\ st = "dropped",
         status' = [status EXCEPT ![id] = st],
         UNCHANGED <<rows, namespace, agent_id, superseded_by>>,
         DropTargets', dropping' \in [Human -> Id \cup {None}]
  PROVE  HandoffInv'
  <1>1. Rows' = Rows /\ Rows \subseteq Id
    BY MaxRowsAssumption DEF Rows, Id, HandoffInv, HandoffTypeOK
  <1>2. /\ status' \in [Id -> Status]
        /\ \A i \in Id : status'[i] = IF i = id THEN st ELSE status[i]
        /\ \A i \in Id : Circulated(i)' <=> Circulated(i)
    BY <1>1 DEF HandoffInv, HandoffTypeOK, Status, Circulated
  <1>3. HandoffTypeOK'
    BY <1>1, <1>2 DEF HandoffInv, HandoffTypeOK
  <1>4. \A n \in Namespace : Heads(n)' \subseteq Heads(n)
    BY <1>1, <1>2 DEF Heads, IsHead
  <1>5. \A n \in Namespace, a \in Author : PendingHeads(n, a)' \subseteq PendingHeads(n, a)
    BY <1>1, <1>2 DEF PendingHeads, IsHead
  <1>6. QuarantineNeverDisplaces'
    BY <1>1, <1>2 DEF HandoffInv, QuarantineNeverDisplaces, HandoffTypeOK
  <1>7. QED
    BY <1>3, <1>4, <1>5, <1>6 DEF HandoffInv, OneLiveHead, OnePendingHead

(* The desk's refusal: the row leaves the queue and nothing else moves. *)
LEMMA RejectHandoffInv ==
  ASSUME HandoffInv, NEW id \in Id, Reject(id)
  PROVE  HandoffInv'
  <1>1. id \in Rows /\ status[id] = "pending"
    BY DEF Reject
  <1>2. DropTargets' /\ dropping' \in [Human -> Id \cup {None}]
    BY DEF Reject, HandoffInv, HandoffTypeOK, DropTargets, Rows, Circulated
  <1>3. /\ status' = [status EXCEPT ![id] = "rejected"]
        /\ UNCHANGED <<rows, namespace, agent_id, superseded_by>>
    BY DEF Reject
  <1>4. QED
    BY <1>1, <1>2, <1>3, StatusStepHandoffInv

(* A drop's SELECT: what it returns is a head, so it has stood. *)
LEMMA DropReadHandoffInv ==
  ASSUME HandoffInv, NEW p \in Human, NEW ns \in Namespace, DropRead(p, ns)
  PROVE  HandoffInv'
  <1>1. FirstRow(Heads(ns)) \in Heads(ns) /\ Heads(ns) \subseteq Id
    BY StandingIsTheHead DEF DropRead, HandoffInv
  <1>2. HandoffTypeOK' /\ DropTargets'
    BY <1>1 DEF DropRead, HandoffInv, HandoffTypeOK, DropTargets, Rows, Circulated, Heads, IsHead
  <1>3. OneLiveHead' /\ OnePendingHead' /\ QuarantineNeverDisplaces'
    BY DEF DropRead, HandoffInv, OneLiveHead, OnePendingHead, QuarantineNeverDisplaces,
           Heads, PendingHeads, IsHead, Rows, Circulated
  <1>4. QED
    BY <1>2, <1>3 DEF HandoffInv

(* The unguarded UPDATE: harmless because a row that stood can only have
   been superseded or dropped since. *)
LEMMA DropWriteHandoffInv ==
  ASSUME HandoffInv, NEW p \in Human, DropWrite(p)
  PROVE  HandoffInv'
  <1>1. dropping[p] \in Rows /\ Circulated(dropping[p])
    BY DEF DropWrite, HandoffInv, DropTargets
  <1>2. DropTargets' /\ dropping' \in [Human -> Id \cup {None}]
    BY <1>1 DEF DropWrite, HandoffInv, HandoffTypeOK, DropTargets, Rows, Circulated
  <1>3. /\ status' = [status EXCEPT ![dropping[p]] = "dropped"]
        /\ UNCHANGED <<rows, namespace, agent_id, superseded_by>>
    BY DEF DropWrite
  <1>4. QED
    BY <1>1, <1>2, <1>3, StatusStepHandoffInv

(* A drop that dies between its halves forgets what it read. *)
LEMMA DropDiesHandoffInv ==
  ASSUME HandoffInv, NEW p \in Human, DropDies(p)
  PROVE  HandoffInv'
  BY DEF DropDies, HandoffInv, HandoffTypeOK, DropTargets, OneLiveHead, OnePendingHead,
         QuarantineNeverDisplaces, Heads, PendingHeads, IsHead, Rows, Circulated

(* Every step of every process preserves the inductive invariant. *)
LEMMA NextHandoffInv == HandoffInv /\ [HandoffNext]_handoffvars => HandoffInv'
  <1> SUFFICES ASSUME HandoffInv, [HandoffNext]_handoffvars PROVE HandoffInv'
    OBVIOUS
  <1>1. ASSUME NEW ns \in Namespace, NEW agent \in Agent, HandoffWrite(ns, agent)
        PROVE  HandoffInv'
    BY <1>1, WriteHandoffInv DEF HandoffWrite, TaskWriteStatus, Author
  <1>2. ASSUME NEW ns \in Namespace, HandoffCmd(ns)
        PROVE  HandoffInv'
    BY <1>2, WriteHandoffInv DEF HandoffCmd, Author
  <1>3. ASSUME NEW id \in Id, JudgeHandoff(id)
        PROVE  HandoffInv'
    BY <1>3, ApproveHandoffInv, RejectHandoffInv DEF JudgeHandoff
  <1>4. ASSUME NEW p \in Human, HandoffDropCmd(p)
        PROVE  HandoffInv'
    <2>1. ASSUME NEW ns \in Namespace, DropRead(p, ns) PROVE HandoffInv'
      BY <2>1, DropReadHandoffInv
    <2>2. CASE DropWrite(p)
      BY <2>2, DropWriteHandoffInv
    <2>3. CASE DropDies(p)
      BY <2>3, DropDiesHandoffInv
    <2>4. QED
      BY <1>4, <2>1, <2>2, <2>3 DEF HandoffDropCmd
  <1>5. CASE UNCHANGED handoffvars
    BY <1>5 DEF handoffvars, HandoffInv, HandoffTypeOK, DropTargets, OneLiveHead, OnePendingHead,
       QuarantineNeverDisplaces, Heads, PendingHeads, IsHead, Rows, Circulated
  <1>6. QED
    BY <1>1, <1>2, <1>3, <1>4, <1>5 DEF HandoffNext

(* The inductive invariant holds in every reachable state: the shelf's types,
   its unique heads, the quarantine promise and what a drop may hold. *)
THEOREM HandoffInvariance == HandoffSpec => []HandoffInv
  BY InitHandoffInv, NextHandoffInv, PTL DEF HandoffSpec

(* The table's columns keep their types and the unwritten rows stay empty,
   for any number of rows, writers and concurrent drops. *)
THEOREM HandoffTypeCorrect == HandoffSpec => []HandoffTypeOK
  BY HandoffInvariance, PTL DEF HandoffInv

(* D-036: exactly one standing briefing per namespace, against every
   interleaving of writes, judgments and the two-step drop. *)
THEOREM OneLiveHeadHolds == HandoffSpec => []OneLiveHead
  BY HandoffInvariance, PTL DEF HandoffInv

(* A writer holds at most one open version per namespace at the desk. *)
THEOREM OnePendingHeadHolds == HandoffSpec => []OnePendingHead
  BY HandoffInvariance, PTL DEF HandoffInv

(* D-036: a pending write supersedes nothing live. *)
THEOREM QuarantineHolds == HandoffSpec => []QuarantineNeverDisplaces
  BY HandoffInvariance, PTL DEF HandoffInv

-----------------------------------------------------------------------------
(* Refinement.  What each action does to the heads decides which step of the
   board it is. *)

(* One namespace's heads become the one row `id`: a note goes up. *)
LEMMA GoingUp ==
  ASSUME NEW ns \in Namespace, NEW id \in Id, id \notin Posted,
         Heads(ns)' = {id},
         \A n \in Namespace \ {ns} : Heads(n)' = Heads(n),
         Posted' = Posted \cup {id}
  PROVE  Board!Next
  <1>1. FirstRow({id}) = id
    BY FirstRowOfOne
  <1>2. Standing' = [Standing EXCEPT ![ns] = id]
    BY <1>1 DEF Standing
  <1>3. Board!Post(ns, id)
    BY <1>2 DEF Board!Post
  <1>4. QED
    BY <1>3 DEF Board!Next

(* No head changes and nothing new has stood: readers see a stutter. *)
LEMMA NothingSeen ==
  ASSUME \A n \in Namespace : Heads(n)' = Heads(n), Posted' = Posted
  PROVE  UNCHANGED Board!vars
  BY DEF Board!vars, Standing

(* A live write puts a note up; a pending one is not seen. *)
LEMMA WriteImplements ==
  ASSUME HandoffInv, HandoffInv', NEW ns \in Namespace, NEW agent \in Author,
         NEW st \in {"live", "pending"}, WriteHandoff(ns, agent, st)
  PROVE  [Board!Next]_(Board!vars)
  <1> DEFINE id == rows + 1
             old == Prior(ns, agent, st)
  <1>1. /\ id \in Id /\ id \notin Rows /\ Rows' = Rows \cup {id} /\ Rows \subseteq Id
        /\ status[id] = "absent" /\ superseded_by[id] = None
    BY MaxRowsAssumption DEF WriteHandoff, HandoffInv, HandoffTypeOK, Id, Rows
  <1>2. /\ \A i \in Id \ {id} : /\ status'[i] = status[i]
                                /\ namespace'[i] = namespace[i]
        /\ status'[id] = st /\ namespace'[id] = ns
    BY <1>1 DEF WriteHandoff, HandoffInv, HandoffTypeOK
  <1>3. old = None \/ old \in Rows
    BY StandingIsTheHead, PendingHeadIsOne DEF Prior, HandoffInv, Heads, PendingHeads, IsHead
  <1>4. \A i \in Id : superseded_by'[i] = IF i = old THEN id ELSE superseded_by[i]
    BY <1>1, <1>3, NoneIsNoId DEF WriteHandoff, Supersede, HandoffInv, HandoffTypeOK
  <1>5. CASE st = "live"
    <2>1. /\ Heads(ns) # {} => Heads(ns) = {old}
          /\ Heads(ns) \subseteq Rows
          /\ old # None => old \in Heads(ns)
      BY <1>5, StandingIsTheHead DEF Prior, HandoffInv, Heads
    <2>2. Heads(ns)' = {id}
      BY <1>1, <1>2, <1>4, <1>5, <2>1, NoneIsNoId DEF Heads, IsHead
    <2>3. \A n \in Namespace \ {ns} : Heads(n)' = Heads(n)
      BY <1>1, <1>2, <1>4, <2>1, NoneIsNoId DEF Heads, IsHead
    <2>4. id \notin Posted /\ Posted' = Posted \cup {id}
      BY <1>1, <1>2, <1>5 DEF Posted, Circulated
    <2>5. QED
      BY <1>1, <2>2, <2>3, <2>4, GoingUp
  <1>6. CASE st = "pending"
    <2>1. old # None => status[old] = "pending"
      BY <1>6, PendingHeadIsOne DEF Prior, HandoffInv, PendingHeads, IsHead
    <2>2. \A n \in Namespace : Heads(n)' = Heads(n)
      BY <1>1, <1>2, <1>3, <1>4, <1>6, <2>1, NoneIsNoId DEF Heads, IsHead
    <2>3. Posted' = Posted
      BY <1>1, <1>2, <1>6 DEF Posted, Circulated
    <2>4. QED
      BY <2>2, <2>3, NothingSeen
  <1>7. QED
    BY <1>5, <1>6

(* An approval puts the judged note up over whatever stood. *)
LEMMA ApproveImplements ==
  ASSUME HandoffInv, HandoffInv', NEW id \in Id, Approve(id)
  PROVE  [Board!Next]_(Board!vars)
  <1> DEFINE ns == namespace[id]
             old == FirstRow(Heads(ns))
  <1>1. /\ Rows' = Rows /\ Rows \subseteq Id /\ id \in Rows /\ ns \in Namespace
        /\ status[id] = "pending" /\ superseded_by[id] = None
        /\ namespace' = namespace
    BY MaxRowsAssumption DEF Approve, Approvable, HandoffInv, HandoffTypeOK, Id, Rows
  <1>2. /\ old = None \/ old \in Rows
        /\ old # None => old \in Heads(ns)
        /\ Heads(ns) # {} => Heads(ns) = {old}
        /\ old # id
    BY <1>1, StandingIsTheHead, NoneIsNoId DEF HandoffInv, Heads, IsHead
  <1>3. /\ \A i \in Id : superseded_by'[i] = IF i = old THEN id ELSE superseded_by[i]
        /\ \A i \in Id : status'[i] = IF i = id THEN "live" ELSE status[i]
    BY <1>1, <1>2, NoneIsNoId DEF Approve, Supersede, HandoffInv, HandoffTypeOK
  <1>4. Heads(ns)' = {id}
    BY <1>1, <1>2, <1>3, NoneIsNoId DEF Heads, IsHead
  <1>5. \A n \in Namespace \ {ns} : Heads(n)' = Heads(n)
    BY <1>1, <1>2, <1>3, NoneIsNoId DEF Heads, IsHead
  <1>6. id \notin Posted /\ Posted' = Posted \cup {id}
    BY <1>1, <1>3 DEF Posted, Circulated
  <1>7. QED
    BY <1>1, <1>4, <1>5, <1>6, GoingUp

(* A refusal is not seen by readers. *)
LEMMA RejectImplements ==
  ASSUME HandoffInv, NEW id \in Id, Reject(id)
  PROVE  [Board!Next]_(Board!vars)
  <1>1. /\ Rows' = Rows /\ Rows \subseteq Id /\ id \in Rows /\ status[id] = "pending"
        /\ \A i \in Id : status'[i] = IF i = id THEN "rejected" ELSE status[i]
    BY MaxRowsAssumption DEF Reject, HandoffInv, HandoffTypeOK, Rows, Id
  <1>2. \A n \in Namespace : Heads(n)' = Heads(n)
    BY <1>1 DEF Reject, Heads, IsHead
  <1>3. Posted' = Posted
    BY <1>1 DEF Posted, Circulated
  <1>4. QED
    BY <1>2, <1>3, NothingSeen

(* A drop takes a note down if the row it read still stands, and is
   invisible if it has been superseded or dropped meanwhile. *)
LEMMA DropImplements ==
  ASSUME HandoffInv, HandoffInv', NEW p \in Human, DropWrite(p)
  PROVE  [Board!Next]_(Board!vars)
  <1> DEFINE d == dropping[p]
  <1>1. /\ Rows' = Rows /\ Rows \subseteq Id /\ d \in Rows /\ Circulated(d)
        /\ namespace[d] \in Namespace /\ namespace' = namespace
        /\ superseded_by' = superseded_by
        /\ \A i \in Id : status'[i] = IF i = d THEN "dropped" ELSE status[i]
    BY MaxRowsAssumption DEF DropWrite, HandoffInv, HandoffTypeOK, DropTargets, Rows, Id
  <1>2. Posted' = Posted
    BY <1>1 DEF Posted, Circulated
  <1>3. CASE d \in Heads(namespace[d])
    <2>1. PICK ns \in Namespace : ns = namespace[d]
      BY <1>1
    <2>2. Heads(ns) = {d}
      BY <1>1, <1>3, <2>1, StandingIsTheHead DEF HandoffInv
    <2>3. \A i \in Rows : i # d => i \notin Heads(ns)
      BY <2>2
    <2>4. Heads(ns)' = {}
      BY <1>1, <2>3 DEF Heads, IsHead
    <2>5. \A n \in Namespace \ {ns} : Heads(n)' = Heads(n)
      BY <1>1, <2>1 DEF Heads, IsHead
    <2>6. FirstRow({d}) = d /\ FirstRow({}) = None /\ d # None
      BY <1>1, FirstRowOfOne, NoneIsNoId
    <2>7. Standing[ns] # None
      BY <2>2, <2>6 DEF Standing
    <2>8. Standing' = [Standing EXCEPT ![ns] = None]
      BY <2>4, <2>5, <2>6 DEF Standing
    <2>9. Board!TakeDown(ns)
      BY <1>2, <2>7, <2>8 DEF Board!TakeDown
    <2>10. QED
      BY <2>9 DEF Board!Next
  <1>4. CASE d \notin Heads(namespace[d])
    <2>1. \A n \in Namespace : Heads(n)' = Heads(n)
      BY <1>1, <1>4 DEF Heads, IsHead
    <2>2. QED
      BY <2>1, <1>2, NothingSeen
  <1>5. QED
    BY <1>3, <1>4

(* Every step of the table is a step of the board or a stutter. *)
LEMMA StepImplements == HandoffInv /\ HandoffInv' /\ [HandoffNext]_handoffvars => [Board!Next]_(Board!vars)
  <1> SUFFICES ASSUME HandoffInv, HandoffInv', [HandoffNext]_handoffvars PROVE [Board!Next]_(Board!vars)
    OBVIOUS
  <1>1. ASSUME NEW ns \in Namespace, NEW agent \in Agent, HandoffWrite(ns, agent)
        PROVE  [Board!Next]_(Board!vars)
    BY <1>1, WriteImplements DEF HandoffWrite, TaskWriteStatus, Author
  <1>2. ASSUME NEW ns \in Namespace, HandoffCmd(ns)
        PROVE  [Board!Next]_(Board!vars)
    BY <1>2, WriteImplements DEF HandoffCmd, Author
  <1>3. ASSUME NEW id \in Id, JudgeHandoff(id)
        PROVE  [Board!Next]_(Board!vars)
    BY <1>3, ApproveImplements, RejectImplements DEF JudgeHandoff
  <1>4. ASSUME UNCHANGED <<rows, namespace, status, superseded_by>>
        PROVE  UNCHANGED Board!vars
    BY <1>4, NothingSeen DEF Heads, IsHead, Rows, Posted, Circulated
  <1>5. ASSUME NEW p \in Human, HandoffDropCmd(p)
        PROVE  [Board!Next]_(Board!vars)
    <2>1. CASE DropWrite(p)
      BY <2>1, DropImplements
    <2>2. CASE DropDies(p) \/ \E ns \in Namespace : DropRead(p, ns)
      BY <2>2, <1>4 DEF DropDies, DropRead
    <2>3. QED
      BY <1>5, <2>1, <2>2 DEF HandoffDropCmd
  <1>6. CASE UNCHANGED handoffvars
    BY <1>4, <1>6 DEF handoffvars
  <1>7. QED
    BY <1>1, <1>2, <1>3, <1>5, <1>6 DEF HandoffNext

(* An empty table is an empty board. *)
LEMMA InitImplements == HandoffInit => Board!Init
  <1>1. ASSUME HandoffInit PROVE \A n \in Namespace : Heads(n) = {}
    BY <1>1 DEF HandoffInit, Heads, Rows
  <1>2. QED
    BY <1>1 DEF HandoffInit, Board!Init, Standing, Posted, Circulated, FirstRow

(* The shelf implements the bulletin board: one note per namespace, each
   going up once, none coming back. *)
THEOREM Refinement == HandoffSpec => ImplementsBulletin
  <1>1. HandoffSpec => []HandoffInv
    BY HandoffInvariance
  <1>2. QED
    BY <1>1, InitImplements, StepImplements, PTL DEF HandoffSpec, ImplementsBulletin, Board!Spec
-----------------------------------------------------------------------------
(* A write or an approval never leaves a board that had a note without one:
   its own row stands there afterwards. *)
LEMMA OnlyDropsEmpty ==
  ASSUME HandoffInv, HandoffInv', [HandoffNext]_handoffvars, NEW ns \in Namespace,
         Heads(ns) # {}, Heads(ns)' = {}
  PROVE  \E p \in Human : dropping[p] \in Heads(ns)
  <1>0. Rows \subseteq Id /\ Heads(ns) \subseteq Rows
    BY MaxRowsAssumption DEF HandoffInv, HandoffTypeOK, Rows, Id, Heads
  <1>1. ASSUME NEW n \in Namespace, NEW agent \in Author,
               NEW st \in {"live", "pending"}, WriteHandoff(n, agent, st)
        PROVE  FALSE
    <2> DEFINE id == rows + 1
               old == Prior(n, agent, st)
    <2>1. /\ id \in Id /\ id \notin Rows /\ Rows' = Rows \cup {id}
          /\ superseded_by[id] = None
      BY <1>1, MaxRowsAssumption DEF WriteHandoff, HandoffInv, HandoffTypeOK, Id, Rows
    <2>2. /\ \A i \in Id \ {id} : /\ status'[i] = status[i]
                                  /\ namespace'[i] = namespace[i]
          /\ status'[id] = st /\ namespace'[id] = n
      BY <1>1, <2>1 DEF WriteHandoff, HandoffInv, HandoffTypeOK
    <2>3. old = None \/ old \in Rows
      BY StandingIsTheHead, PendingHeadIsOne DEF Prior, HandoffInv, Heads, PendingHeads, IsHead
    <2>4. \A i \in Id : superseded_by'[i] = IF i = old THEN id ELSE superseded_by[i]
      BY <1>1, <2>1, <2>3, NoneIsNoId DEF WriteHandoff, Supersede, HandoffInv, HandoffTypeOK
    <2>5. PICK h \in Heads(ns) : TRUE
      BY DEF HandoffInv
    <2>6. h \in Id /\ h # id
      BY <1>0, <2>1, <2>5
    <2>7. CASE h # old
      <3>1. h \in Heads(ns)'
        BY <2>1, <2>2, <2>4, <2>5, <2>6, <2>7, <1>0 DEF Heads, IsHead
      <3>2. QED
        BY <3>1
    <2>8. CASE h = old
      <3>1. st = "live" /\ n = ns
        BY <2>5, <2>8, <1>0, NoneIsNoId, StandingIsTheHead, PendingHeadIsOne
        DEF Prior, HandoffInv, Heads, PendingHeads, IsHead
      <3>2. id \in Heads(ns)'
        BY <2>1, <2>2, <2>3, <2>4, <2>6, <2>8, <3>1 DEF Heads, IsHead
      <3>3. QED
        BY <3>2
    <2>9. QED
      BY <2>7, <2>8
  <1>2. ASSUME NEW id \in Id, Approve(id)
        PROVE  FALSE
    <2> DEFINE n == namespace[id]
               old == FirstRow(Heads(n))
    <2>1. /\ Rows' = Rows /\ id \in Rows /\ n \in Namespace
          /\ status[id] = "pending" /\ superseded_by[id] = None
          /\ namespace' = namespace
      BY <1>2, <1>0 DEF Approve, Approvable, HandoffInv, HandoffTypeOK, Rows
    <2>2. /\ old = None \/ old \in Heads(n)
          /\ old # id
      BY <1>0, <2>1, StandingIsTheHead, NoneIsNoId DEF HandoffInv, Heads, IsHead
    <2>3. /\ \A i \in Id : superseded_by'[i] = IF i = old THEN id ELSE superseded_by[i]
          /\ \A i \in Id : status'[i] = IF i = id THEN "live" ELSE status[i]
      BY <1>2, <2>1, <2>2, <1>0, NoneIsNoId
      DEF Approve, Supersede, HandoffInv, HandoffTypeOK, Heads, IsHead
    <2>4. PICK h \in Heads(ns) : TRUE
      BY DEF HandoffInv
    <2>5. CASE n = ns
      <3>1. id \in Heads(ns)'
        BY <2>1, <2>2, <2>3, <2>5, <1>0 DEF Heads, IsHead
      <3>2. QED
        BY <3>1
    <2>6. CASE n # ns
      <3>1. h \in Heads(ns)'
        BY <2>1, <2>2, <2>3, <2>4, <2>6, <1>0, NoneIsNoId DEF Heads, IsHead
      <3>2. QED
        BY <3>1
    <2>7. QED
      BY <2>5, <2>6
  <1>3. ASSUME NEW id \in Id, Reject(id)
        PROVE  FALSE
    <2>1. Heads(ns)' = Heads(ns)
      BY <1>3, <1>0 DEF Reject, Heads, IsHead, Rows, HandoffInv, HandoffTypeOK
    <2>2. QED
      BY <2>1
  <1>4. ASSUME NEW p \in Human, DropWrite(p)
        PROVE  dropping[p] \in Heads(ns)
    <2>1. PICK h \in Heads(ns) : TRUE
      BY DEF HandoffInv
    <2>2. CASE h # dropping[p]
      <3>1. h \in Heads(ns)'
        BY <1>4, <1>0, <2>1, <2>2 DEF DropWrite, Heads, IsHead, Rows, HandoffInv, HandoffTypeOK
      <3>2. QED
        BY <3>1
    <2>3. QED
      BY <2>1, <2>2
  <1>5. ASSUME UNCHANGED <<rows, namespace, status, superseded_by>>
        PROVE  FALSE
    <2>1. Heads(ns)' = Heads(ns)
      BY <1>5 DEF Heads, IsHead, Rows
    <2>2. QED
      BY <2>1
  <1>6. ASSUME NEW n \in Namespace, NEW agent \in Agent, HandoffWrite(n, agent)
        PROVE  FALSE
    BY <1>6, <1>1 DEF HandoffWrite, TaskWriteStatus, Author
  <1>7. ASSUME NEW n \in Namespace, HandoffCmd(n)
        PROVE  FALSE
    BY <1>7, <1>1 DEF HandoffCmd, Author
  <1>8. ASSUME NEW p \in Human, HandoffDropCmd(p)
        PROVE  \E q \in Human : dropping[q] \in Heads(ns)
    <2>1. CASE DropWrite(p)
      BY <2>1, <1>4
    <2>2. CASE DropDies(p) \/ \E n \in Namespace : DropRead(p, n)
      BY <2>2, <1>5 DEF DropDies, DropRead
    <2>3. QED
      BY <1>8, <2>1, <2>2 DEF HandoffDropCmd
  <1>9. CASE UNCHANGED handoffvars
    BY <1>5, <1>9 DEF handoffvars
  <1>10. QED
    BY <1>2, <1>3, <1>6, <1>7, <1>8, <1>9 DEF HandoffNext, JudgeHandoff

(* drop_standing's SELECT and UPDATE have no transaction around them, and yet
   only a note some drop read as standing is ever cleared, whatever is written
   or approved in between. *)
THEOREM DropSparesHolds == HandoffSpec => DropSparesNewBriefings
  <1>1. ASSUME HandoffInv, HandoffInv', [HandoffNext]_handoffvars
        PROVE  \A ns \in Namespace :
                 Heads(ns) # {} /\ Heads(ns)' = {} =>
                   \E p \in Human : dropping[p] \in Heads(ns)
    BY <1>1, OnlyDropsEmpty
  <1>2. HandoffInv /\ HandoffInv' /\ [HandoffNext]_handoffvars =>
          [\A ns \in Namespace :
             Heads(ns) # {} /\ Heads(ns)' = {} =>
               \E p \in Human : dropping[p] \in Heads(ns)]_handoffvars
    BY <1>1
  <1>3. QED
    BY <1>2, HandoffInvariance, PTL DEF HandoffSpec, DropSparesNewBriefings
=============================================================================
