-------------------------------- MODULE Hot ---------------------------------
(***************************************************************************)
(* The stdio loop of one `kum serve` process (crates/kumbarium: rpc.rs     *)
(* module hot, main.rs serve): it answers the lines its client writes,     *)
(* re-executes the installed binary when SIGUSR1 asks it to, and lets go   *)
(* of a client that stopped answering.  One pass of the loop drains the    *)
(* complete lines it holds, looks at the reload flag, looks at the idle    *)
(* watchdog, then polls its input once.                                    *)
(*                                                                         *)
(* Line n reaches the process as two pieces, 2n-1 and 2n, of which the     *)
(* second ends in the newline; a read may take any prefix of what waits.   *)
(* What a call does to the library is module Serve's; who is signalled is  *)
(* module Home's.                                                          *)
(***************************************************************************)
EXTENDS Integers, Sequences, SequencesExt

CONSTANTS
  Kinds,        \* the kinds of line the client writes, from LineKind
  MaxLines,     \* bound: lines the client writes
  MaxSignals,   \* bound: SIGUSR1s sent
  MaxFaults,    \* bound: execs, boots or writes that fail
  IdleFor,      \* serve_idle_ping_minutes, in ticks; 0 turns the watchdog off
  PingWait      \* the 60 seconds a ping is given, in ticks

LineKind == {"request", "notification", "response", "idGarbage", "garbage", "unparsable"}

ASSUME LoopAssumption == {MaxLines, MaxSignals, MaxFaults, IdleFor} \subseteq Nat
ASSUME WaitAssumption == PingWait \in Nat \ {0}
ASSUME KindAssumption == Kinds \subseteq LineKind

VARIABLES
  kind,      \* what each line the client writes is
  sent,      \* pieces the client has written
  pipe,      \* the kernel's buffer: pieces written and not read
  client,    \* "here", "wedged" (alive, never writes again), "hungup"
  pc,        \* where the process is: see Running and Gone
  buf,       \* bytes read and not yet a line handled
  flag,      \* RELOAD
  idle,      \* ticks since last_traffic, up to IdleFor
  ping,      \* ticks since the unanswered ping went out, or NoPing
  tries,     \* ping_tries
  carried,   \* reload-<pid>.json: the residue, or NoResidue
  polled,    \* the loop has polled since the last tick
  replies,   \* history: the lines answered, in order; 0 is no line of the client's
  signals, faults,  \* history: how many
  lag,       \* history: ticks the oldest unread piece has waited, up to 2
  silence    \* history: ticks since the last read, up to Unresponsive

hotvars == <<kind, sent, pipe, client, pc, buf, flag, idle, ping, tries, carried,
          polled, replies, signals, faults, lag, silence>>

outside == <<kind, sent, client, signals>>
watch == <<idle, ping, tries>>

NoPing == -1
NoResidue == <<0>>       \* no piece is 0
Unresponsive == IdleFor + 2 * PingWait
AtMost(n, bound) == IF n < bound THEN n ELSE bound

Loop == {"drain", "watch", "poll"}
Booting == {"boot", "registered"}     \* SIGUSR1 still has its default disposition
Running == Loop \cup Booting
Gone == {"eof", "shut", "error", "killed"}

\* handle_line: requests, and what is neither a notification nor a response
\* but carries an id or does not parse, get one line back.
Answered(k) == k \in {"request", "idGarbage", "unparsable"}

HotInit ==
  /\ kind \in [1 .. MaxLines -> Kinds]
  /\ sent = 0 /\ pipe = <<>> /\ client = "here"
  /\ pc = "boot" /\ buf = <<>> /\ flag = FALSE
  /\ idle = 0 /\ ping = NoPing /\ tries = 0
  /\ carried = NoResidue /\ polled = FALSE
  /\ replies = <<>> /\ signals = 0 /\ faults = 0
  /\ lag = 0 /\ silence = 0

Fails == faults < MaxFaults /\ faults' = faults + 1

-----------------------------------------------------------------------------
(* The client, the operator's signal, and time. *)

ClientWrites ==
  /\ client = "here" /\ sent < 2 * MaxLines
  /\ \E n \in {1, 2} :
       /\ sent + n <= 2 * MaxLines
       /\ sent' = sent + n
       /\ pipe' = pipe \o [i \in 1 .. n |-> sent + i]
  /\ UNCHANGED <<kind, client, pc, buf, flag, watch, carried, polled, replies,
                 signals, faults, lag, silence>>

HangUp ==
  /\ client # "hungup" /\ pc \in Running
  /\ client' = "hungup"
  /\ UNCHANGED <<kind, sent, pipe, pc, buf, flag, watch, carried, polled, replies,
                 signals, faults, lag, silence>>

Wedge ==
  /\ client = "here" /\ IdleFor > 0
  /\ client' = "wedged"
  /\ UNCHANGED <<kind, sent, pipe, pc, buf, flag, watch, carried, polled, replies,
                 signals, faults, lag, silence>>

\* kum serve reload.  Before hot::serve installs its handler the signal's
\* default disposition ends the process (exec resets a handler to it).
Sigusr1 ==
  /\ signals < MaxSignals /\ pc \in {"registered"} \cup Loop
  /\ signals' = signals + 1
  /\ IF pc = "registered"
     THEN pc' = "killed" /\ UNCHANGED flag
     ELSE flag' = TRUE /\ UNCHANGED pc
  /\ UNCHANGED <<kind, sent, client, pipe, buf, watch, carried, polled, replies,
                 faults, lag, silence>>

\* A tick is far longer than the 200 ms of a poll: the running loop comes
\* round to its poll between two ticks.
Tick ==
  /\ pc \in Running
  /\ pc \in Loop => polled
  /\ idle' = AtMost(idle + 1, IdleFor)
  /\ ping' = IF ping = NoPing THEN NoPing ELSE AtMost(ping + 1, PingWait)
  /\ polled' = FALSE
  /\ lag' = IF pipe = <<>> THEN 0 ELSE AtMost(lag + 1, 2)
  /\ silence' = AtMost(silence + 1, Unresponsive)
  /\ UNCHANGED <<outside, pipe, pc, buf, flag, tries, carried, replies, faults>>

-----------------------------------------------------------------------------
(* The process. *)

(* Mutant of Boot: the residue does not cross. *)
BootForgets ==
  /\ pc = "boot"
  /\ pc' = "registered"
  /\ buf' = <<>> /\ carried' = NoResidue
  /\ UNCHANGED <<outside, pipe, flag, watch, polled, replies, faults, lag, silence>>

\* serve, to its presence record: the stores opened, the state file of the
\* predecessor consumed exactly once.
Boot ==
  /\ pc = "boot"
  /\ pc' = "registered"
  /\ buf' = IF carried = NoResidue THEN <<>> ELSE carried
  /\ carried' = NoResidue
  /\ UNCHANGED <<outside, pipe, flag, watch, polled, replies, faults, lag, silence>>

BootFails ==
  /\ pc = "boot" /\ Fails
  /\ pc' = "error"
  /\ UNCHANGED <<outside, pipe, buf, flag, watch, carried, polled, replies, lag, silence>>

Install ==
  /\ pc = "registered"
  /\ pc' = "drain" /\ flag' = FALSE
  /\ idle' = 0 /\ ping' = NoPing /\ tries' = 0
  /\ UNCHANGED <<outside, pipe, buf, carried, polled, replies, faults, lag, silence>>

Newline(i) == i \in DOMAIN buf /\ buf[i] % 2 = 0
HasLine == \E i \in DOMAIN buf : Newline(i)
(* Mutant of LineEnd: what ends in the last newline is taken for one line. *)
LastLineEnd == CHOOSE i \in DOMAIN buf : Newline(i) /\ \A j \in i + 1 .. Len(buf) : ~Newline(j)

LineEnd == CHOOSE i \in DOMAIN buf : Newline(i) /\ \A j \in 1 .. i - 1 : ~Newline(j)

\* Bytes that are not one whole line of the client's do not parse.
LineOf(bytes) == IF \E n \in 1 .. MaxLines : bytes = <<2 * n - 1, 2 * n>>
                 THEN Last(bytes) \div 2 ELSE 0
Replied(line) == IF line = 0 THEN TRUE ELSE Answered(kind[line])

Drain ==
  /\ pc = "drain" /\ HasLine
  /\ LET line == LineOf(SubSeq(buf, 1, LineEnd))
         answered == Replied(line) IN
       /\ buf' = SubSeq(buf, LineEnd + 1, Len(buf))
       /\ \/ replies' = (IF answered THEN Append(replies, line) ELSE replies)
             /\ UNCHANGED <<pc, faults>>
          \/ answered /\ client = "hungup" /\ Fails
             /\ pc' = "error" /\ UNCHANGED replies
  /\ UNCHANGED <<outside, pipe, flag, watch, carried, polled, lag, silence>>

\* RELOAD.swap: reload writes the state file, then execs.  The image is
\* replaced: what it held in memory is gone, the pipe is not.
Reexec ==
  /\ pc = "drain" /\ ~HasLine /\ flag
  /\ pc' = "boot" /\ carried' = buf
  /\ buf' = <<>> /\ flag' = FALSE
  /\ idle' = 0 /\ ping' = NoPing /\ tries' = 0
  /\ UNCHANGED <<outside, pipe, polled, replies, faults, lag, silence>>

\* The exec failed: the session continues on this binary.
ReloadFails ==
  /\ pc = "drain" /\ ~HasLine /\ flag /\ Fails
  /\ pc' = "watch" /\ flag' = FALSE
  /\ UNCHANGED <<outside, pipe, buf, watch, carried, polled, replies, lag, silence>>

Drained ==
  /\ pc = "drain" /\ ~HasLine /\ ~flag
  /\ pc' = "watch"
  /\ UNCHANGED <<outside, pipe, buf, flag, watch, carried, polled, replies, faults,
                 lag, silence>>

PingDue == ping = NoPing /\ idle >= IdleFor
PingLate == ping # NoPing /\ ping >= PingWait

\* The wedged-client watchdog.
SendPing ==
  /\ pc = "watch" /\ IdleFor > 0 /\ PingDue
  /\ \/ pc' = "poll" /\ ping' = 0 /\ tries' = tries + 1 /\ UNCHANGED faults
     \/ client = "hungup" /\ Fails /\ pc' = "error" /\ UNCHANGED <<ping, tries>>
  /\ UNCHANGED <<outside, pipe, buf, flag, idle, carried, polled, replies, lag, silence>>

(* Mutant of Retry: the retry starts a whole idle period and a new count. *)
RetryForever ==
  /\ pc = "watch" /\ IdleFor > 0 /\ PingLate /\ tries < 2
  /\ pc' = "poll" /\ ping' = NoPing /\ idle' = 0 /\ tries' = 0
  /\ UNCHANGED <<outside, pipe, buf, flag, carried, polled, replies, faults,
                 lag, silence>>

Retry ==
  /\ pc = "watch" /\ IdleFor > 0 /\ PingLate /\ tries < 2
  /\ pc' = "poll" /\ ping' = NoPing /\ idle' = IdleFor
  /\ UNCHANGED <<outside, pipe, buf, flag, tries, carried, polled, replies, faults,
                 lag, silence>>

ShutDown ==
  /\ pc = "watch" /\ IdleFor > 0 /\ PingLate /\ tries >= 2
  /\ pc' = "shut"
  /\ UNCHANGED <<outside, pipe, buf, flag, watch, carried, polled, replies, faults,
                 lag, silence>>

Patient ==
  /\ pc = "watch" /\ (IdleFor = 0 \/ ~(PingDue \/ PingLate))
  /\ pc' = "poll"
  /\ UNCHANGED <<outside, pipe, buf, flag, watch, carried, polled, replies, faults,
                 lag, silence>>

\* poll timed out, or a signal interrupted it: it looks at the input first.
PollEmpty ==
  /\ pc = "poll" /\ pipe = <<>> /\ client # "hungup"
  /\ pc' = "drain" /\ polled' = TRUE
  /\ UNCHANGED <<outside, pipe, buf, flag, watch, carried, replies, faults, lag, silence>>

(* Mutant of Read: traffic clears the ping and not the count of tries. *)
ReadKeepsTries ==
  /\ pc = "poll" /\ pipe # <<>>
  /\ \E n \in 1 .. Len(pipe) :
       /\ buf' = buf \o SubSeq(pipe, 1, n)
       /\ pipe' = SubSeq(pipe, n + 1, Len(pipe))
  /\ pc' = "drain" /\ polled' = TRUE
  /\ idle' = 0 /\ ping' = NoPing /\ UNCHANGED tries
  /\ lag' = 0 /\ silence' = 0
  /\ UNCHANGED <<outside, flag, carried, replies, faults>>

\* A chunk ends anywhere: any traffic resets the watchdog.
Read ==
  /\ pc = "poll" /\ pipe # <<>>
  /\ \E n \in 1 .. Len(pipe) :
       /\ buf' = buf \o SubSeq(pipe, 1, n)
       /\ pipe' = SubSeq(pipe, n + 1, Len(pipe))
  /\ pc' = "drain" /\ polled' = TRUE
  /\ idle' = 0 /\ ping' = NoPing /\ tries' = 0
  /\ lag' = 0 /\ silence' = 0
  /\ UNCHANGED <<outside, flag, carried, replies, faults>>

Eof ==
  /\ pc = "poll" /\ pipe = <<>> /\ client = "hungup"
  /\ pc' = "eof"
  /\ UNCHANGED <<outside, pipe, buf, flag, watch, carried, polled, replies, faults,
                 lag, silence>>

Server ==
  Boot \/ Install \/ Drain \/ Drained \/ Reexec \/ SendPing \/ Retry
  \/ ShutDown \/ Patient \/ PollEmpty \/ Read \/ Eof

HotNext == Server \/ BootFails \/ ReloadFails \/ ClientWrites \/ HangUp \/ Wedge \/ Sigusr1 \/ Tick

HotSpec == HotInit /\ [][HotNext]_hotvars

\* The process keeps running, and time passes; a client, an operator and a
\* failure owe nothing.
Fairness == WF_hotvars(Server) /\ WF_hotvars(Tick)
HotFairSpec == HotSpec /\ Fairness

-----------------------------------------------------------------------------
(* Properties. *)

Pieces == 1 .. 2 * MaxLines

HotTypeOK ==
  /\ kind \in [1 .. MaxLines -> LineKind] /\ sent \in 0 .. 2 * MaxLines
  /\ pipe \in Seq(Pieces) /\ buf \in Seq(Pieces)
  /\ client \in {"here", "wedged", "hungup"} /\ pc \in Running \cup Gone
  /\ flag \in BOOLEAN /\ polled \in BOOLEAN
  /\ idle \in 0 .. IdleFor /\ ping \in {NoPing} \cup 0 .. PingWait /\ tries \in 0 .. 2
  /\ carried \in {NoResidue} \cup Seq(Pieces)
  /\ replies \in Seq(0 .. MaxLines)
  /\ signals \in 0 .. MaxSignals /\ faults \in 0 .. MaxFaults
  /\ lag \in 0 .. 2 /\ silence \in 0 .. Unresponsive

\* The lines among the first n pieces that ask for an answer, in order.
Asked(n) ==
  LET A[i \in 0 .. MaxLines] ==
        IF i = 0 THEN <<>>
        ELSE IF Answered(kind[i]) THEN Append(A[i-1], i) ELSE A[i-1]
  IN  A[n \div 2]

\* What the process holds and has not handled, wherever a reload put it.
Held == (IF carried # NoResidue /\ pc = "boot" THEN carried ELSE buf) \o pipe

\* rpc.rs:249-262, 329-338.  Across any number of reloads, failed execs and
\* reads that split a line, the client's lines are answered once each, in
\* the order written: what is answered is exactly what is no longer held,
\* and the bytes still held are the rest of what the client wrote.
NothingLostOrRepeated ==
  pc \in Running \cup {"eof", "shut"} =>
    /\ Held = [i \in 1 .. Len(Held) |-> sent - Len(Held) + i]
    /\ replies = Asked(sent - Len(Held))

\* rpc.rs:249-250: "a reload must never jump the queue past a received
\* request": no complete line crosses an exec in the state file.
ReloadWaitsItsTurn ==
  carried # NoResidue => \A i \in DOMAIN carried : carried[i] % 2 # 0

\* rpc.rs:249-262.  Both: a reload neither loses, repeats, reorders nor
\* overtakes what the client wrote.
ReloadKeepsTheLines == NothingLostOrRepeated /\ ReloadWaitsItsTurn

\* rpc.rs:273-306.  The watchdog ends a session only after a whole idle
\* period and two whole ping waits in which nothing was read, and never over
\* bytes that waited for a whole tick: a client that answers either ping in
\* time keeps its session, however its lines and the reloads fall.
WatchdogSparesTheLively ==
  pc = "shut" => silence >= Unresponsive /\ lag <= 1

\* rpc.rs:249-262.  A request that was written is answered, unless the
\* process fails, is killed, or gives its client up with the bytes unread:
\* no reload, ping, hang-up or split read starves it.
EveryRequestAnswered ==
  \A n \in 1 .. MaxLines :
    (sent >= 2 * n /\ Answered(kind[n])) ~>
      \/ n \in Range(replies)
      \/ pc \in {"error", "killed"}
      \/ pc = "shut" /\ pipe # <<>>

\* rpc.rs:273-306.  With the watchdog on, a client that stays connected and
\* never writes again is let go of, so its presence record goes too.
WedgedClientIsLetGo == (client = "wedged") ~> (pc \in Gone)

=============================================================================
