--------------------------- MODULE PythonBackend ---------------------------
(***************************************************************************)
(* The Python backend of the MCP server: a child process that answers      *)
(* NDJSON requests in order, spawned by whoever needs it first             *)
(* (mcp-server/src/backends/pythonBackend.ts and                           *)
(* backend-python/soundboard_bridge/__main__.py).                          *)
(*                                                                         *)
(* One PythonBackend object outlives its child processes, whose events     *)
(* (output, exit, failure to spawn) come in any order relative to timers   *)
(* and to new calls.  Every handler runs to its end before the next.       *)
(*                                                                         *)
(* this.proc.killed is left out: only kill() sets it, and kill() sets      *)
(* this.proc to null at once.  Bytes written to a dead process are lost.   *)
(***************************************************************************)
EXTENDS Naturals, Sequences, FiniteSets

CONSTANTS
  Calls,      \* calls of health() and synthesize()
  MaxSpawns,  \* bound: processes spawned
  Faults      \* what may go wrong, of the set below

ASSUME CallsAssumption == Calls # {}
ASSUME MaxSpawnsAssumption == MaxSpawns \in Nat
ASSUME FaultsAssumption ==
  Faults \subseteq {"slow_start",   \* a start takes more than 10 s
                    "no_spawn",     \* the executable cannot be started
                    "crash",        \* the process dies
                    "torn_line"}    \* ... in the middle of a line of output

Procs == 1..MaxSpawns

VARIABLES
  proc,      \* this.proc: the process in use, 0 for null
  spawned,   \* processes spawned so far
  life,      \* of each process: "none", "absent" (spawn failed), "up", "dead"
             \* (exit event to come), "gone"
  killed,    \* processes kill() was called on
  stdin,     \* of each process: the requests it has not read
  stdout,    \* of each process: the output Node has not read
  torn,      \* does this.buffer hold the start of a line
  ready,     \* this._ready
  pending,   \* keys of this.pending
  starting,  \* processes whose 10 s start timer is armed
  starter,   \* of each process: the call that spawned it
  stage,     \* of each call: "idle", "starting", "sent", "done"
  answer     \* of each call: how its promise was settled

pipes == <<stdin, stdout>>
calls == <<stage, answer>>
vars == <<proc, spawned, life, killed, pipes, torn, ready, pending, starting, starter, calls>>

StartOf(p) == <<"start", p>>
CallOf(c)  == <<"call", c>>

-----------------------------------------------------------------------------
(***************************************************************************)
(* Calls.                                                                  *)
(***************************************************************************)
\* Mutant: the promise is given up, not rejected.
Fail_Silently(c, why) ==
  /\ stage' = [stage EXCEPT ![c] = "done"]
  /\ UNCHANGED answer

Fail(c, why) ==
  /\ stage' = [stage EXCEPT ![c] = "done"]
  /\ answer' = [answer EXCEPT ![c] = why]

\* send(), with the entries of pending in rest.
SendWith(rest, c) ==
  IF proc = 0
  THEN pending' = rest /\ Fail(c, "not_running") /\ UNCHANGED stdin
  ELSE /\ pending' = rest \cup {CallOf(c)}
       /\ stdin' = IF life[proc] = "up" THEN [stdin EXCEPT ![proc] = Append(@, CallOf(c))]
                                        ELSE stdin
       /\ stage' = [stage EXCEPT ![c] = "sent"]
       /\ UNCHANGED answer

\* ensureProcess() finds a process, or one that is starting: send() at once.
CallWithProcess(c) ==
  /\ stage[c] = "idle" /\ proc # 0
  /\ SendWith(pending, c)
  /\ UNCHANGED <<proc, spawned, life, killed, stdout, torn, ready, starting, starter>>

\* Mutant: it looks whether a process is ready, not whether there is one.
Spawn_UntilReady(c) ==
  LET p == spawned + 1 IN
  /\ stage[c] = "idle" /\ ~ready
  /\ spawned < MaxSpawns
  /\ proc' = p /\ spawned' = p
  /\ pending' = pending \cup {StartOf(p)}
  /\ starter' = [starter EXCEPT ![p] = c]
  /\ UNCHANGED <<killed, stdout, torn>>

Spawn(c) ==
  LET p == spawned + 1 IN
  /\ stage[c] = "idle" /\ proc = 0
  /\ spawned < MaxSpawns
  /\ proc' = p /\ spawned' = p
  /\ pending' = pending \cup {StartOf(p)}
  /\ starter' = [starter EXCEPT ![p] = c]
  /\ UNCHANGED <<killed, stdout, torn>>

\* ensureProcess() spawns a process and sends it a health check.
CallSpawns(c) ==
  /\ Spawn(c)
  /\ life' = [life EXCEPT ![proc'] = "up"]
  /\ stdin' = [stdin EXCEPT ![proc'] = <<StartOf(proc')>>]
  /\ starting' = starting \cup {proc'}
  /\ stage' = [stage EXCEPT ![c] = "starting"]
  /\ UNCHANGED <<ready, answer>>

\* ... which cannot be started: the 'error' event follows at once.
CallSpawnFails(c) ==
  /\ "no_spawn" \in Faults
  /\ Spawn(c)
  /\ life' = [life EXCEPT ![proc'] = "absent"]
  /\ ready' = FALSE
  /\ Fail(c, "unreachable")
  /\ UNCHANGED <<stdin, starting>>

\* voice_speak and voice_dialogue look at backend.ready first.
SpeakNotReady(c) ==
  /\ stage[c] = "idle" /\ ~ready
  /\ Fail(c, "not_ready")
  /\ UNCHANGED <<proc, spawned, life, killed, pipes, torn, ready, pending, starting, starter>>

-----------------------------------------------------------------------------
(***************************************************************************)
(* The bridge process.                                                     *)
(***************************************************************************)
\* The main loop: one request after the other, each answered, well or not.
Serve(p) ==
  /\ life[p] = "up" /\ stdin[p] # <<>>
  /\ stdin' = [stdin EXCEPT ![p] = Tail(@)]
  /\ \E ok \in BOOLEAN :
       stdout' = [stdout EXCEPT ![p] = Append(@, [key |-> Head(stdin[p]), ok |-> ok])]
  /\ UNCHANGED <<proc, spawned, life, killed, torn, ready, pending, starting, starter, calls>>

TornLine == [key |-> <<"torn", 0>>, ok |-> FALSE]

\* The process ends: by itself, or because of kill(); perhaps while it writes.
Die(p) ==
  /\ life[p] = "up"
  /\ "crash" \in Faults \/ p \in killed
  /\ life' = [life EXCEPT ![p] = "dead"]
  /\ \/ UNCHANGED stdout
     \/ /\ "torn_line" \in Faults /\ stdin[p] # <<>>
        /\ stdout' = [stdout EXCEPT ![p] = Append(@, TornLine)]
  /\ stdin' = [stdin EXCEPT ![p] = <<>>]
  /\ UNCHANGED <<proc, spawned, killed, torn, ready, pending, starting, starter, calls>>

-----------------------------------------------------------------------------
(***************************************************************************)
(* Events.                                                                 *)
(***************************************************************************)
NextLine(p, key) == stdout[p] # <<>> /\ Head(stdout[p]).key = key
Consume(p) == stdout' = [stdout EXCEPT ![p] = Tail(@)]

\* 'data' ends in a part of a line: it stays in the buffer.
ReadTorn(p) ==
  /\ NextLine(p, TornLine.key)
  /\ Consume(p)
  /\ torn' = TRUE
  /\ UNCHANGED <<proc, spawned, life, killed, stdin, ready, pending, starting, starter, calls>>

\* A line that is malformed, because it continues one that was torn, or that
\* nobody waits for any more.
ReadSkipped(p) ==
  /\ stdout[p] # <<>> /\ Head(stdout[p]) # TornLine
  /\ torn \/ Head(stdout[p]).key \notin pending
  /\ Consume(p)
  /\ torn' = FALSE
  /\ UNCHANGED <<proc, spawned, life, killed, stdin, ready, pending, starting, starter, calls>>

\* The reply to a call.
ReadReply(p) ==
  \E c \in Calls :
    /\ ~torn /\ NextLine(p, CallOf(c)) /\ CallOf(c) \in pending
    /\ Consume(p)
    /\ pending' = pending \ {CallOf(c)}
    /\ Fail(c, IF Head(stdout[p]).ok THEN "ok" ELSE "failed")
    /\ UNCHANGED <<proc, spawned, life, killed, stdin, torn, ready, starting, starter>>

\* The reply, good or bad, to the health check of a start: the call that spawned
\* the process, unless it was rejected meanwhile, sends its own request.
ReadStarted(p) ==
  \E q \in Procs :
    /\ ~torn /\ NextLine(p, StartOf(q)) /\ StartOf(q) \in pending
    /\ Consume(p)
    /\ starting' = starting \ {q}
    /\ ready' = TRUE
    /\ IF stage[starter[q]] = "starting"
       THEN SendWith(pending \ {StartOf(q)}, starter[q])
       ELSE pending' = pending \ {StartOf(q)} /\ UNCHANGED <<stdin, calls>>
    /\ UNCHANGED <<proc, spawned, life, killed, torn, starter>>

\* The calls whose entries in pending are rejected.
Rejected == {c \in Calls : CallOf(c) \in pending}
  \cup {c \in Calls : \E p \in Procs :
          StartOf(p) \in pending /\ starter[p] = c /\ stage[c] = "starting"}

\* Mutant: ready survives the process.
Exit_StaysReady(p) ==
  /\ life[p] = "dead"
  /\ life' = [life EXCEPT ![p] = "gone"]
  /\ stage' = [c \in Calls |-> IF c \in Rejected THEN "done" ELSE stage[c]]
  /\ answer' = [c \in Calls |-> IF c \in Rejected THEN "exited" ELSE answer[c]]
  /\ starting' = {q \in starting : StartOf(q) \notin pending}
  /\ pending' = {}
  /\ proc' = 0
  /\ UNCHANGED <<spawned, killed, pipes, torn, ready, starter>>

\* Mutant: the calls sent to the process are left to their timers.
Exit_RejectsStartOnly(p) ==
  /\ life[p] = "dead"
  /\ life' = [life EXCEPT ![p] = "gone"]
  /\ ready' = FALSE
  /\ stage' = [c \in Calls |-> IF c \in {starter[q] : q \in starting} THEN "done" ELSE stage[c]]
  /\ answer' = [c \in Calls |-> IF c \in {starter[q] : q \in starting} THEN "exited" ELSE answer[c]]
  /\ starting' = {}
  /\ pending' = {}
  /\ proc' = 0
  /\ UNCHANGED <<spawned, killed, pipes, torn, starter>>

\* 'exit' of any process ever spawned: every pending request is rejected, and no
\* process is in use.
Exit(p) ==
  /\ life[p] = "dead"
  /\ life' = [life EXCEPT ![p] = "gone"]
  /\ ready' = FALSE
  /\ stage' = [c \in Calls |-> IF c \in Rejected THEN "done" ELSE stage[c]]
  /\ answer' = [c \in Calls |-> IF c \in Rejected THEN "exited" ELSE answer[c]]
  /\ starting' = {q \in starting : StartOf(q) \notin pending}
  /\ pending' = {}
  /\ proc' = 0
  /\ UNCHANGED <<spawned, killed, pipes, torn, starter>>

\* The timer of a request.
RequestTimeout(c) ==
  /\ CallOf(c) \in pending
  /\ pending' = pending \ {CallOf(c)}
  /\ Fail(c, "timeout")
  /\ UNCHANGED <<proc, spawned, life, killed, pipes, torn, ready, starting, starter>>

\* Mutant: nobody tells the caller.
StartTimeout_KillsOnly(p) ==
  /\ "slow_start" \in Faults
  /\ p \in starting
  /\ starting' = starting \ {p}
  /\ killed' = killed \cup ({proc} \ {0})
  /\ proc' = 0
  /\ ready' = FALSE
  /\ UNCHANGED <<spawned, life, pipes, torn, pending, starter, calls>>

\* The 10 s timer of a start: reject the caller, kill the process in use.  Its
\* entry stays in pending.
StartTimeout(p) ==
  /\ "slow_start" \in Faults
  /\ p \in starting
  /\ starting' = starting \ {p}
  /\ Fail(starter[p], "start_timeout")
  /\ killed' = killed \cup ({proc} \ {0})
  /\ proc' = 0
  /\ ready' = FALSE
  /\ UNCHANGED <<spawned, life, pipes, torn, pending, starter>>

-----------------------------------------------------------------------------
Init ==
  /\ proc = 0 /\ spawned = 0 /\ killed = {} /\ starting = {} /\ pending = {}
  /\ life = [p \in Procs |-> "none"]
  /\ stdin = [p \in Procs |-> <<>>]
  /\ stdout = [p \in Procs |-> <<>>]
  /\ torn = FALSE /\ ready = FALSE
  /\ starter = [p \in Procs |-> CHOOSE c \in Calls : TRUE]  \* read only once set
  /\ stage = [c \in Calls |-> "idle"]
  /\ answer = [c \in Calls |-> "none"]

Call(c)   == CallWithProcess(c) \/ CallSpawns(c) \/ CallSpawnFails(c) \/ SpeakNotReady(c)
Bridge(p) == Serve(p) \/ Die(p)
Read(p)   == ReadTorn(p) \/ ReadSkipped(p) \/ ReadReply(p) \/ ReadStarted(p)

Next ==
  \/ \E c \in Calls : Call(c) \/ RequestTimeout(c)
  \/ \E p \in Procs : Bridge(p) \/ Read(p) \/ Exit(p) \/ StartTimeout(p)

\* Timers fire and exit events arrive; a bridge may never answer.
Fairness ==
  /\ \A c \in Calls : WF_vars(RequestTimeout(c))
  /\ \A p \in Procs : WF_vars(Exit(p)) /\ WF_vars(StartTimeout(p))

Spec     == Init /\ [][Next]_vars
FairSpec == Spec /\ Fairness

-----------------------------------------------------------------------------
(***************************************************************************)
(* What the backend promises.                                              *)
(***************************************************************************)
Key == {StartOf(p) : p \in Procs} \cup {CallOf(c) : c \in Calls}

\* Type invariant; a call is settled when it is over, and not before.
TypeOK ==
  /\ \A c \in Calls : stage[c] = "done" <=> answer[c] # "none"
  /\ proc \in 0..spawned /\ spawned \in 0..MaxSpawns
  /\ life \in [Procs -> {"none", "absent", "up", "dead", "gone"}]
  /\ killed \subseteq Procs /\ starting \subseteq Procs /\ pending \subseteq Key
  /\ stdin \in [Procs -> Seq(Key)]
  /\ stdout \in [Procs -> Seq([key : Key \cup {TornLine.key}, ok : BOOLEAN])]
  /\ torn \in BOOLEAN /\ ready \in BOOLEAN
  /\ starter \in [Procs -> Calls]
  /\ stage \in [Calls -> {"idle", "starting", "sent", "done"}]
  /\ answer \in [Calls -> {"none", "not_ready", "unreachable", "not_running", "exited",
                           "timeout", "start_timeout", "ok", "failed"}]

\* Whoever waits has an entry in pending, hence a timer, and only they do: no call
\* is dropped by an exit, a late reply or a spawn that another call made.
AwaitedIsPending ==
  \A c \in Calls :
    /\ stage[c] = "sent" <=> CallOf(c) \in pending
    /\ stage[c] = "starting" <=>
         \E p \in starting : starter[p] = c /\ StartOf(p) \in pending

\* Unless a start was given up: voice_speak is let through exactly while a started
\* process is in use, and while one is in use that is not, somebody is starting it.
ReadyMeansStarted ==
  killed = {} /\ (proc # 0 => life[proc] # "absent") =>
    (ready <=> proc # 0 /\ proc \notin starting)

\* A start timer kills this.proc, whatever it is by then: it is the process whose
\* start it times.  Unless a start was given up, any process that runs is the one
\* in use.
OwnedUnlessKilled ==
  /\ \A p \in starting : proc = p
  /\ killed = {} => \A p \in Procs : life[p] = "up" => proc = p

\* pythonBackend.ts: ready means a started process in use, and any process that runs is
\* the one in use, unless a start was given up.
ProcessInUse == ReadyMeansStarted /\ OwnedUnlessKilled

\* Every call is answered, whatever the bridge does.
EveryCallAnswered == \A c \in Calls : stage[c] \in {"starting", "sent"} ~> stage[c] = "done"

\* kill(), "Kill the Python process", and the exit of the process it killed leave no
\* other process running that this.proc has forgotten.
NoOrphan == \A p \in Procs : life[p] = "up" => proc = p \/ p \in killed
=============================================================================
