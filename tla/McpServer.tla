----------------------------- MODULE McpServer -----------------------------
(***************************************************************************)
(* The Python MCP server (voice_soundboard/mcp): requests under a          *)
(* semaphore and a timeout (server.py), the tools they run (tools.py),     *)
(* the sessions and streams of the agents (sessions.py) and the tool       *)
(* policy (policy.py).                                                     *)
(*                                                                         *)
(* asyncio runs one callback at a time: a step goes from one await to the  *)
(* next.  The engine's speak has no await: while it runs, the loop runs    *)
(* nothing else, no handler and no timer.  speak, list_voices and status   *)
(* call the engine so, and "speak" stands for the three.                   *)
(***************************************************************************)
EXTENDS Naturals, Sequences, FiniteSets

CONSTANTS
  Requests,     \* calls, numbered as they arrive; a stream is named after its call
  Agents,       \* agent_id
  Policy,       \* agent -> [deny, allowAll, allow, capable]: sets of tools
  MaxRequests,  \* MCPConfig.max_concurrent_requests
  MaxStreams,   \* SessionConfig.max_concurrent_streams
  MaxStarts,    \* bound: calls of start()
  MaxLate       \* bound: chunks sent after an interrupt

ASSUME RequestsAssumption == Requests \subseteq Nat /\ IsFiniteSet(Requests)
ASSUME LimitsAssumption == MaxRequests \in Nat /\ MaxStreams \in Nat
ASSUME BoundsAssumption == MaxStarts \in Nat /\ MaxLate \in Nat

VARIABLES
  server,    \* MCPServer._state
  stops,     \* stop() tasks that wait for their turn
  semaphore, \* _request_semaphore: 0 none, n the one of the n-th start()
  calls,     \* the requests: where they are and whose permit they take
  waiters,   \* of each semaphore: those that wait for a permit, first come first
  session,   \* the session a request runs in, 0 none
  sessions,  \* session_id -> [owner, state]
  index,     \* SessionManager._agent_sessions
  stream,    \* MCPSession._streams: is it registered, is it interrupted
  late       \* history: chunks sent since the stream was interrupted

serverVars  == <<server, stops, semaphore>>
sessionVars == <<session, sessions, index>>
vars == <<serverVars, calls, waiters, sessionVars, stream, late>>

Tools == {"speak", "stream", "interrupt", "absent"}
SessionIds == 1..Cardinality(Requests)
Nobody == [owner |-> "none", state |-> "none"]

\* MCPPolicy.allows_tool: deny, then the allow list, then the capability flags,
\* which know only the tools of the server.
Allows(agent, tool) ==
  LET p == Policy[agent] IN
  /\ tool \notin p.deny
  /\ IF p.allowAll THEN tool \in p.capable \cup {"absent"} ELSE tool \in p.allow

-----------------------------------------------------------------------------
(***************************************************************************)
(* Permits.                                                                *)
(***************************************************************************)
Holding == {"begun", "speaking", "streaming"}
Holders(sem) == {r \in Requests : calls[r].pc \in Holding /\ calls[r].sem = sem}

\* _process_request: no semaphore before the first start().
Receive(r) ==
  /\ calls[r].pc = "unsent" /\ \A q \in Requests : q < r => calls[q].pc # "unsent"
  /\ LET free == semaphore = 0 \/ Cardinality(Holders(semaphore)) < MaxRequests IN
     /\ calls' = [calls EXCEPT ![r].pc = IF free THEN "begun" ELSE "waiting",
                               ![r].sem = semaphore]
     /\ waiters' = IF free THEN waiters ELSE [waiters EXCEPT ![semaphore] = Append(@, r)]
  /\ UNCHANGED <<serverVars, sessionVars, stream, late>>

\* The request leaves _execute_request with an answer: its permit passes to the
\* first waiter of the semaphore it was taken from.
Answered(r) ==
  LET sem  == calls[r].sem
      done == [calls EXCEPT ![r] = [pc |-> "done", sem |-> 0]]
  IN IF sem = 0 \/ waiters[sem] = <<>>
     THEN calls' = done /\ UNCHANGED waiters
     ELSE /\ calls' = [done EXCEPT ![Head(waiters[sem])].pc = "begun"]
          /\ waiters' = [waiters EXCEPT ![sem] = Tail(@)]

-----------------------------------------------------------------------------
(***************************************************************************)
(* Sessions.                                                               *)
(***************************************************************************)
Live == {s \in SessionIds : sessions[s].state = "active"}
Registered(s) == {r \in Requests : stream[r] # "none" /\ session[r] = s}
Fresh(s) == sessions[s] = Nobody /\ \A i \in 1..(s - 1) : sessions[i] # Nobody

\* get_or_create_session: a live session the request names, whoever owns it, or
\* else a new one of the agent.
Resolve(r, agent, s) ==
  /\ session' = [session EXCEPT ![r] = s]
  /\ \/ s \in Live /\ UNCHANGED <<sessions, index>>
     \/ /\ Fresh(s)
        /\ sessions' = [sessions EXCEPT ![s] = [owner |-> agent, state |-> "active"]]
        /\ index' = [index EXCEPT ![agent] = @ \cup {s}]

\* stream after an interrupt of the requests in R.
Interrupted(R) ==
  [r \in Requests |-> IF r \in R /\ stream[r] = "live" THEN "interrupted" ELSE stream[r]]

\* Mutant: close() only changes the state.
CloseSessions_StreamsGoOn(S) ==
  /\ sessions' = [s \in SessionIds |-> IF s \in S THEN [sessions[s] EXCEPT !.state = "closed"]
                                       ELSE sessions[s]]
  /\ index' = [a \in Agents |-> index[a] \ S]
  /\ UNCHANGED stream

\* Mutant: the entry of the agent stays.
CloseSessions_StayIndexed(S) ==
  /\ sessions' = [s \in SessionIds |-> IF s \in S THEN [sessions[s] EXCEPT !.state = "closed"]
                                       ELSE sessions[s]]
  /\ stream' = Interrupted(UNION {Registered(s) : s \in S})
  /\ UNCHANGED index

\* close_session for each session of S: its streams stop, it leaves both maps.
CloseSessions(S) ==
  /\ sessions' = [s \in SessionIds |-> IF s \in S THEN [sessions[s] EXCEPT !.state = "closed"]
                                       ELSE sessions[s]]
  /\ index' = [a \in Agents |-> index[a] \ S]
  /\ stream' = Interrupted(UNION {Registered(s) : s \in S})

\* The host closes one session, those of an agent, or all that have expired.
CloseSession == \E s \in Live : CloseSessions({s})
CloseAgentSessions == \E a \in Agents : index[a] # {} /\ CloseSessions(index[a])
CleanupExpired == \E S \in SUBSET Live \ {{}} : CloseSessions(S)
Close ==
  /\ CloseSession \/ CloseAgentSessions \/ CleanupExpired
  /\ UNCHANGED <<serverVars, calls, waiters, session, late>>

\* complete_stream: an operation of the session that no tool calls.
CompleteStream(r) ==
  /\ stream[r] # "none"
  /\ stream' = [stream EXCEPT ![r] = "none"]
  /\ UNCHANGED <<serverVars, calls, waiters, sessionVars, late>>

-----------------------------------------------------------------------------
(***************************************************************************)
(* Handlers, up to their first await or their answer.  What a request asks *)
(* for is chosen when its handler first reads it.                          *)
(***************************************************************************)
Begun(r) == calls[r].pc = "begun"
Called(r, agent, tool) == Begun(r) /\ Allows(agent, tool)

\* An unknown method, a denied tool, a tool that is not registered: no session.
Reject(r) ==
  /\ Begun(r)
  /\ Answered(r)
  /\ UNCHANGED <<serverVars, sessionVars, stream, late>>

\* _handle_shutdown: stop() runs in a task of its own.
Shutdown(r) ==
  /\ Begun(r)
  /\ stops' = stops + 1
  /\ Answered(r)
  /\ UNCHANGED <<server, semaphore, sessionVars, stream, late>>

\* SpeakTool, ListVoicesTool, StatusTool: the handler is in the engine, on the loop.
Speak(r) ==
  /\ \E agent \in Agents, s \in SessionIds : Called(r, agent, "speak") /\ Resolve(r, agent, s)
  /\ calls' = [calls EXCEPT ![r].pc = "speaking"]
  /\ UNCHANGED <<serverVars, waiters, stream, late>>

\* The loop is not inside an engine.
LoopFree == \A r \in Requests : calls[r].pc # "speaking"

\* The engine has spoken, or raised: the handler answers before anything else runs.
EngineReturns(r) ==
  /\ calls[r].pc = "speaking"
  /\ Answered(r)
  /\ UNCHANGED <<serverVars, sessionVars, stream, late>>

\* InterruptTool: one stream, if it is one of the session, or all of them.
Interrupt(r) ==
  /\ \E agent \in Agents, s \in SessionIds :
       /\ Called(r, agent, "interrupt")
       /\ Resolve(r, agent, s)
       /\ \E R \in {{q} : q \in Requests} \cup {Registered(s)} :
            stream' = Interrupted(R \cap Registered(s))
  /\ Answered(r)
  /\ UNCHANGED <<serverVars, late>>

\* StreamTool: the session has no room for another stream.
RefuseStream(r) ==
  /\ \E agent \in Agents, s \in SessionIds :
       /\ Called(r, agent, "stream")
       /\ Resolve(r, agent, s)
       /\ Cardinality(Registered(s)) >= MaxStreams
  /\ Answered(r)
  /\ UNCHANGED <<serverVars, stream, late>>

\* StreamTool: the stream is registered, and the engine asked for chunks, or, when it
\* has no stream(), for the whole on the loop.
BeginStream(r) ==
  /\ \E agent \in Agents, s \in SessionIds :
       /\ Called(r, agent, "stream")
       /\ Resolve(r, agent, s)
       /\ Cardinality(Registered(s)) < MaxStreams
  /\ stream' = [stream EXCEPT ![r] = "live"]
  /\ \E pc \in {"streaming", "speaking"} : calls' = [calls EXCEPT ![r].pc = pc]
  /\ UNCHANGED <<serverVars, waiters, late>>

-----------------------------------------------------------------------------
(***************************************************************************)
(* A stream: chunks until the engine ends, fails or the stream stops.      *)
(***************************************************************************)
IsInterrupted(r) == stream[r] # "live"

\* Mutant: a stream that is not registered any more is taken to be live.
Chunk_UnknownIsLive(r) ==
  /\ calls[r].pc = "streaming" /\ late[r] < MaxLate
  /\ late' = [late EXCEPT ![r] = IF IsInterrupted(r) THEN @ + 1 ELSE @]
  /\ IF stream[r] = "interrupted" THEN Answered(r) ELSE UNCHANGED <<calls, waiters>>
  /\ UNCHANGED <<serverVars, sessionVars, stream>>

\* One chunk, then the test for an interrupt: an unknown stream counts as one.
Chunk(r) ==
  /\ calls[r].pc = "streaming" /\ late[r] < MaxLate
  /\ late' = [late EXCEPT ![r] = IF IsInterrupted(r) THEN @ + 1 ELSE @]
  /\ IF IsInterrupted(r) THEN Answered(r) ELSE UNCHANGED <<calls, waiters>>
  /\ UNCHANGED <<serverVars, sessionVars, stream>>

\* The engine has no more chunks, or fails.  Nobody completes the stream.
EndStream(r) ==
  /\ calls[r].pc = "streaming"
  /\ Answered(r)
  /\ UNCHANGED <<serverVars, sessionVars, stream, late>>

\* Mutant: the cancelled request does not leave the semaphore.
Timeout_KeepsPermit(r) ==
  /\ calls[r].pc = "streaming"
  /\ calls' = [calls EXCEPT ![r] = [pc |-> "done", sem |-> 0]]
  /\ UNCHANGED <<waiters, serverVars, sessionVars, stream, late>>

\* Mutant: the limit is on the time that a stream takes to stop.
Timeout_StoppedOnly(r) ==
  /\ calls[r].pc = "streaming" /\ IsInterrupted(r)
  /\ Answered(r)
  /\ UNCHANGED <<serverVars, sessionVars, stream, late>>

\* wait_for: the handler is cancelled, the stream stays as it is.
Timeout(r) ==
  /\ calls[r].pc = "streaming"
  /\ Answered(r)
  /\ UNCHANGED <<serverVars, sessionVars, stream, late>>

-----------------------------------------------------------------------------
(***************************************************************************)
(* start() and stop(); their listeners are functions without an await.     *)
(***************************************************************************)
Start ==
  /\ server \in {"initializing", "stopped"} /\ semaphore < MaxStarts
  /\ server' = "running"
  /\ semaphore' = semaphore + 1
  /\ UNCHANGED <<stops, calls, waiters, sessionVars, stream, late>>

\* stop(): the requests in progress are named in the log and go on.
Stop ==
  /\ stops > 0
  /\ stops' = stops - 1
  /\ server' = "stopped"
  /\ UNCHANGED <<semaphore, calls, waiters, sessionVars, stream, late>>

-----------------------------------------------------------------------------
Handler(r) ==
  Reject(r) \/ Shutdown(r) \/ Speak(r) \/ Interrupt(r) \/ RefuseStream(r) \/ BeginStream(r)

Init ==
  /\ server = "initializing" /\ stops = 0 /\ semaphore = 0
  /\ calls = [r \in Requests |-> [pc |-> "unsent", sem |-> 0]]
  /\ waiters = [sem \in 1..MaxStarts |-> <<>>]
  /\ session = [r \in Requests |-> 0]
  /\ sessions = [s \in SessionIds |-> Nobody]
  /\ index = [a \in Agents |-> {}]
  /\ stream = [r \in Requests |-> "none"]
  /\ late = [r \in Requests |-> 0]

LoopStep ==
  \/ Start \/ Stop \/ Close
  \/ \E r \in Requests : \/ Receive(r) \/ Handler(r) \/ Chunk(r) \/ EndStream(r)
                         \/ Timeout(r) \/ CompleteStream(r)

Next == (LoopFree /\ LoopStep) \/ \E r \in Requests : EngineReturns(r)

\* The event loop, when it is free, runs what is due: handlers and timers.  Nothing is
\* assumed of an engine, which may stop sending chunks, or never come back from speak().
Fairness ==
  \A r \in Requests : WF_vars(LoopFree /\ Handler(r)) /\ WF_vars(LoopFree /\ Timeout(r))

Spec     == Init /\ [][Next]_vars
FairSpec == Spec /\ Fairness

-----------------------------------------------------------------------------
(***************************************************************************)
(* What the server promises.                                               *)
(***************************************************************************)
\* Type invariant.
TypeOK ==
  /\ server \in {"initializing", "running", "stopped"}
  /\ stops \in 0..Cardinality(Requests)
  /\ semaphore \in 0..MaxStarts
  /\ calls \in [Requests -> [pc : {"unsent", "waiting", "done"} \cup Holding,
                             sem : 0..MaxStarts]]
  /\ waiters \in [1..MaxStarts -> Seq(Requests)]
  /\ session \in [Requests -> {0} \cup SessionIds]
  /\ sessions \in [SessionIds -> {Nobody} \cup [owner : Agents, state : {"active", "closed"}]]
  /\ index \in [Agents -> SUBSET SessionIds]
  /\ stream \in [Requests -> {"none", "live", "interrupted"}]
  /\ late \in [Requests -> 0..MaxLate]

\* A stream that is interrupted, completed or whose session is closed sends at
\* most one more chunk, and no stream of a closed session is left running.
StopsAreHeard ==
  \A r \in Requests :
    /\ late[r] <= 1
    /\ session[r] \in SessionIds \ Live => stream[r] # "live"

\* The two maps of the session manager agree: each live session is indexed under
\* its owner, and under nobody else.
SessionsIndexed == \A a \in Agents : index[a] = {s \in Live : sessions[s].owner = a}

\* No permit is lost: of each semaphore at most MaxRequests are out, and all are
\* when somebody waits for one.
PermitsAccounted ==
  \A sem \in 1..MaxStarts :
    /\ Cardinality(Holders(sem)) <= MaxRequests
    /\ waiters[sem] # <<>> => Cardinality(Holders(sem)) = MaxRequests

\* A session has no more streams than SessionConfig allows, whoever registers them.
StreamsLimited == \A s \in SessionIds : Cardinality(Registered(s)) <= MaxStreams

\* Every request is answered, even when streams hang, sessions close, and the server
\* stops or starts again in between, provided that an engine comes back from each call
\* of its blocking speak(): while it does not, the loop is held and no time limit is
\* kept (tools.py:250, :363; the timer of server.py:393 is one of the loop's).
EnginesReturn == \A r \in Requests : WF_vars(EngineReturns(r))
EveryCallAnswered ==
  EnginesReturn =>
    \A r \in Requests : calls[r].pc \in {"waiting", "begun"} ~> calls[r].pc = "done"
=============================================================================
