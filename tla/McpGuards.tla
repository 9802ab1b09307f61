----------------------------- MODULE McpGuards ------------------------------
(***************************************************************************)
(* What guards the streams and the calls of the Python MCP server: the     *)
(* interrupt handler and the policy enforcer.                              *)
(***************************************************************************)
EXTENDS Integers, Sequences, SequencesExt, FiniteSets, FiniteSetsExt

(***************************************************************************)
(* InterruptHandler (voice_soundboard/mcp/interrupts.py): the streams that *)
(* play, how far each is, and the points it can be taken back to. Times    *)
(* are in ticks of the caller's choice.                                    *)
(***************************************************************************)
CONSTANTS
  Streams, Sessions,
  MaxPosition,  \* bound: the longest stream
  MinPlayed,    \* min_audio_before_interrupt_ms
  Interval,     \* a point per second: 1000 ms
  MaxRollback,  \* max_rollback_ms
  Rollback      \* enable_rollback

VARIABLES
  playing,  \* _active_streams: the streams it has
  info,     \* what it says of a stream: [position, interruptible, session]
  points    \* _rollback_points: the positions, the oldest first

ASSUME InterruptAssumption == MaxPosition \in Nat /\ Interval \in Int /\ MaxRollback \in Nat

interruptVars == <<playing, info, points>>

NoSession == "none"
Unknown == [position |-> 0, interruptible |-> FALSE, session |-> NoSession]

-----------------------------------------------------------------------------
\* Registering a stream that is playing starts it again.
Register(s) ==
  /\ playing' = playing \cup {s}
  /\ \E may \in BOOLEAN, session \in Sessions \cup {NoSession} :
       info' = [info EXCEPT ![s] = [position |-> 0, interruptible |-> may, session |-> session]]
  /\ points' = IF Rollback THEN [points EXCEPT ![s] = <<>>] ELSE points

\* The points without the first k of them: those that are too old for a point at p.
Trimmed(ps, p) ==
  {SubSeq(ps, k + 1, Len(ps)) :
     k \in {k \in 0..Len(ps) : /\ \A i \in 1..k : ps[i] < p - MaxRollback
                               /\ k < Len(ps) => ps[k + 1] >= p - MaxRollback}}

\* Mutant: a point per call.
Marked_Always(ps, p) == Trimmed(Append(ps, p), p)

\* The points after an update to p: a new one after each interval, and then those
\* too old for it go, from the front, up to the first that is not.
Marked(ps, p) ==
  IF ps = <<>> \/ p - Last(ps) >= Interval THEN Trimmed(Append(ps, p), p) ELSE {ps}

\* The player tells where it is: further on, or, after a rollback, further back;
\* with or without the place in the text.
Update(s, p, text) ==
  /\ s \in playing
  /\ info' = [info EXCEPT ![s].position = p]
  /\ IF Rollback /\ text
     THEN \E marked \in Marked(points[s], p) : points' = [points EXCEPT ![s] = marked]
     ELSE UNCHANGED points
  /\ UNCHANGED playing

CanInterrupt(s) == s \in playing /\ info[s].interruptible /\ info[s].position >= MinPlayed

Forget(gone) ==
  /\ playing' = playing \ gone
  /\ info' = [s \in Streams |-> IF s \in gone THEN Unknown ELSE info[s]]
  /\ points' = [s \in Streams |-> IF s \in gone THEN <<>> ELSE points[s]]

\* interrupt(): it does not ask can_interrupt().  The session, when there is one, is
\* told first, and raises for a stream it does not know: then nothing else happens.
InterruptStream(s) == s \in playing /\ Forget({s})

InterruptAll(session) ==
  LET hit == {s \in playing : session \in {NoSession, info[s].session} /\ CanInterrupt(s)}
  IN hit # {} /\ Forget(hit)

Complete(s) == s \in playing /\ Forget({s})

\* rollback(): the last point up to the target, or the first; without a target the
\* last one, which is ahead of the player after an earlier rollback.
RollbackTo(s, target) ==
  LET upTo == {i \in DOMAIN points[s] : points[s][i] <= target}
  IN points[s][IF upTo # {} THEN Max(upTo) ELSE 1]

\* Mutant: back by the most that may be taken back, whatever was marked.
GoBack_ByTime(s) ==
  /\ s \in playing /\ points[s] # <<>>
  /\ info' = [info EXCEPT ![s].position = @ - MaxRollback]
  /\ UNCHANGED <<playing, points>>

\* The player goes where rollback() says.
GoBack(s) ==
  /\ s \in playing /\ points[s] # <<>>
  /\ \E target \in 0..MaxPosition : info' = [info EXCEPT ![s].position = RollbackTo(s, target)]
  /\ UNCHANGED <<playing, points>>

InterruptInit ==
  /\ playing = {}
  /\ info = [s \in Streams |-> Unknown]
  /\ points = [s \in Streams |-> <<>>]

InterruptNext ==
  \/ \E s \in Streams :
       \/ Register(s) \/ InterruptStream(s) \/ Complete(s) \/ GoBack(s)
       \/ \E p \in 0..MaxPosition, text \in BOOLEAN : Update(s, p, text)
  \/ \E session \in Sessions \cup {NoSession} : InterruptAll(session)

InterruptSpec == InterruptInit /\ [][InterruptNext]_interruptVars

-----------------------------------------------------------------------------
\* Type invariant.
InterruptTypeOK ==
  /\ playing \subseteq Streams
  /\ info \in [Streams -> [position : 0..MaxPosition, interruptible : BOOLEAN,
                           session : Sessions \cup {NoSession}]]
  /\ \A s \in Streams : points[s] \in Seq(0..MaxPosition)

\* However the player jumps, the points of a stream stay in order, an interval
\* apart and within the rollback window, and a stream that has ended has none.
PointsInOrder ==
  \A s \in Streams :
    /\ \A i \in 1..(Len(points[s]) - 1) : points[s][i + 1] - points[s][i] >= Interval
    /\ points[s] # <<>> => Last(points[s]) - Head(points[s]) <= MaxRollback /\ s \in playing

(***************************************************************************)
(* The limits of PolicyEnforcer (voice_soundboard/mcp/policy.py) for one   *)
(* agent: tools, voices and backends that it may use, requests in a        *)
(* sliding minute, characters in a minute that starts over, and streams at *)
(* once. A call is checked before its work (check_all,                     *)
(* check_concurrent_streams) and recorded after it (record_request), as    *)
(* the class says it is used; other calls run in between, and the agent's  *)
(* policy may be replaced.                                                 *)
(***************************************************************************)
CONSTANTS
  Calls,
  Policies,      \* by name, "default" among them: [tools, voices, backends, external, text,
                 \* requests, chars, streams], the rates with their burst allowance
  Asked,         \* what is asked: [tool, length, voice, backend], length 0 for no text and
                 \* "" for no voice or backend
  External,      \* external_backends
  Minute,        \* 60 seconds, in ticks
  EndTime        \* bound of the clock

VARIABLES
  time,
  policy,     \* the name of the policy _agent_policies gives the agent, or "default"
  call,       \* what each call is at: [pc, request, limit, overlap], limit and overlap a
              \* history: max_requests, and the calls checked and not recorded, when it was checked
  stamps,     \* request_timestamps: the calls and when they were recorded
  chars,      \* character_count
  resetAt,    \* character_reset_time
  streams,    \* active_streams
  violations  \* violations

ASSUME PolicyAssumption ==
  /\ IsFiniteSet(Calls) /\ EndTime \in Nat /\ "default" \in DOMAIN Policies
  /\ \A name \in DOMAIN Policies : Policies[name].requests \in Nat /\ Policies[name].streams \in Nat
  /\ \A r \in Asked : r.length \in Nat
  /\ Minute \in Int

policyVars == <<time, policy, call, stamps, chars, resetAt, streams, violations>>

Current == Policies[policy]
Recent == {s \in stamps : s.at + Minute > time}
Pending == {c \in Calls : call[c].pc = "working"}

\* allows_voice(), allows_backend()
AllowsVoice(p, voice) == voice \in p.voices
AllowsBackend(p, backend) == (backend \in External => p.external) /\ backend \in p.backends

-----------------------------------------------------------------------------
Refuse(c) == call' = [call EXCEPT ![c].pc = "refused"] /\ violations' = violations + 1

\* check_tool_access and check_text_length, which keep nothing but the violation.
Unreached(c, r) ==
  /\ call[c].pc = "new"
  /\ r.tool \notin Current.tools \/ r.length > Current.text
  /\ Refuse(c)
  /\ UNCHANGED <<time, policy, stamps, chars, resetAt, streams>>

\* Mutant: the voice is not checked.
Permitted_AnyVoice(r) == r.backend = "" \/ AllowsBackend(Current, r.backend)

\* check_voice_access and check_backend_access of what the request names.
Permitted(r) ==
  /\ r.voice = "" \/ AllowsVoice(Current, r.voice)
  /\ r.backend = "" \/ AllowsBackend(Current, r.backend)

\* check_rate_limit, which forgets what is old before it refuses, and the checks after it.
\* Without a text no rate is checked.
CheckAll(c, r) ==
  LET expired == time - resetAt > Minute
      before  == IF expired THEN 0 ELSE chars
      allowed == Cardinality(Recent) < Current.requests /\ before + r.length <= Current.chars
  IN
  /\ call[c].pc = "new" /\ r.tool \in Current.tools /\ r.length <= Current.text
  /\ IF r.length > 0
     THEN stamps' = Recent /\ chars' = before /\ resetAt' = IF expired THEN time ELSE resetAt
     ELSE UNCHANGED <<stamps, chars, resetAt>>
  /\ IF (r.length > 0 => allowed) /\ Permitted(r)
     THEN /\ call' = [call EXCEPT ![c] =
                       [pc |-> "working", request |-> r, limit |-> Current.requests,
                        overlap |-> Cardinality(Pending)]]
          /\ UNCHANGED violations
     ELSE Refuse(c)
  /\ UNCHANGED <<time, policy, streams>>

\* record_request(), for a text: of a call that was checked, whatever the policy is by now.
Record(c) ==
  /\ call[c].pc = "working"
  /\ IF call[c].request.length > 0
     THEN /\ stamps' = stamps \cup {[of |-> c, at |-> time]}
          /\ chars' = chars + call[c].request.length
     ELSE UNCHANGED <<stamps, chars>>
  /\ call' = [call EXCEPT ![c].pc = "recorded"]
  /\ UNCHANGED <<time, policy, resetAt, streams, violations>>

\* The work of a call failed: nothing is recorded.
Fail(c) ==
  /\ call[c].pc = "working"
  /\ call' = [call EXCEPT ![c].pc = "failed"]
  /\ UNCHANGED <<time, policy, stamps, chars, resetAt, streams, violations>>

\* Mutant: one stream more than the limit.
MayStream_OffByOne == streams <= Current.streams

MayStream == streams < Current.streams

\* A stream: check_concurrent_streams and record_stream_start, without a wait in
\* between, and record_stream_end.
StartStream(c) ==
  /\ call[c].pc = "new"
  /\ IF MayStream
     THEN /\ call' = [call EXCEPT ![c].pc = "streaming", ![c].limit = Current.streams]
          /\ streams' = streams + 1 /\ UNCHANGED violations
     ELSE Refuse(c) /\ UNCHANGED streams
  /\ UNCHANGED <<time, policy, stamps, chars, resetAt>>

RecordStreamEnd(c) ==
  /\ call[c].pc = "streaming"
  /\ call' = [call EXCEPT ![c].pc = "recorded"]
  /\ streams' = IF streams = 0 THEN 0 ELSE streams - 1
  /\ UNCHANGED <<time, policy, stamps, chars, resetAt, violations>>

\* set_agent_policy(): at any time, also with calls at work and streams open.
SetAgentPolicy(name) ==
  /\ policy # name /\ policy' = name
  /\ UNCHANGED <<time, call, stamps, chars, resetAt, streams, violations>>

Tick ==
  /\ time < EndTime /\ time' = time + 1
  /\ UNCHANGED <<policy, call, stamps, chars, resetAt, streams, violations>>

NoRequest == [tool |-> "", length |-> 0, voice |-> "", backend |-> ""]

PolicyInit ==
  /\ time = 0 /\ policy = "default" /\ stamps = {} /\ chars = 0 /\ resetAt = 0 /\ streams = 0
  /\ call = [c \in Calls |-> [pc |-> "new", request |-> NoRequest, limit |-> 0, overlap |-> 0]]
  /\ violations = 0

PolicyNext ==
  \/ \E c \in Calls : \/ Record(c) \/ Fail(c) \/ StartStream(c) \/ RecordStreamEnd(c)
                      \/ \E r \in Asked : CheckAll(c, r) \/ Unreached(c, r)
  \/ \E name \in DOMAIN Policies \ {"default"} : SetAgentPolicy(name)
  \/ Tick

PolicySpec == PolicyInit /\ [][PolicyNext]_policyVars

-----------------------------------------------------------------------------
\* Type invariant.
PolicyTypeOK ==
  /\ time \in 0..EndTime /\ resetAt \in 0..EndTime /\ policy \in DOMAIN Policies
  /\ \A c \in Calls :
       /\ call[c].pc \in {"new", "working", "refused", "failed", "streaming", "recorded"}
       /\ call[c].request \in Asked \cup {NoRequest}
       /\ call[c].limit \in Nat /\ call[c].overlap \in 0..Cardinality(Calls)
  /\ stamps \subseteq [of : Calls, at : 0..EndTime]
  /\ chars \in Nat /\ streams \in Nat /\ violations \in 0..Cardinality(Calls)

\* policy.py: whatever runs between the check and the record, and whatever policy replaces
\* the one a call was checked under, the requests of a minute exceed the limit that one of
\* them was checked under by no more than were in the air at that check.
MinuteBound ==
  Cardinality(Recent) <= Max({call[s.of].limit + call[s.of].overlap : s \in Recent} \cup {0})

\* policy.py: streams are counted as they are, and there are no more of them than some
\* stream's policy allowed when it began; a refusal is counted once, whatever the check.
StreamsCounted ==
  LET open == {c \in Calls : call[c].pc = "streaming"} IN
  /\ streams = Cardinality(open)
  /\ streams <= Max({call[c].limit : c \in open} \cup {0})
  /\ violations = Cardinality({c \in Calls : call[c].pc = "refused"})

\* policy.py: a call that works has only what one policy that the agent had grants it whole:
\* its tool, its voice and its backend are not each of another policy.
GrantedByOne ==
  \A c \in Pending : LET r == call[c].request IN
    \E name \in DOMAIN Policies : LET p == Policies[name] IN
      /\ r.tool \in p.tools /\ r.length <= p.text /\ call[c].limit = p.requests
      /\ r.voice # "" => r.voice \in p.voices
      /\ r.backend # "" => r.backend \in p.backends /\ (r.backend \in External => p.external)

=============================================================================
