-------------------------- MODULE McpServer_proofs --------------------------
(***************************************************************************)
(* What the Python MCP server promises, for every number of requests,      *)
(* agents and policies and for all limits: permits are accounted for,      *)
(* streams hear that they are stopped, and the session manager's two maps  *)
(* agree. Then what guards it: the interrupt handler's points, the limits  *)
(* of the policy enforcer, the secrets' cache and the sandbox of plugins;  *)
(* and that the host that puts them together keeps it all. The small       *)
(* values of MCMcpServer play no part: its constants stay constants here.  *)
(*                                                                         *)
(* Requests and permits (calls, waiters) and sessions and streams meet in  *)
(* one fact: a request has no stream before its handler began.  Each half  *)
(* is kept by its own lemmas, which every action combines.                 *)
(***************************************************************************)
EXTENDS MCMcpServer, SequenceTheorems, FiniteSetTheorems, WellFoundedInduction, TLAPS

Call == [pc : {"unsent", "waiting", "done"} \cup Holding, sem : 0..MaxStarts]
Early == {"unsent", "waiting", "begun"}

CallsTyped == calls \in [Requests -> Call] /\ waiters \in [1..MaxStarts -> Seq(Requests)]
SessionsTyped ==
  /\ session \in [Requests -> {0} \cup SessionIds]
  /\ sessions \in [SessionIds -> {Nobody} \cup [owner : Agents, state : {"active", "closed"}]]
  /\ index \in [Agents -> SUBSET SessionIds]
  /\ stream \in [Requests -> {"none", "live", "interrupted"}]

\* Who is in the queue of a semaphore waits for a permit of that one, and is in it once.
WaitersWait ==
  \A sem \in 1..MaxStarts :
    /\ \A i \in DOMAIN waiters[sem] :
         calls[waiters[sem][i]].pc = "waiting" /\ calls[waiters[sem][i]].sem = sem
    /\ \A i, j \in DOMAIN waiters[sem] : waiters[sem][i] = waiters[sem][j] => i = j

\* A request whose stream sent a chunk too many was answered then.
LateIsOver == \A r \in Requests : late[r] # 0 => late[r] = 1 /\ calls[r].pc = "done"

\* Each stop() was asked for by a request of its own.
Ended == {r \in Requests : calls[r].pc = "done"}
StopsAsked == stops <= Cardinality(Ended)

\* A stream is live in a live session only.
LiveInSession == \A r \in Requests : stream[r] = "live" => session[r] \in Live

\* A handler that has not come to its tool has no stream.
StreamsBegun == \A r \in Requests : calls[r].pc \in Early => stream[r] = "none"

CallsInv    == CallsTyped /\ WaitersWait /\ PermitsAccounted
SessionsInv == SessionsTyped /\ SessionsIndexed /\ StreamsLimited /\ LiveInSession

ServerTyped ==
  /\ server \in {"initializing", "running", "stopped"} /\ stops \in Nat
  /\ semaphore \in 0..MaxStarts
  /\ late \in [Requests -> 0..MaxLate]

ServerInv ==
  /\ ServerTyped /\ CallsInv /\ SessionsInv
  /\ LateIsOver /\ StopsAsked /\ StreamsBegun

-----------------------------------------------------------------------------
\* A queue and what happens to it at its ends.
LEMMA QueueEnds ==
  ASSUME NEW S, NEW s \in Seq(S)
  PROVE  /\ \A x \in S :
              /\ Append(s, x) \in Seq(S)
              /\ \A i \in DOMAIN Append(s, x) :
                   \/ i \in DOMAIN s /\ Append(s, x)[i] = s[i]
                   \/ i = Len(s) + 1 /\ Append(s, x)[i] = x
         /\ s # <<>> =>
              /\ Head(s) = s[1] /\ s[1] \in S /\ 1 \in DOMAIN s /\ Tail(s) \in Seq(S)
              /\ \A i \in DOMAIN Tail(s) : /\ i \in Nat /\ i + 1 \in DOMAIN s
                                           /\ i + 1 # 1 /\ Tail(s)[i] = s[i + 1]
<1>1. ASSUME NEW x \in S
      PROVE  /\ Append(s, x) \in Seq(S)
             /\ \A i \in DOMAIN Append(s, x) :
                  \/ i \in DOMAIN s /\ Append(s, x)[i] = s[i]
                  \/ i = Len(s) + 1 /\ Append(s, x)[i] = x
  <2>1. /\ Append(s, x) \in Seq(S) /\ Len(Append(s, x)) = Len(s) + 1
        /\ \A i \in 1..Len(s) : Append(s, x)[i] = s[i]
        /\ Append(s, x)[Len(s) + 1] = x
    BY AppendProperties
  <2>2. Len(s) \in Nat /\ DOMAIN s = 1..Len(s) /\ DOMAIN Append(s, x) = 1..Len(s) + 1
    BY <2>1, LenProperties
  <2> QED BY <2>1, <2>2
<1>2. ASSUME s # <<>>
      PROVE  /\ Head(s) = s[1] /\ s[1] \in S /\ 1 \in DOMAIN s /\ Tail(s) \in Seq(S)
             /\ \A i \in DOMAIN Tail(s) : /\ i \in Nat /\ i + 1 \in DOMAIN s
                                          /\ i + 1 # 1 /\ Tail(s)[i] = s[i + 1]
  <2>1. /\ Len(s) \in Nat \ {0} /\ Head(s) = s[1] /\ s[1] \in S
        /\ Tail(s) \in Seq(S) /\ Len(Tail(s)) = Len(s) - 1
        /\ \A i \in 1..Len(Tail(s)) : Tail(s)[i] = s[i + 1]
    BY <1>2, EmptySeq, HeadTailProperties, ElementOfSeq
  <2>2. DOMAIN s = 1..Len(s) /\ DOMAIN Tail(s) = 1..Len(Tail(s))
    BY <2>1, LenProperties
  <2> QED BY <2>1, <2>2
<1> QED BY <1>1, <1>2

\* Cardinalities of sets of requests.
LEMMA RequestSets ==
  ASSUME NEW S \in SUBSET Requests
  PROVE  /\ Cardinality(S) \in Nat
         /\ \A r \in Requests \ S : Cardinality(S \cup {r}) = Cardinality(S) + 1
         /\ \A r \in S : Cardinality(S \ {r}) = Cardinality(S) - 1
         /\ \A T \in SUBSET S : Cardinality(T) <= Cardinality(S)
<1>1. IsFiniteSet(S) /\ Cardinality(S) \in Nat
  BY RequestsAssumption, FS_Subset, FS_CardinalityType
<1>2. \A r \in Requests \ S : Cardinality(S \cup {r}) = Cardinality(S) + 1
  BY <1>1, FS_AddElement
<1>3. \A r \in S : Cardinality(S \ {r}) = Cardinality(S) - 1
  BY <1>1, FS_RemoveElement
<1>4. \A T \in SUBSET S : Cardinality(T) <= Cardinality(S)
  BY <1>1, FS_Subset
<1> QED BY <1>1, <1>2, <1>3, <1>4

-----------------------------------------------------------------------------
(***************************************************************************)
(* Requests and permits.                                                   *)
(***************************************************************************)
\* Where requests may go: over for good, and on.
Onward ==
  \A q \in Requests : /\ calls[q].pc = "done" => calls'[q].pc = "done"
                      /\ calls'[q].pc \in Early => calls[q].pc \in Early

\* A permit is given back and passes to the first waiter of its semaphore.
LEMMA AnsweredStep ==
  ASSUME CallsInv, NEW r \in Requests, calls[r].pc \in Holding, Answered(r)
  PROVE  CallsInv' /\ Onward /\ calls'[r].pc = "done"
<1> USE BoundsAssumption
<1>0. calls \in [Requests -> Call] /\ waiters \in [1..MaxStarts -> Seq(Requests)]
  BY DEF CallsInv, CallsTyped
<1> DEFINE sem == calls[r].sem
           over == [pc |-> "done", sem |-> 0]
<1>1. sem \in 0..MaxStarts /\ over \in Call
  BY <1>0 DEF Call, Holding
<1>2. ASSUME NEW t \in 1..MaxStarts, NEW i \in DOMAIN waiters[t]
      PROVE  waiters[t][i] \in Requests /\ waiters[t][i] # r
             /\ calls[waiters[t][i]].pc = "waiting" /\ calls[waiters[t][i]].sem = t
  <2>1. waiters[t][i] \in Requests
    BY <1>0, <1>2, ElementOfSeq, LenProperties
  <2> QED BY <2>1 DEF CallsInv, WaitersWait, Holding
<1>3. CASE sem = 0 \/ waiters[sem] = <<>>
  <2>1. calls' = [calls EXCEPT ![r] = over] /\ waiters' = waiters
    BY <1>3 DEF Answered
  <2>2. /\ CallsTyped' /\ calls'[r] = over
        /\ \A q \in Requests : q # r => calls'[q] = calls[q]
    BY <1>0, <1>1, <2>1 DEF CallsTyped
  <2>3. WaitersWait'
    BY <1>2, <2>1, <2>2 DEF CallsInv, WaitersWait
  <2>4. PermitsAccounted'
    <3> SUFFICES ASSUME NEW t \in 1..MaxStarts
                 PROVE  /\ Cardinality(Holders(t)') <= MaxRequests
                        /\ waiters'[t] # <<>> => Cardinality(Holders(t)') = MaxRequests
      BY DEF PermitsAccounted
    <3>1. /\ Cardinality(Holders(t)) <= MaxRequests
          /\ waiters[t] # <<>> => Cardinality(Holders(t)) = MaxRequests
          /\ Holders(t) \in SUBSET Requests
      BY DEF CallsInv, PermitsAccounted, Holders, Holding
    <3>2. CASE t # sem
      <4>1. Holders(t)' = Holders(t)
        BY <2>2, <3>2 DEF Holders, Holding
      <4> QED BY <2>1, <3>1, <4>1
    <3>3. CASE t = sem
      <4>1. Holders(t)' = Holders(t) \ {r} /\ r \in Holders(t) /\ waiters[t] = <<>>
        BY <1>3, <2>2, <3>3 DEF Holders, Holding
      <4>2. /\ Cardinality(Holders(t)) \in Nat
            /\ Cardinality(Holders(t)') = Cardinality(Holders(t)) - 1
        BY <3>1, <4>1, RequestSets
      <4> QED BY <2>1, <3>1, <4>1, <4>2, LimitsAssumption
    <3> QED BY <3>2, <3>3
  <2>5. Onward
    BY <2>2 DEF Onward, Early, Holding
  <2> QED BY <2>2, <2>3, <2>4, <2>5 DEF CallsInv
<1>4. CASE sem # 0 /\ waiters[sem] # <<>>
  <2> DEFINE w == waiters[sem][1]
  <2>1. sem \in 1..MaxStarts /\ waiters[sem] \in Seq(Requests) /\ waiters[sem] # <<>>
    BY <1>0, <1>1, <1>4
  <2>2. /\ Head(waiters[sem]) = w /\ 1 \in DOMAIN waiters[sem]
        /\ Tail(waiters[sem]) \in Seq(Requests)
        /\ \A i \in DOMAIN Tail(waiters[sem]) :
             /\ i \in Nat /\ i + 1 \in DOMAIN waiters[sem] /\ i + 1 # 1
             /\ Tail(waiters[sem])[i] = waiters[sem][i + 1]
    BY <2>1, QueueEnds
  <2>3. w \in Requests /\ w # r /\ calls[w].pc = "waiting" /\ calls[w].sem = sem
    BY <1>2, <2>1, <2>2
  <2>4. /\ calls' = [calls EXCEPT ![r] = over, ![w].pc = "begun"]
        /\ waiters' = [waiters EXCEPT ![sem] = Tail(@)]
    BY <1>4, <2>2 DEF Answered
  <2>5. /\ calls' \in [Requests -> Call] /\ calls'[r] = over
        /\ calls'[w].pc = "begun" /\ calls'[w].sem = sem
        /\ \A q \in Requests : q # r /\ q # w => calls'[q] = calls[q]
    BY <1>0, <1>1, <2>3, <2>4 DEF Call, Holding
  <2>6. /\ waiters' \in [1..MaxStarts -> Seq(Requests)] /\ waiters'[sem] = Tail(waiters[sem])
        /\ \A t \in 1..MaxStarts : t # sem => waiters'[t] = waiters[t]
    BY <1>0, <2>1, <2>2, <2>4
  <2>7. WaitersWait'
    <3> SUFFICES ASSUME NEW t \in 1..MaxStarts
                 PROVE  /\ \A i \in DOMAIN waiters'[t] :
                             /\ calls'[waiters'[t][i]].pc = "waiting"
                             /\ calls'[waiters'[t][i]].sem = t
                        /\ \A i, j \in DOMAIN waiters'[t] :
                             waiters'[t][i] = waiters'[t][j] => i = j
      BY DEF WaitersWait
    <3>1. \A i, j \in DOMAIN waiters[t] : waiters[t][i] = waiters[t][j] => i = j
      BY DEF CallsInv, WaitersWait
    <3>2. CASE t # sem
      <4>1. waiters'[t] = waiters[t]
        BY <2>6, <3>2
      <4>2. ASSUME NEW i \in DOMAIN waiters[t]
            PROVE  calls'[waiters[t][i]] = calls[waiters[t][i]]
        BY <1>2, <2>3, <2>5, <3>2
      <4> QED BY <1>2, <3>1, <4>1, <4>2
    <3>3. CASE t = sem
      <4>1. ASSUME NEW i \in DOMAIN waiters'[t]
            PROVE  /\ i \in Nat /\ i + 1 \in DOMAIN waiters[t]
                   /\ waiters'[t][i] = waiters[t][i + 1] /\ waiters[t][i + 1] # w
        BY <2>2, <2>6, <3>1, <3>3
      <4>2. ASSUME NEW i \in DOMAIN waiters'[t]
            PROVE  calls'[waiters'[t][i]].pc = "waiting" /\ calls'[waiters'[t][i]].sem = t
        BY <1>2, <2>5, <4>1
      <4>3. ASSUME NEW i \in DOMAIN waiters'[t], NEW j \in DOMAIN waiters'[t],
                   waiters'[t][i] = waiters'[t][j]
            PROVE  i = j
        <5>1. i + 1 = j + 1
          BY <3>1, <4>1, <4>3
        <5> QED BY <4>1, <5>1
      <4> QED BY <4>2, <4>3
    <3> QED BY <3>2, <3>3
  <2>8. PermitsAccounted'
    <3> SUFFICES ASSUME NEW t \in 1..MaxStarts
                 PROVE  /\ Cardinality(Holders(t)') <= MaxRequests
                        /\ waiters'[t] # <<>> => Cardinality(Holders(t)') = MaxRequests
      BY DEF PermitsAccounted
    <3>1. /\ Cardinality(Holders(t)) <= MaxRequests
          /\ waiters[t] # <<>> => Cardinality(Holders(t)) = MaxRequests
          /\ Holders(t) \in SUBSET Requests
      BY DEF CallsInv, PermitsAccounted, Holders, Holding
    <3>2. CASE t # sem
      <4>1. Holders(t)' = Holders(t)
        BY <2>3, <2>5, <3>2 DEF Holders, Holding
      <4> QED BY <2>6, <3>1, <3>2, <4>1
    <3>3. CASE t = sem
      <4>1. /\ Holders(t)' = (Holders(t) \ {r}) \cup {w}
            /\ r \in Holders(t) /\ w \notin Holders(t) \ {r}
        BY <2>3, <2>5, <3>3 DEF Holders, Holding
      <4>2. /\ Cardinality(Holders(t)) \in Nat
            /\ Cardinality(Holders(t) \ {r}) = Cardinality(Holders(t)) - 1
        BY <3>1, <4>1, RequestSets
      <4>3. Cardinality(Holders(t)') = Cardinality(Holders(t) \ {r}) + 1
        BY <2>3, <3>1, <4>1, RequestSets
      <4>4. Cardinality(Holders(t)') = Cardinality(Holders(t))
        BY <4>2, <4>3
      <4> QED BY <2>1, <3>1, <3>3, <4>4
    <3> QED BY <3>2, <3>3
  <2>9. Onward
    BY <2>3, <2>5 DEF Onward, Early, Holding
  <2> QED BY <2>5, <2>6, <2>7, <2>8, <2>9 DEF CallsInv, CallsTyped
<1> QED BY <1>3, <1>4

\* A request arrives: it takes a permit, or waits for one.
LEMMA ReceivedStep ==
  ASSUME CallsInv, semaphore \in 0..MaxStarts, NEW r \in Requests, Receive(r)
  PROVE  CallsInv' /\ Onward
<1> USE BoundsAssumption
<1> DEFINE free == semaphore = 0 \/ Cardinality(Holders(semaphore)) < MaxRequests
<1>0. calls \in [Requests -> Call] /\ waiters \in [1..MaxStarts -> Seq(Requests)]
  BY DEF CallsInv, CallsTyped
<1>1. /\ calls[r].pc = "unsent"
      /\ calls' = [calls EXCEPT ![r].pc = IF free THEN "begun" ELSE "waiting",
                                ![r].sem = semaphore]
      /\ waiters' = IF free THEN waiters ELSE [waiters EXCEPT ![semaphore] = Append(@, r)]
  BY DEF Receive
<1>2. /\ calls' \in [Requests -> Call] /\ calls'[r].sem = semaphore
      /\ calls'[r].pc = IF free THEN "begun" ELSE "waiting"
      /\ \A q \in Requests : q # r => calls'[q] = calls[q]
  BY <1>0, <1>1 DEF Call, Holding
<1> HIDE DEF free
<1>3. ASSUME NEW t \in 1..MaxStarts, NEW i \in DOMAIN waiters[t]
      PROVE  waiters[t][i] \in Requests /\ waiters[t][i] # r
             /\ calls'[waiters[t][i]].pc = "waiting" /\ calls'[waiters[t][i]].sem = t
  <2>1. waiters[t][i] \in Requests
    BY <1>0, <1>3, ElementOfSeq, LenProperties
  <2>2. calls[waiters[t][i]].pc = "waiting" /\ calls[waiters[t][i]].sem = t
    BY DEF CallsInv, WaitersWait
  <2> QED BY <1>1, <1>2, <2>1, <2>2
<1>4. ASSUME NEW t \in 1..MaxStarts
      PROVE  /\ Cardinality(Holders(t)) \in Nat /\ Holders(t) \in SUBSET Requests
             /\ Cardinality(Holders(t)) <= MaxRequests
             /\ waiters[t] # <<>> => Cardinality(Holders(t)) = MaxRequests
             /\ \A i, j \in DOMAIN waiters[t] : waiters[t][i] = waiters[t][j] => i = j
             /\ t # semaphore => Holders(t)' = Holders(t)
             /\ ~free => Holders(t)' = Holders(t)
             /\ t = semaphore /\ free =>
                  Holders(t)' = Holders(t) \cup {r} /\ r \notin Holders(t)
  <2>1. Holders(t) \in SUBSET Requests
    BY DEF Holders, Holding
  <2>2. Cardinality(Holders(t)) \in Nat
    BY <2>1, RequestSets
  <2>3. /\ Cardinality(Holders(t)) <= MaxRequests
        /\ waiters[t] # <<>> => Cardinality(Holders(t)) = MaxRequests
        /\ \A i, j \in DOMAIN waiters[t] : waiters[t][i] = waiters[t][j] => i = j
    BY DEF CallsInv, PermitsAccounted, WaitersWait
  <2>4. /\ t # semaphore => Holders(t)' = Holders(t)
        /\ ~free => Holders(t)' = Holders(t)
    BY <1>1, <1>2 DEF Holders, Holding
  <2>5. t = semaphore /\ free => Holders(t)' = Holders(t) \cup {r} /\ r \notin Holders(t)
    BY <1>1, <1>2 DEF Holders, Holding
  <2> QED BY <2>1, <2>2, <2>3, <2>4, <2>5
<1>5. Onward
  BY <1>1, <1>2 DEF Onward, Early, Holding
<1>6. CASE free
  <2>1. waiters' = waiters
    BY <1>1, <1>6
  <2>2. WaitersWait'
    BY <1>3, <1>4, <2>1 DEF WaitersWait
  <2>3. PermitsAccounted'
    <3> SUFFICES ASSUME NEW t \in 1..MaxStarts
                 PROVE  /\ Cardinality(Holders(t)') <= MaxRequests
                        /\ waiters'[t] # <<>> => Cardinality(Holders(t)') = MaxRequests
      BY DEF PermitsAccounted
    <3>1. CASE t # semaphore
      BY <1>4, <2>1, <3>1
    <3>2. CASE t = semaphore
      <4>1. Cardinality(Holders(t)) < MaxRequests
        BY <1>6, <3>2 DEF free
      <4>2. Cardinality(Holders(t)') = Cardinality(Holders(t)) + 1
        BY <1>4, <1>6, <3>2, RequestSets
      <4> QED BY <1>4, <2>1, <4>1, <4>2, LimitsAssumption
    <3> QED BY <3>1, <3>2
  <2> QED BY <1>0, <1>2, <1>5, <2>1, <2>2, <2>3 DEF CallsInv, CallsTyped
<1>7. CASE ~free
  <2>1. /\ semaphore \in 1..MaxStarts
        /\ waiters' = [waiters EXCEPT ![semaphore] = Append(@, r)]
        /\ ~(Cardinality(Holders(semaphore)) < MaxRequests)
    BY <1>1, <1>7 DEF free
  <2>2. waiters[semaphore] \in Seq(Requests)
    BY <1>0, <2>1
  <2>3. /\ Append(waiters[semaphore], r) \in Seq(Requests)
        /\ \A i \in DOMAIN Append(waiters[semaphore], r) :
             \/ i \in DOMAIN waiters[semaphore]
                /\ Append(waiters[semaphore], r)[i] = waiters[semaphore][i]
             \/ i = Len(waiters[semaphore]) + 1 /\ Append(waiters[semaphore], r)[i] = r
    BY <2>2, QueueEnds
  <2>4. /\ waiters' \in [1..MaxStarts -> Seq(Requests)]
        /\ waiters'[semaphore] = Append(waiters[semaphore], r)
        /\ \A t \in 1..MaxStarts : t # semaphore => waiters'[t] = waiters[t]
    BY <1>0, <2>1, <2>3
  <2>5. calls'[r].pc = "waiting"
    BY <1>2, <1>7
  <2>6. WaitersWait'
    <3> SUFFICES ASSUME NEW t \in 1..MaxStarts
                 PROVE  /\ \A i \in DOMAIN waiters'[t] :
                             /\ calls'[waiters'[t][i]].pc = "waiting"
                             /\ calls'[waiters'[t][i]].sem = t
                        /\ \A i, j \in DOMAIN waiters'[t] :
                             waiters'[t][i] = waiters'[t][j] => i = j
      BY DEF WaitersWait
    <3>1. CASE t # semaphore
      BY <1>3, <1>4, <2>4, <3>1
    <3>2. CASE t = semaphore
      <4>1. \A i \in DOMAIN waiters'[t] :
              \/ i \in DOMAIN waiters[t] /\ waiters'[t][i] = waiters[t][i]
              \/ i = Len(waiters[t]) + 1 /\ waiters'[t][i] = r
        BY <2>3, <2>4, <3>2
      <4>2. \A i \in DOMAIN waiters'[t] : /\ calls'[waiters'[t][i]].pc = "waiting"
                                          /\ calls'[waiters'[t][i]].sem = t
        BY <1>2, <1>3, <2>5, <3>2, <4>1
      <4>3. \A i, j \in DOMAIN waiters'[t] : waiters'[t][i] = waiters'[t][j] => i = j
        BY <1>3, <1>4, <4>1
      <4> QED BY <4>2, <4>3
    <3> QED BY <3>1, <3>2
  <2>7. PermitsAccounted'
    <3> SUFFICES ASSUME NEW t \in 1..MaxStarts
                 PROVE  /\ Cardinality(Holders(t)') <= MaxRequests
                        /\ waiters'[t] # <<>> => Cardinality(Holders(t)') = MaxRequests
      BY DEF PermitsAccounted
    <3>1. Holders(t)' = Holders(t)
      BY <1>4, <1>7
    <3>2. CASE t # semaphore
      BY <1>4, <2>4, <3>1, <3>2
    <3>3. CASE t = semaphore
      BY <1>4, <2>1, <3>1, <3>3, LimitsAssumption
    <3> QED BY <3>2, <3>3
  <2> QED BY <1>2, <1>5, <2>4, <2>6, <2>7 DEF CallsInv, CallsTyped
<1> QED BY <1>6, <1>7

\* A handler comes to its engine: its request goes on with the permit it has.
LEMMA EngineStep ==
  ASSUME CallsInv, NEW r \in Requests, calls[r].pc = "begun",
         NEW x \in {"speaking", "streaming"},
         calls' = [calls EXCEPT ![r].pc = x], waiters' = waiters
  PROVE  CallsInv' /\ Onward /\ calls'[r].pc = x
<1>0. calls \in [Requests -> Call] /\ waiters \in [1..MaxStarts -> Seq(Requests)]
  BY DEF CallsInv, CallsTyped
<1>1. /\ calls' \in [Requests -> Call] /\ calls'[r].pc = x
      /\ calls'[r].sem = calls[r].sem
      /\ \A q \in Requests : q # r => calls'[q] = calls[q]
  BY <1>0 DEF Call, Holding
<1>2. \A t \in 1..MaxStarts : Holders(t)' = Holders(t)
  BY <1>1 DEF Holders, Holding
<1>3. WaitersWait'
  <2>1. ASSUME NEW t \in 1..MaxStarts, NEW i \in DOMAIN waiters[t]
        PROVE  calls'[waiters[t][i]].pc = "waiting" /\ calls'[waiters[t][i]].sem = t
    <3>1. waiters[t][i] \in Requests
      BY <1>0, <2>1, ElementOfSeq, LenProperties
    <3>2. calls[waiters[t][i]].pc = "waiting" /\ calls[waiters[t][i]].sem = t
      BY DEF CallsInv, WaitersWait
    <3> QED BY <1>1, <3>1, <3>2
  <2> QED BY <2>1 DEF CallsInv, WaitersWait
<1>4. PermitsAccounted'
  BY <1>2 DEF CallsInv, PermitsAccounted
<1>5. Onward
  BY <1>1 DEF Onward, Early
<1> QED BY <1>0, <1>1, <1>3, <1>4, <1>5 DEF CallsInv, CallsTyped

LEMMA CallsStay ==
  ASSUME CallsInv, calls' = calls, waiters' = waiters
  PROVE  CallsInv' /\ Onward
BY DEF CallsInv, CallsTyped, WaitersWait, PermitsAccounted, Holders, Onward

-----------------------------------------------------------------------------
(***************************************************************************)
(* Sessions and streams.                                                   *)
(***************************************************************************)
\* A request without a stream runs in a live session, which may be a new one of its
\* agent.
LEMMA ResolvedDoes ==
  ASSUME SessionsTyped, SessionsIndexed, NEW r \in Requests, NEW agent \in Agents,
         NEW s \in SessionIds, Resolve(r, agent, s)
  PROVE  /\ session' = [session EXCEPT ![r] = s] /\ s \in Live' /\ Live \subseteq Live'
         /\ session' \in [Requests -> {0} \cup SessionIds]
         /\ sessions' \in [SessionIds ->
                             {Nobody} \cup [owner : Agents, state : {"active", "closed"}]]
         /\ index' \in [Agents -> SUBSET SessionIds]
         /\ SessionsIndexed'
<1>0. /\ session \in [Requests -> {0} \cup SessionIds]
      /\ sessions \in [SessionIds ->
                         {Nobody} \cup [owner : Agents, state : {"active", "closed"}]]
      /\ index \in [Agents -> SUBSET SessionIds]
  BY DEF SessionsTyped
<1>1. session' = [session EXCEPT ![r] = s] /\ session' \in [Requests -> {0} \cup SessionIds]
  BY <1>0 DEF Resolve
<1>2. CASE s \in Live /\ UNCHANGED <<sessions, index>>
  BY <1>0, <1>1, <1>2 DEF Live, SessionsIndexed
<1>3. CASE /\ Fresh(s)
           /\ sessions' = [sessions EXCEPT ![s] = [owner |-> agent, state |-> "active"]]
           /\ index' = [index EXCEPT ![agent] = @ \cup {s}]
  <2>1. sessions[s] = Nobody /\ s \notin Live
    BY <1>3 DEF Fresh, Live, Nobody
  <2>2. /\ sessions' \in [SessionIds ->
                            {Nobody} \cup [owner : Agents, state : {"active", "closed"}]]
        /\ sessions'[s] = [owner |-> agent, state |-> "active"]
        /\ \A t \in SessionIds : t # s => sessions'[t] = sessions[t]
    BY <1>0, <1>3
  <2>3. Live' = Live \cup {s}
    BY <2>2 DEF Live
  <2>4. /\ index' \in [Agents -> SUBSET SessionIds] /\ index'[agent] = index[agent] \cup {s}
        /\ \A a \in Agents : a # agent => index'[a] = index[a]
    BY <1>0, <1>3
  <2>5. SessionsIndexed'
    <3> SUFFICES ASSUME NEW a \in Agents
                 PROVE  index'[a] = {t \in Live' : sessions'[t].owner = a}
      BY DEF SessionsIndexed
    <3>1. index[a] = {t \in Live : sessions[t].owner = a} /\ Live \subseteq SessionIds
      BY DEF SessionsIndexed, Live
    <3>2. \A t \in Live : sessions'[t] = sessions[t]
      BY <2>1, <2>2, <3>1
    <3>3. CASE a = agent
      BY <2>2, <2>3, <2>4, <3>1, <3>2, <3>3
    <3>4. CASE a # agent
      BY <2>2, <2>3, <2>4, <3>1, <3>2, <3>4
    <3> QED BY <3>3, <3>4
  <2> QED BY <1>1, <2>2, <2>3, <2>4, <2>5
<1> QED BY <1>2, <1>3 DEF Resolve

\* The streams a step may not start: one that is registered was, one that is live was.
NoNewStream ==
  /\ stream' \in [Requests -> {"none", "live", "interrupted"}]
  /\ \A q \in Requests : /\ stream'[q] # "none" => stream[q] # "none"
                         /\ stream'[q] = "live" => stream[q] = "live"

LEMMA InterruptedDoes ==
  ASSUME SessionsTyped, NEW R, stream' = Interrupted(R)
  PROVE  NoNewStream /\ \A q \in R \cap Requests : stream'[q] # "live"
BY DEF SessionsTyped, Interrupted, NoNewStream

\* A request without a stream goes on in a session, and starts none.
LEMMA ResolvedStep ==
  ASSUME SessionsInv, NEW r \in Requests, stream[r] = "none",
         \E agent \in Agents, s \in SessionIds : Resolve(r, agent, s), NoNewStream
  PROVE  SessionsInv'
<1>0. /\ SessionsTyped /\ SessionsIndexed
      /\ session \in [Requests -> {0} \cup SessionIds]
  BY DEF SessionsInv, SessionsTyped
<1>1. PICK agent \in Agents, s \in SessionIds : Resolve(r, agent, s)
  OBVIOUS
<1>2. /\ session' = [session EXCEPT ![r] = s] /\ Live \subseteq Live'
      /\ session' \in [Requests -> {0} \cup SessionIds]
      /\ sessions' \in [SessionIds ->
                          {Nobody} \cup [owner : Agents, state : {"active", "closed"}]]
      /\ index' \in [Agents -> SUBSET SessionIds]
      /\ SessionsIndexed'
  BY <1>0, <1>1, ResolvedDoes
<1>3. \A q \in Requests : stream'[q] # "none" => q # r /\ session'[q] = session[q]
  BY <1>0, <1>2 DEF NoNewStream
<1>4. LiveInSession'
  BY <1>2, <1>3 DEF SessionsInv, LiveInSession, NoNewStream
<1>5. StreamsLimited'
  <2> SUFFICES ASSUME NEW t \in SessionIds
               PROVE  Cardinality(Registered(t)') <= MaxStreams
    BY DEF StreamsLimited
  <2>1. Registered(t)' \subseteq Registered(t) /\ Registered(t) \in SUBSET Requests
        /\ Registered(t)' \in SUBSET Requests
    BY <1>3 DEF Registered, NoNewStream
  <2>2. /\ Cardinality(Registered(t)') <= Cardinality(Registered(t))
        /\ Cardinality(Registered(t)) \in Nat /\ Cardinality(Registered(t)') \in Nat
    BY <2>1, RequestSets
  <2>3. Cardinality(Registered(t)) <= MaxStreams
    BY DEF SessionsInv, StreamsLimited
  <2> QED BY <2>2, <2>3, LimitsAssumption
<1> QED BY <1>2, <1>4, <1>5 DEF SessionsInv, SessionsTyped, NoNewStream

\* A session that has room takes one more stream.
LEMMA RegisteredStep ==
  ASSUME SessionsInv, NEW r \in Requests, stream[r] = "none",
         NEW agent \in Agents, NEW s \in SessionIds, Resolve(r, agent, s),
         Cardinality(Registered(s)) < MaxStreams, stream' = [stream EXCEPT ![r] = "live"]
  PROVE  SessionsInv'
<1>0. /\ SessionsTyped /\ SessionsIndexed
      /\ session \in [Requests -> {0} \cup SessionIds]
      /\ stream \in [Requests -> {"none", "live", "interrupted"}]
  BY DEF SessionsInv, SessionsTyped
<1>1. /\ session' = [session EXCEPT ![r] = s] /\ Live \subseteq Live' /\ s \in Live'
      /\ session' \in [Requests -> {0} \cup SessionIds]
      /\ sessions' \in [SessionIds ->
                          {Nobody} \cup [owner : Agents, state : {"active", "closed"}]]
      /\ index' \in [Agents -> SUBSET SessionIds]
      /\ SessionsIndexed'
  BY <1>0, ResolvedDoes
<1>2. /\ session'[r] = s /\ stream'[r] = "live"
      /\ stream' \in [Requests -> {"none", "live", "interrupted"}]
      /\ \A q \in Requests : q # r => session'[q] = session[q] /\ stream'[q] = stream[q]
  BY <1>0, <1>1
<1>3. LiveInSession'
  BY <1>1, <1>2 DEF SessionsInv, LiveInSession
<1>4. StreamsLimited'
  <2> SUFFICES ASSUME NEW t \in SessionIds
               PROVE  Cardinality(Registered(t)') <= MaxStreams
    BY DEF StreamsLimited
  <2>1. Cardinality(Registered(t)) <= MaxStreams /\ Registered(t) \in SUBSET Requests
    BY DEF SessionsInv, StreamsLimited, Registered
  <2>2. CASE t # s
    <3>1. Registered(t)' = Registered(t)
      BY <1>2, <2>2 DEF Registered
    <3> QED BY <2>1, <3>1
  <2>3. CASE t = s
    <3>1. Registered(t)' = Registered(t) \cup {r} /\ r \notin Registered(t)
      BY <1>2, <2>3 DEF Registered
    <3>2. /\ Cardinality(Registered(t)') = Cardinality(Registered(t)) + 1
          /\ Cardinality(Registered(t)) \in Nat
      BY <2>1, <3>1, RequestSets
    <3> QED BY <2>3, <3>2, LimitsAssumption
  <2> QED BY <2>2, <2>3
<1> QED BY <1>1, <1>2, <1>3, <1>4 DEF SessionsInv, SessionsTyped

\* Sessions are closed: their streams stop, and they leave the index.
LEMMA ClosedStep ==
  ASSUME SessionsInv, NEW S \in SUBSET Live, CloseSessions(S), session' = session
  PROVE  SessionsInv' /\ NoNewStream
<1>0. /\ SessionsTyped
      /\ session \in [Requests -> {0} \cup SessionIds]
      /\ sessions \in [SessionIds ->
                         {Nobody} \cup [owner : Agents, state : {"active", "closed"}]]
      /\ index \in [Agents -> SUBSET SessionIds]
  BY DEF SessionsInv, SessionsTyped
<1>1. /\ sessions' = [s \in SessionIds |-> IF s \in S THEN [sessions[s] EXCEPT !.state = "closed"]
                                           ELSE sessions[s]]
      /\ index' = [a \in Agents |-> index[a] \ S]
      /\ stream' = Interrupted(UNION {Registered(s) : s \in S})
  BY DEF CloseSessions
<1>2. /\ S \subseteq SessionIds
      /\ \A s \in S : sessions[s] \in [owner : Agents, state : {"active", "closed"}]
  BY <1>0 DEF Live, Nobody
<1>3. \A s \in S : /\ sessions'[s] \in [owner : Agents, state : {"active", "closed"}]
                   /\ sessions'[s].state = "closed"
  BY <1>1, <1>2
<1>4. \A s \in SessionIds \ S : sessions'[s] = sessions[s]
  BY <1>1
<1>5. /\ sessions' \in [SessionIds ->
                          {Nobody} \cup [owner : Agents, state : {"active", "closed"}]]
      /\ index' \in [Agents -> SUBSET SessionIds]
  <2>1. ASSUME NEW s \in SessionIds
        PROVE  sessions'[s] \in {Nobody} \cup [owner : Agents, state : {"active", "closed"}]
    BY <1>0, <1>3, <1>4
  <2> QED BY <1>0, <1>1, <2>1
<1>6. Live' = Live \ S
  <2>1. \A s \in SessionIds : s \in S \/ sessions'[s] = sessions[s]
    BY <1>4
  <2> QED BY <1>2, <1>3, <2>1 DEF Live
<1>7. NoNewStream /\ \A s \in S : \A q \in Registered(s) : stream'[q] # "live"
  <2>1. \A s \in S : \A q \in Registered(s) : q \in UNION {Registered(t) : t \in S} /\ q \in Requests
    BY DEF Registered
  <2> QED BY <1>0, <1>1, <2>1, InterruptedDoes
<1>8. LiveInSession'
  <2> SUFFICES ASSUME NEW q \in Requests, stream'[q] = "live"
               PROVE  session[q] \in Live \ S
    BY <1>6 DEF LiveInSession
  <2>1. stream[q] = "live" /\ session[q] \in Live
    BY <1>7 DEF NoNewStream, SessionsInv, LiveInSession
  <2>2. session[q] \notin S
    BY <1>7, <2>1 DEF Registered
  <2> QED BY <2>1, <2>2
<1>9. SessionsIndexed'
  <2> SUFFICES ASSUME NEW a \in Agents
               PROVE  index'[a] = {t \in Live' : sessions'[t].owner = a}
    BY DEF SessionsIndexed
  <2>1. index[a] = {t \in Live : sessions[t].owner = a} /\ index'[a] = index[a] \ S
        /\ Live \subseteq SessionIds
    BY <1>1 DEF SessionsInv, SessionsIndexed, Live
  <2> QED BY <1>4, <1>6, <2>1
<1>10. StreamsLimited'
  <2> SUFFICES ASSUME NEW t \in SessionIds
               PROVE  Cardinality(Registered(t)') <= MaxStreams
    BY DEF StreamsLimited
  <2>1. Registered(t)' \subseteq Registered(t) /\ Registered(t) \in SUBSET Requests
        /\ Registered(t)' \in SUBSET Requests
    BY <1>7 DEF Registered, NoNewStream
  <2>2. /\ Cardinality(Registered(t)') <= Cardinality(Registered(t))
        /\ Cardinality(Registered(t)) \in Nat /\ Cardinality(Registered(t)') \in Nat
    BY <2>1, RequestSets
  <2>3. Cardinality(Registered(t)) <= MaxStreams
    BY DEF SessionsInv, StreamsLimited
  <2> QED BY <2>2, <2>3, LimitsAssumption
<1> QED BY <1>0, <1>5, <1>7, <1>8, <1>9, <1>10 DEF SessionsInv, SessionsTyped, NoNewStream

\* No session changes; streams may end.
LEMMA StreamsEnd ==
  ASSUME SessionsInv, UNCHANGED sessionVars, NoNewStream
  PROVE  SessionsInv'
<1>1. UNCHANGED <<session, sessions, index>> /\ Live' = Live
  BY DEF sessionVars, Live
<1>2. LiveInSession' /\ SessionsIndexed'
  BY <1>1 DEF SessionsInv, LiveInSession, SessionsIndexed, NoNewStream
<1>3. StreamsLimited'
  <2> SUFFICES ASSUME NEW t \in SessionIds
               PROVE  Cardinality(Registered(t)') <= MaxStreams
    BY DEF StreamsLimited
  <2>1. Registered(t)' \subseteq Registered(t) /\ Registered(t) \in SUBSET Requests
        /\ Registered(t)' \in SUBSET Requests
    BY <1>1 DEF Registered, NoNewStream
  <2>2. /\ Cardinality(Registered(t)') <= Cardinality(Registered(t))
        /\ Cardinality(Registered(t)) \in Nat /\ Cardinality(Registered(t)') \in Nat
    BY <2>1, RequestSets
  <2>3. Cardinality(Registered(t)) <= MaxStreams
    BY DEF SessionsInv, StreamsLimited
  <2> QED BY <2>2, <2>3, LimitsAssumption
<1> QED BY <1>1, <1>2, <1>3 DEF SessionsInv, SessionsTyped, NoNewStream

-----------------------------------------------------------------------------
(***************************************************************************)
(* Actions: what they do to the two halves and to what relates them.       *)
(***************************************************************************)
\* What no step on its way can disturb.
LEMMA Carried ==
  ASSUME ServerInv, Onward
  PROVE  /\ stops' \in Nat /\ stops' <= stops => StopsAsked'
         /\ late' = late => LateIsOver'
         /\ NoNewStream => StreamsBegun'
         /\ UNCHANGED stream => NoNewStream
<1>1. ASSUME stops' \in Nat, stops' <= stops
      PROVE  StopsAsked'
  <2>1. Ended \subseteq Ended' /\ Ended \in SUBSET Requests /\ Ended' \in SUBSET Requests
    BY DEF Ended, Onward
  <2>2. /\ Cardinality(Ended) <= Cardinality(Ended')
        /\ Cardinality(Ended) \in Nat /\ Cardinality(Ended') \in Nat
    BY <2>1, RequestSets
  <2>3. stops \in Nat /\ stops <= Cardinality(Ended)
    BY DEF ServerInv, ServerTyped, StopsAsked
  <2> QED BY <1>1, <2>2, <2>3 DEF StopsAsked
<1>2. late' = late => LateIsOver'
  BY DEF ServerInv, LateIsOver, Onward
<1>3. NoNewStream => StreamsBegun'
  BY DEF ServerInv, StreamsBegun, Onward, NoNewStream
<1>4. UNCHANGED stream => NoNewStream
  BY DEF ServerInv, SessionsInv, SessionsTyped, NoNewStream
<1> QED BY <1>1, <1>2, <1>3, <1>4

\* A handler that begins has no stream.
LEMMA HandlerDoes ==
  ASSUME ServerInv, NEW r \in Requests, Begun(r)
  PROVE  stream[r] = "none" /\ calls[r].pc = "begun"
BY DEF ServerInv, StreamsBegun, Begun, Early

LEMMA RejectStep ==
  ASSUME ServerInv, NEW r \in Requests, Reject(r)
  PROVE  ServerInv'
<1>1. CallsInv' /\ Onward
  BY AnsweredStep DEF ServerInv, Reject, Begun, Holding
<1>2. NoNewStream /\ StopsAsked' /\ LateIsOver' /\ StreamsBegun'
  BY <1>1, Carried DEF Reject, serverVars, ServerInv, ServerTyped
<1>3. SessionsInv'
  BY <1>2, StreamsEnd DEF Reject, ServerInv
<1> QED BY <1>1, <1>2, <1>3 DEF ServerInv, ServerTyped, Reject, serverVars

LEMMA ShutdownStep ==
  ASSUME ServerInv, NEW r \in Requests, Shutdown(r)
  PROVE  ServerInv'
<1>1. CallsInv' /\ Onward /\ calls'[r].pc = "done" /\ calls[r].pc = "begun"
  BY AnsweredStep DEF ServerInv, Shutdown, Begun, Holding
<1>2. NoNewStream /\ LateIsOver' /\ StreamsBegun'
  BY <1>1, Carried DEF Shutdown
<1>3. SessionsInv'
  BY <1>2, StreamsEnd DEF Shutdown, ServerInv
<1>4. stops \in Nat /\ stops' = stops + 1 /\ stops <= Cardinality(Ended)
  BY DEF Shutdown, ServerInv, ServerTyped, StopsAsked
<1>5. StopsAsked'
  <2>1. /\ Ended \cup {r} \subseteq Ended' /\ r \notin Ended
        /\ Ended \in SUBSET Requests /\ Ended' \in SUBSET Requests
    BY <1>1 DEF Ended, Onward
  <2>2. /\ Cardinality(Ended \cup {r}) = Cardinality(Ended) + 1
        /\ Cardinality(Ended \cup {r}) <= Cardinality(Ended')
        /\ Cardinality(Ended) \in Nat /\ Cardinality(Ended') \in Nat
    BY <2>1, RequestSets
  <2> QED BY <1>4, <2>2 DEF StopsAsked
<1>6. ServerTyped'
  BY <1>4 DEF ServerInv, ServerTyped, Shutdown
<1> QED BY <1>1, <1>2, <1>3, <1>5, <1>6 DEF ServerInv

\* A handler that finds its session, starts no stream and answers.
LEMMA SessionOnlyStep ==
  ASSUME ServerInv, NEW r \in Requests, Begun(r),
         \E agent \in Agents, s \in SessionIds : Resolve(r, agent, s),
         Answered(r), NoNewStream, UNCHANGED <<serverVars, late>>
  PROVE  ServerInv'
<1>1. CallsInv' /\ Onward
  BY AnsweredStep DEF ServerInv, Begun, Holding
<1>2. StopsAsked' /\ LateIsOver' /\ StreamsBegun'
  BY <1>1, Carried DEF serverVars, ServerInv, ServerTyped
<1>3. SessionsInv'
  BY HandlerDoes, ResolvedStep DEF ServerInv
<1> QED BY <1>1, <1>2, <1>3 DEF ServerInv, ServerTyped, serverVars

LEMMA InterruptStep ==
  ASSUME ServerInv, NEW r \in Requests, Interrupt(r)
  PROVE  ServerInv'
<1>1. PICK agent \in Agents, s \in SessionIds :
        /\ Called(r, agent, "interrupt")
        /\ Resolve(r, agent, s)
        /\ \E R \in {{q} : q \in Requests} \cup {Registered(s)} :
             stream' = Interrupted(R \cap Registered(s))
  BY DEF Interrupt
<1>2. PICK R \in {{q} : q \in Requests} \cup {Registered(s)} :
        stream' = Interrupted(R \cap Registered(s))
  BY <1>1
<1>3. NoNewStream
  BY <1>2, InterruptedDoes DEF ServerInv, SessionsInv
<1> QED BY <1>1, <1>3, SessionOnlyStep DEF Interrupt, Called

LEMMA SpeakStep ==
  ASSUME ServerInv, NEW r \in Requests, Speak(r)
  PROVE  ServerInv'
<1>1. /\ Begun(r) /\ \E agent \in Agents, s \in SessionIds : Resolve(r, agent, s)
      /\ calls' = [calls EXCEPT ![r].pc = "speaking"]
      /\ UNCHANGED <<serverVars, waiters, stream, late>>
  BY DEF Speak, Called
<1>2. CallsInv' /\ Onward
  BY <1>1, HandlerDoes, EngineStep DEF ServerInv
<1>3. NoNewStream /\ StopsAsked' /\ LateIsOver' /\ StreamsBegun'
  BY <1>1, <1>2, Carried DEF serverVars, ServerInv, ServerTyped
<1>4. SessionsInv'
  BY <1>1, <1>3, HandlerDoes, ResolvedStep DEF ServerInv
<1> QED BY <1>1, <1>2, <1>3, <1>4 DEF ServerInv, ServerTyped, serverVars

LEMMA BeginStreamStep ==
  ASSUME ServerInv, NEW r \in Requests, BeginStream(r)
  PROVE  ServerInv'
<1>1. PICK agent \in Agents, s \in SessionIds :
        /\ Called(r, agent, "stream")
        /\ Resolve(r, agent, s)
        /\ Cardinality(Registered(s)) < MaxStreams
  BY DEF BeginStream
<1>2. /\ stream' = [stream EXCEPT ![r] = "live"]
      /\ UNCHANGED <<serverVars, waiters, late>>
      /\ calls[r].pc = "begun" /\ stream[r] = "none"
  BY <1>1, HandlerDoes DEF BeginStream, Called
<1>0. PICK x \in {"speaking", "streaming"} : calls' = [calls EXCEPT ![r].pc = x]
  BY DEF BeginStream
<1>3. CallsInv' /\ Onward /\ calls'[r].pc = x
  BY <1>0, <1>2, EngineStep DEF ServerInv
<1>4. SessionsInv'
  BY <1>1, <1>2, RegisteredStep DEF ServerInv
<1>5. StopsAsked' /\ LateIsOver'
  BY <1>2, <1>3, Carried DEF serverVars, ServerInv, ServerTyped
<1>6. StreamsBegun'
  <2>1. calls'[r].pc \in {"speaking", "streaming"}
    BY <1>3
  <2>2. \A q \in Requests : q # r => stream'[q] = stream[q]
    BY <1>2 DEF ServerInv, SessionsInv, SessionsTyped
  <2> QED BY <1>3, <2>1, <2>2 DEF ServerInv, StreamsBegun, Onward, Early
<1>7. ServerTyped'
  BY <1>2 DEF ServerInv, ServerTyped, serverVars
<1> QED BY <1>3, <1>4, <1>5, <1>6, <1>7 DEF ServerInv

LEMMA HandlerStep ==
  ASSUME ServerInv, NEW r \in Requests, Handler(r)
  PROVE  ServerInv'
<1>1. CASE Reject(r)
  BY <1>1, RejectStep
<1>2. CASE Shutdown(r)
  BY <1>2, ShutdownStep
<1>3. CASE Interrupt(r)
  BY <1>3, InterruptStep
<1>4. CASE BeginStream(r)
  BY <1>4, BeginStreamStep
<1>6. CASE Speak(r)
  BY <1>6, SpeakStep
<1>5. CASE RefuseStream(r)
  <2>1. /\ Begun(r) /\ \E agent \in Agents, s \in SessionIds : Resolve(r, agent, s)
        /\ Answered(r) /\ UNCHANGED <<serverVars, stream, late>>
    BY <1>5 DEF RefuseStream, Called
  <2>2. NoNewStream
    BY <2>1 DEF ServerInv, SessionsInv, SessionsTyped, NoNewStream
  <2> QED BY <2>1, <2>2, SessionOnlyStep
<1> QED BY <1>1, <1>2, <1>3, <1>4, <1>5, <1>6 DEF Handler

-----------------------------------------------------------------------------
LEMMA ReceiveStep ==
  ASSUME ServerInv, NEW r \in Requests, Receive(r)
  PROVE  ServerInv'
<1>1. CallsInv' /\ Onward
  BY ReceivedStep DEF ServerInv, ServerTyped
<1>2. NoNewStream /\ StopsAsked' /\ LateIsOver' /\ StreamsBegun'
  BY <1>1, Carried DEF Receive, serverVars, ServerInv, ServerTyped
<1>3. SessionsInv'
  BY <1>2, StreamsEnd DEF Receive, ServerInv
<1> QED BY <1>1, <1>2, <1>3 DEF ServerInv, ServerTyped, Receive, serverVars

\* The engine has spoken; or a stream ends: its engine has no more chunks, or its time is over.
LEMMA EndStep ==
  ASSUME ServerInv, NEW r \in Requests, EngineReturns(r) \/ EndStream(r) \/ Timeout(r)
  PROVE  ServerInv'
<1>0. /\ calls[r].pc \in Holding /\ Answered(r)
      /\ UNCHANGED <<serverVars, sessionVars, stream, late>>
  BY DEF EngineReturns, EndStream, Timeout, Holding
<1>1. CallsInv' /\ Onward
  BY <1>0, AnsweredStep DEF ServerInv
<1>2. NoNewStream /\ StopsAsked' /\ LateIsOver' /\ StreamsBegun'
  BY <1>0, <1>1, Carried DEF serverVars, ServerInv, ServerTyped
<1>3. SessionsInv'
  BY <1>0, <1>2, StreamsEnd DEF ServerInv
<1> QED BY <1>0, <1>1, <1>2, <1>3 DEF ServerInv, ServerTyped, serverVars

\* The first chunk of a stream that does not live any more is its last.
LEMMA ChunkStep ==
  ASSUME ServerInv, NEW r \in Requests, Chunk(r)
  PROVE  ServerInv'
<1> USE BoundsAssumption
<1>0. /\ calls[r].pc = "streaming" /\ late[r] < MaxLate
      /\ late' = [late EXCEPT ![r] = IF IsInterrupted(r) THEN @ + 1 ELSE @]
      /\ UNCHANGED <<serverVars, sessionVars, stream>>
      /\ late \in [Requests -> 0..MaxLate]
  BY DEF Chunk, ServerInv, ServerTyped
<1>1. CallsInv' /\ Onward /\ (IsInterrupted(r) => calls'[r].pc = "done")
  <2>1. CASE IsInterrupted(r)
    BY <1>0, <2>1, AnsweredStep DEF Chunk, ServerInv, Holding
  <2>2. CASE ~IsInterrupted(r)
    BY <2>2, CallsStay DEF Chunk, ServerInv
  <2> QED BY <2>1, <2>2
<1>2. NoNewStream /\ StopsAsked' /\ StreamsBegun'
  BY <1>0, <1>1, Carried DEF serverVars, ServerInv, ServerTyped
<1>3. SessionsInv'
  BY <1>0, <1>2, StreamsEnd DEF ServerInv
<1>4. late[r] = 0
  BY <1>0 DEF ServerInv, LateIsOver
<1>5. /\ late' \in [Requests -> 0..MaxLate]
      /\ late'[r] = IF IsInterrupted(r) THEN 1 ELSE 0
      /\ \A q \in Requests : q # r => late'[q] = late[q]
  BY <1>0, <1>4
<1>6. LateIsOver'
  BY <1>1, <1>5 DEF ServerInv, LateIsOver, Onward
<1> QED BY <1>0, <1>1, <1>2, <1>3, <1>5, <1>6 DEF ServerInv, ServerTyped, serverVars

LEMMA CompleteStreamStep ==
  ASSUME ServerInv, NEW r \in Requests, CompleteStream(r)
  PROVE  ServerInv'
<1>1. CallsInv' /\ Onward
  BY CallsStay DEF ServerInv, CompleteStream
<1>2. NoNewStream
  BY DEF CompleteStream, NoNewStream, ServerInv, SessionsInv, SessionsTyped
<1>3. StopsAsked' /\ LateIsOver' /\ StreamsBegun'
  BY <1>1, <1>2, Carried DEF CompleteStream, serverVars, ServerInv, ServerTyped
<1>4. SessionsInv'
  BY <1>2, StreamsEnd DEF CompleteStream, ServerInv
<1> QED BY <1>1, <1>3, <1>4 DEF ServerInv, ServerTyped, CompleteStream, serverVars

\* The host closes live sessions: the index of an agent holds no other ones.
LEMMA CloseStep ==
  ASSUME ServerInv, Close
  PROVE  ServerInv'
<1>1. /\ UNCHANGED <<serverVars, calls, waiters, session, late>>
      /\ CloseSession \/ CloseAgentSessions \/ CleanupExpired
  BY DEF Close
<1>2. \E S \in SUBSET Live : CloseSessions(S)
  <2>1. CASE CloseSession
    BY <2>1 DEF CloseSession
  <2>2. CASE CloseAgentSessions
    <3>1. PICK a \in Agents : CloseSessions(index[a])
      BY <2>2 DEF CloseAgentSessions
    <3>2. index[a] \in SUBSET Live
      BY DEF ServerInv, SessionsInv, SessionsIndexed
    <3> QED BY <3>1, <3>2
  <2>3. CASE CleanupExpired
    BY <2>3 DEF CleanupExpired
  <2> QED BY <1>1, <2>1, <2>2, <2>3
<1>3. SessionsInv' /\ NoNewStream
  BY <1>1, <1>2, ClosedStep DEF ServerInv
<1>4. CallsInv' /\ Onward
  BY <1>1, CallsStay DEF ServerInv
<1>5. StopsAsked' /\ LateIsOver' /\ StreamsBegun'
  BY <1>1, <1>3, <1>4, Carried DEF serverVars, ServerInv, ServerTyped
<1> QED BY <1>1, <1>3, <1>4, <1>5 DEF ServerInv, ServerTyped, serverVars

\* start() and stop() touch no request: those in progress go on.
LEMMA StartStopStep ==
  ASSUME ServerInv, Start \/ Stop
  PROVE  ServerInv'
<1> USE BoundsAssumption
<1>1. /\ UNCHANGED <<calls, waiters, sessionVars, stream, late>>
      /\ stops' \in Nat /\ stops' <= stops
      /\ server' \in {"initializing", "running", "stopped"} /\ semaphore' \in 0..MaxStarts
  BY DEF Start, Stop, ServerInv, ServerTyped
<1>2. CallsInv' /\ Onward
  BY <1>1, CallsStay DEF ServerInv
<1>3. NoNewStream /\ StopsAsked' /\ LateIsOver' /\ StreamsBegun'
  BY <1>1, <1>2, Carried
<1>4. SessionsInv'
  BY <1>1, <1>3, StreamsEnd DEF ServerInv
<1> QED BY <1>1, <1>2, <1>3, <1>4 DEF ServerInv, ServerTyped

-----------------------------------------------------------------------------
LEMMA InitServerInv == Init => ServerInv
<1> SUFFICES ASSUME Init PROVE ServerInv
  OBVIOUS
<1> USE BoundsAssumption, LimitsAssumption
<1>1. <<>> \in Seq(Requests)
  OBVIOUS
<1>2. /\ \A sem \in 1..MaxStarts : Holders(sem) = {} /\ waiters[sem] = <<>>
      /\ \A s \in SessionIds : Registered(s) = {}
      /\ Ended = {} /\ Live = {}
  BY DEF Init, Holders, Registered, Ended, Live, Nobody
<1>3. /\ \A sem \in 1..MaxStarts : Cardinality(Holders(sem)) = 0
      /\ \A s \in SessionIds : Cardinality(Registered(s)) = 0
      /\ Cardinality(Ended) = 0
  BY <1>2, FS_EmptySet
<1>4. CallsInv
  <2>1. CallsTyped
    BY <1>1 DEF Init, CallsTyped, Call
  <2>2. WaitersWait
    BY <1>2 DEF WaitersWait
  <2>3. PermitsAccounted
    BY <1>2, <1>3 DEF PermitsAccounted
  <2> QED BY <2>1, <2>2, <2>3 DEF CallsInv
<1>5. SessionsInv
  <2>1. SessionsTyped
    BY DEF Init, SessionsTyped
  <2>2. SessionsIndexed /\ LiveInSession
    BY <1>2 DEF Init, SessionsIndexed, LiveInSession
  <2>3. StreamsLimited
    BY <1>3 DEF StreamsLimited
  <2> QED BY <2>1, <2>2, <2>3 DEF SessionsInv
<1>6. ServerTyped /\ LateIsOver /\ StopsAsked /\ StreamsBegun
  BY <1>3 DEF Init, ServerTyped, LateIsOver, StopsAsked, StreamsBegun
<1> QED BY <1>4, <1>5, <1>6 DEF ServerInv

LEMMA NextServerInv == ServerInv /\ [Next]_vars => ServerInv'
<1> SUFFICES ASSUME ServerInv, [Next]_vars PROVE ServerInv'
  OBVIOUS
<1>1. CASE Start \/ Stop
  BY <1>1, StartStopStep
<1>2. CASE Close
  BY <1>2, CloseStep
<1>3. ASSUME NEW r \in Requests, Receive(r) \/ Handler(r) \/ Chunk(r) \/ EndStream(r)
                                  \/ Timeout(r) \/ CompleteStream(r) \/ EngineReturns(r)
      PROVE  ServerInv'
  BY <1>3, ReceiveStep, HandlerStep, ChunkStep, EndStep, CompleteStreamStep
<1>4. CASE UNCHANGED vars
  <2>1. UNCHANGED <<serverVars, calls, waiters, sessionVars, stream, late>>
    BY <1>4 DEF vars
  <2>2. CallsInv' /\ Onward
    BY <2>1, CallsStay DEF ServerInv
  <2>3. NoNewStream /\ StopsAsked' /\ LateIsOver' /\ StreamsBegun'
    BY <2>1, <2>2, Carried DEF serverVars, ServerInv, ServerTyped
  <2>4. SessionsInv'
    BY <2>1, <2>3, StreamsEnd DEF ServerInv
  <2> QED BY <2>1, <2>2, <2>3, <2>4 DEF ServerInv, ServerTyped, serverVars
<1> QED BY <1>1, <1>2, <1>3, <1>4 DEF Next, LoopStep

LEMMA ServerInvKept == Spec => []ServerInv
BY InitServerInv, NextServerInv, PTL DEF Spec

-----------------------------------------------------------------------------
(***************************************************************************)
(* What the server promises.                                               *)
(***************************************************************************)
\* The types of the server's variables.  No more stop() tasks are pending than
\* requests were sent: each of them asked for one at most.
THEOREM ServerTypesKept == Spec => []TypeOK
<1>1. ServerInv => TypeOK
  <2> SUFFICES ASSUME ServerInv PROVE TypeOK
    OBVIOUS
  <2>1. Ended \in SUBSET Requests /\ stops \in Nat /\ stops <= Cardinality(Ended)
    BY DEF Ended, ServerInv, ServerTyped, StopsAsked
  <2>2. /\ Cardinality(Ended) <= Cardinality(Requests)
        /\ Cardinality(Ended) \in Nat /\ Cardinality(Requests) \in Nat
    BY <2>1, RequestSets
  <2>3. stops \in 0..Cardinality(Requests)
    BY <2>1, <2>2
  <2> QED BY <2>3 DEF TypeOK, ServerInv, ServerTyped, CallsInv, CallsTyped, Call,
                      SessionsInv, SessionsTyped
<1> QED BY <1>1, ServerInvKept, PTL

\* An interrupted, completed or closed stream sends one more chunk at most, and none
\* goes on in a closed session, whatever other requests and the host do meanwhile.
THEOREM StopsHeard == Spec => []StopsAreHeard
<1>1. ServerInv => StopsAreHeard
  <2> SUFFICES ASSUME ServerInv, NEW r \in Requests
               PROVE  late[r] <= 1 /\ (session[r] \in SessionIds \ Live => stream[r] # "live")
    BY DEF StopsAreHeard
  <2>1. late[r] <= 1
    BY BoundsAssumption DEF ServerInv, ServerTyped, LateIsOver
  <2>2. stream[r] = "live" => session[r] \in Live
    BY DEF ServerInv, SessionsInv, LiveInSession
  <2> QED BY <2>1, <2>2
<1> QED BY <1>1, ServerInvKept, PTL

\* The sessions of each agent are those that live and are its own, whichever of the
\* three ways the host takes to close them.
THEOREM IndexKept == Spec => []SessionsIndexed
<1>1. ServerInv => SessionsIndexed
  BY DEF ServerInv, SessionsInv
<1> QED BY <1>1, ServerInvKept, PTL

\* No semaphore, also one of an earlier start(), lets more than its number of requests
\* run, and nobody waits while one of its permits is free.
THEOREM PermitsKept == Spec => []PermitsAccounted
<1>1. ServerInv => PermitsAccounted
  BY DEF ServerInv, CallsInv
<1> QED BY <1>1, ServerInvKept, PTL

\* No session exceeds its number of streams, also when a request of another agent
\* names it.
THEOREM StreamLimitKept == Spec => []StreamsLimited
<1>1. ServerInv => StreamsLimited
  BY DEF ServerInv, SessionsInv
<1> QED BY <1>1, ServerInvKept, PTL

-----------------------------------------------------------------------------
(***************************************************************************)
(* The interrupt handler. The greatest of some positions is one of them:   *)
(* sets of what lies above a position get smaller, and not for ever.       *)
(***************************************************************************)
LEMMA MaxIs ==
  ASSUME NEW S \in SUBSET Int, IsFiniteSet(S), S # {}
  PROVE  Max(S) \in S /\ \A x \in S : x <= Max(S)
<1> DEFINE Above(x) == {y \in S : y > x}
           T == {Above(x) : x \in S}
<1>1. T \subseteq FiniteSubsetsOf(S) /\ T # {}
  <2>1. FiniteSubsetsOf(S) = SUBSET S
    BY FS_FiniteSubsetsOfFinite
  <2>2. \A x \in S : Above(x) \in SUBSET S
    OBVIOUS
  <2>3. T \subseteq SUBSET S
    <3> HIDE DEF Above
    <3> QED BY <2>2
  <2>4. T # {}
    <3> HIDE DEF Above
    <3> QED OBVIOUS
  <2> QED BY <2>1, <2>3, <2>4
<1>2. PICK U \in T : \A V \in T : ~(<<V, U>> \in StrictSubsetOrdering(S))
  <2> HIDE DEF T
  <2>1. IsWellFoundedOn(StrictSubsetOrdering(S), FiniteSubsetsOf(S))
    BY FS_StrictSubsetOrderingWellFounded
  <2> QED BY <1>1, <2>1, WFMin
<1>3. PICK x \in S : U = Above(x)
  OBVIOUS
<1>4. \A y \in S : y <= x
  <2> SUFFICES ASSUME NEW y \in S, y > x PROVE FALSE
    OBVIOUS
  <2>1. x \in Int /\ y \in Int /\ S \subseteq Int
    OBVIOUS
  <2>2. y \in Above(x) /\ y \notin Above(y)
    BY <2>1
  <2>3. Above(y) \subseteq Above(x)
    <3> SUFFICES ASSUME NEW z \in S, z > y PROVE z > x
      OBVIOUS
    <3>1. z \in Int
      BY <2>1
    <3> QED BY <2>1, <3>1
  <2>4. <<Above(y), Above(x)>> \in StrictSubsetOrdering(S)
    BY <2>2, <2>3 DEF StrictSubsetOrdering
  <2> QED BY <1>2, <1>3, <2>4
<1> QED BY <1>4 DEF Max

-----------------------------------------------------------------------------

Positions == 0..MaxPosition
StreamInfo == [position : Positions, interruptible : BOOLEAN, session : Sessions \cup {NoSession}]

\* Points an interval apart, within what may be taken back.
Spaced(ps) == \A i \in 1..(Len(ps) - 1) : ps[i + 1] - ps[i] >= Interval
Narrow(ps) == ps # <<>> => Last(ps) - Head(ps) <= MaxRollback

InterruptInv ==
  /\ playing \subseteq Streams
  /\ info \in [Streams -> StreamInfo]
  /\ points \in [Streams -> Seq(Positions)]
  /\ \A s \in Streams :
       Spaced(points[s]) /\ Narrow(points[s]) /\ (points[s] # <<>> => s \in playing)

\* What is left of points at a new one is spaced and narrow, if they were spaced.
LEMMA TrimmedKeeps ==
  ASSUME NEW ps \in Seq(Positions), Spaced(ps), ps # <<>>,
         NEW q \in Trimmed(ps, Last(ps))
  PROVE  q \in Seq(Positions) /\ Spaced(q) /\ Narrow(q)
<1> DEFINE n == Len(ps)
           p == ps[n]
<1>1. n \in Nat \ {0} /\ p \in Positions /\ Last(ps) = p
  BY LenProperties, ElementOfSeq, EmptySeq DEF Last
<1>2. PICK k \in 0..n : /\ q = SubSeq(ps, k + 1, n)
                        /\ k < n => ps[k + 1] >= p - MaxRollback
  BY <1>1 DEF Trimmed
<1>3. \A i \in k + 1 .. n : ps[i] \in Positions
  BY <1>1, ElementOfSeq
<1>4. /\ q \in Seq(Positions)
      /\ Len(q) = IF k + 1 <= n THEN n - (k + 1) + 1 ELSE 0
      /\ \A i \in 1 .. n - (k + 1) + 1 : q[i] = ps[k + 1 + i - 1]
  BY <1>1, <1>2, <1>3, SubSeqProperties
<1>5. Positions \subseteq Int
  BY InterruptAssumption DEF Positions
<1> HIDE DEF n, p
<1>6. Len(q) = n - k
  <2>1. CASE k + 1 <= n
    BY <1>1, <1>4, <2>1
  <2>2. CASE ~(k + 1 <= n)
    BY <1>1, <1>4, <2>2
  <2> QED BY <2>1, <2>2
<1>7. \A i \in 1..n - k : q[i] = ps[k + i]
  <2> SUFFICES ASSUME NEW i \in 1..n - k
               PROVE  q[i] = ps[k + i]
    OBVIOUS
  <2>1. i \in 1 .. n - (k + 1) + 1 /\ k + 1 + i - 1 = k + i
    BY <1>1
  <2> QED BY <1>4, <2>1
<1>8. Spaced(q)
  <2> SUFFICES ASSUME NEW i \in 1..(n - k - 1)
               PROVE  q[i + 1] - q[i] >= Interval
    BY <1>6 DEF Spaced
  <2>1. /\ i \in 1..n - k /\ i + 1 \in 1..n - k /\ k + i \in 1..(n - 1)
        /\ k + (i + 1) = (k + i) + 1
    BY <1>1
  <2>2. q[i] = ps[k + i] /\ q[i + 1] = ps[(k + i) + 1]
    BY <1>7, <2>1
  <2>3. ps[(k + i) + 1] - ps[k + i] >= Interval
    BY <2>1 DEF Spaced, n
  <2> QED BY <2>2, <2>3
<1>9. Narrow(q)
  <2> SUFFICES ASSUME q # <<>>
               PROVE  q[Len(q)] - q[1] <= MaxRollback
    BY <1>4 DEF Narrow, Last
  <2>1. Len(q) # 0
    BY <1>4, EmptySeq
  <2>2. k < n /\ n - k \in 1..n - k /\ 1 \in 1..n - k /\ k + (n - k) = n
    BY <1>1, <1>6, <2>1
  <2>3. q[Len(q)] = p /\ q[1] = ps[k + 1] /\ ps[k + 1] >= p - MaxRollback
    BY <1>2, <1>6, <1>7, <2>2 DEF p
  <2>4. p \in Int /\ ps[k + 1] \in Int
    <3>1. k + 1 \in k + 1 .. n
      BY <1>1, <2>2
    <3> QED BY <1>1, <1>3, <1>5, <3>1
  <2> QED BY <2>3, <2>4, InterruptAssumption
<1> QED BY <1>4, <1>8, <1>9

\* A new point keeps its distance to the last one.
LEMMA MarkedKeeps ==
  ASSUME NEW ps \in Seq(Positions), Spaced(ps), Narrow(ps),
         NEW p \in Positions, NEW q \in Marked(ps, p)
  PROVE  q \in Seq(Positions) /\ Spaced(q) /\ Narrow(q)
<1>1. CASE ~(ps = <<>> \/ p - Last(ps) >= Interval)
  BY <1>1 DEF Marked
<1>2. CASE ps = <<>> \/ p - Last(ps) >= Interval
  <2> DEFINE new == Append(ps, p)
             n   == Len(ps)
  <2>1. /\ n \in Nat /\ new \in Seq(Positions) /\ Len(new) = n + 1 /\ new[n + 1] = p
        /\ \A i \in 1..n : new[i] = ps[i]
    BY AppendProperties, LenProperties
  <2>2. new # <<>> /\ Last(new) = p
    BY <2>1, EmptySeq DEF Last
  <2>3. Spaced(new)
    <3> SUFFICES ASSUME NEW i \in 1..n
                 PROVE  new[i + 1] - new[i] >= Interval
      BY <2>1 DEF Spaced
    <3>1. new[i] = ps[i]
      BY <2>1
    <3>2. CASE i = n
      <4>1. ps # <<>>
        BY <2>1, <3>2, EmptySeq
      <4> QED BY <1>2, <2>1, <3>1, <3>2, <4>1 DEF Last
    <3>3. CASE i # n
      <4>1. i \in 1..(n - 1) /\ i + 1 \in 1..n
        BY <2>1, <3>3
      <4>2. new[i + 1] = ps[i + 1]
        BY <2>1, <4>1
      <4> QED BY <3>1, <4>1, <4>2 DEF Spaced
    <3> QED BY <3>2, <3>3
  <2>4. q \in Trimmed(new, Last(new))
    BY <1>2, <2>2 DEF Marked
  <2> HIDE DEF new
  <2> QED BY <2>1, <2>2, <2>3, <2>4, TrimmedKeeps
<1> QED BY <1>1, <1>2

\* What rollback() gives is one of the points.
LEMMA RollbackIsPoint ==
  ASSUME NEW s \in Streams, points[s] \in Seq(Positions), points[s] # <<>>,
         NEW target \in Positions
  PROVE  RollbackTo(s, target) \in Positions
<1> DEFINE ps   == points[s]
           upTo == {i \in DOMAIN ps : ps[i] <= target}
<1>1. DOMAIN ps = 1..Len(ps) /\ Len(ps) \in Nat \ {0}
  BY LenProperties, EmptySeq
<1>2. upTo # {} => Max(upTo) \in upTo
  <2>1. IsFiniteSet(1..Len(ps)) /\ upTo \in SUBSET (1..Len(ps))
    BY <1>1, FS_Interval
  <2>2. IsFiniteSet(upTo) /\ upTo \in SUBSET Int
    BY <1>1, <2>1, FS_Subset
  <2> HIDE DEF upTo
  <2> QED BY <2>2, MaxIs
<1>3. (IF upTo # {} THEN Max(upTo) ELSE 1) \in 1..Len(ps)
  BY <1>1, <1>2
<1> HIDE DEF upTo
<1>4. ps[IF upTo # {} THEN Max(upTo) ELSE 1] \in Positions
  BY <1>3, ElementOfSeq
<1> QED BY <1>4 DEF RollbackTo, upTo

\* Of a stream that is forgotten nothing is left.
LEMMA ForgetKeeps ==
  ASSUME InterruptInv, NEW away \in SUBSET Streams, Forget(away)
  PROVE  InterruptInv'
<1>1. Unknown \in StreamInfo
  BY InterruptAssumption DEF Unknown, StreamInfo, Positions
<1>2. <<>> \in Seq(Positions) /\ Spaced(<<>>) /\ Narrow(<<>>)
  BY DEF Spaced, Narrow
<1>3. /\ playing' \subseteq Streams
      /\ info' \in [Streams -> StreamInfo] /\ points' \in [Streams -> Seq(Positions)]
  BY <1>1, <1>2 DEF Forget, InterruptInv
<1>4. ASSUME NEW s \in Streams
      PROVE  Spaced(points'[s]) /\ Narrow(points'[s]) /\ (points'[s] # <<>> => s \in playing')
  <2>1. CASE s \in away
    BY <1>2, <2>1 DEF Forget
  <2>2. CASE s \notin away
    BY <2>2 DEF Forget, InterruptInv
  <2> QED BY <2>1, <2>2
<1> QED BY <1>3, <1>4 DEF InterruptInv, Spaced, Narrow

LEMMA InterruptInvInit == InterruptInit => InterruptInv
  BY InterruptAssumption DEF InterruptInit, InterruptInv, Unknown, StreamInfo, Positions, Spaced, Narrow

\* Every step keeps the points.
LEMMA InterruptInvNext ==
  ASSUME InterruptInv, [InterruptNext]_interruptVars
  PROVE  InterruptInv'
<1>1. ASSUME NEW s \in Streams, Register(s) PROVE InterruptInv'
  <2>1. \E i \in StreamInfo : info' = [info EXCEPT ![s] = i]
    <3>1. PICK may \in BOOLEAN, of \in Sessions \cup {NoSession} :
            info' = [info EXCEPT ![s] = [position |-> 0, interruptible |-> may, session |-> of]]
      BY <1>1 DEF Register
    <3>2. [position |-> 0, interruptible |-> may, session |-> of] \in StreamInfo
      BY InterruptAssumption DEF StreamInfo, Positions
    <3> QED BY <3>1, <3>2
  <2>2. points' = points \/ points' = [points EXCEPT ![s] = <<>>]
    BY <1>1 DEF Register
  <2>3. <<>> \in Seq(Positions) /\ Spaced(<<>>) /\ Narrow(<<>>)
    BY DEF Spaced, Narrow
  <2>4. playing' = playing \cup {s}
    BY <1>1 DEF Register
  <2>5. points' \in [Streams -> Seq(Positions)]
    BY <2>2, <2>3 DEF InterruptInv
  <2>6. ASSUME NEW u \in Streams
        PROVE  Spaced(points'[u]) /\ Narrow(points'[u]) /\ (points'[u] # <<>> => u \in playing')
    BY <2>2, <2>3, <2>4 DEF InterruptInv
  <2>7. info' \in [Streams -> StreamInfo] /\ playing' \subseteq Streams
    BY <2>1, <2>4 DEF InterruptInv
  <2> QED BY <2>5, <2>6, <2>7 DEF InterruptInv, Spaced, Narrow
<1>2. ASSUME NEW s \in Streams, InterruptStream(s) \/ Complete(s) PROVE InterruptInv'
  BY <1>2, ForgetKeeps DEF InterruptStream, Complete
<1>3. ASSUME NEW s \in Streams, GoBack(s) PROVE InterruptInv'
  <2>1. PICK target \in Positions : info' = [info EXCEPT ![s].position = RollbackTo(s, target)]
    BY <1>3 DEF GoBack, Positions
  <2>2. points[s] \in Seq(Positions) /\ points[s] # <<>>
    BY <1>3 DEF InterruptInv, GoBack
  <2>3. RollbackTo(s, target) \in Positions
    BY <2>2, RollbackIsPoint
  <2>4. info' \in [Streams -> StreamInfo]
    BY <2>1, <2>3 DEF InterruptInv, StreamInfo
  <2> QED BY <1>3, <2>4 DEF GoBack, InterruptInv, Spaced, Narrow
<1>4. ASSUME NEW s \in Streams, NEW p \in Positions, NEW text \in BOOLEAN, Update(s, p, text)
      PROVE  InterruptInv'
  <2>1. info' \in [Streams -> StreamInfo] /\ s \in playing /\ playing' = playing
    BY <1>4 DEF Update, InterruptInv, StreamInfo
  <2>2. \E q \in Seq(Positions) :
          Spaced(q) /\ Narrow(q) /\ points' = [points EXCEPT ![s] = q]
    <3>1. points[s] \in Seq(Positions) /\ Spaced(points[s]) /\ Narrow(points[s])
      BY DEF InterruptInv
    <3>2. CASE Rollback /\ text
      <4>1. PICK q \in Marked(points[s], p) : points' = [points EXCEPT ![s] = q]
        BY <1>4, <3>2 DEF Update
      <4>2. q \in Seq(Positions) /\ Spaced(q) /\ Narrow(q)
        BY <3>1, MarkedKeeps
      <4> QED BY <4>1, <4>2
    <3>3. CASE ~(Rollback /\ text)
      <4>1. points' = [points EXCEPT ![s] = points[s]]
        BY <1>4, <3>3 DEF Update, InterruptInv
      <4> QED BY <3>1, <4>1
    <3> QED BY <3>2, <3>3
  <2>3. points' \in [Streams -> Seq(Positions)]
    BY <2>2 DEF InterruptInv
  <2>4. ASSUME NEW u \in Streams
        PROVE  Spaced(points'[u]) /\ Narrow(points'[u]) /\ (points'[u] # <<>> => u \in playing')
    BY <2>1, <2>2 DEF InterruptInv
  <2> QED BY <2>1, <2>3, <2>4 DEF InterruptInv, Spaced, Narrow
<1>5. ASSUME NEW of \in Sessions \cup {NoSession}, InterruptAll(of) PROVE InterruptInv'
  <2>1. PICK hit \in SUBSET Streams : Forget(hit)
    BY <1>5 DEF InterruptAll, InterruptInv
  <2> QED BY <2>1, ForgetKeeps
<1>6. CASE UNCHANGED interruptVars
  BY <1>6 DEF InterruptInv, interruptVars, Spaced, Narrow
<1> QED BY <1>1, <1>2, <1>3, <1>4, <1>5, <1>6 DEF InterruptNext, Positions

LEMMA InterruptInvKept == InterruptSpec => []InterruptInv
<1>1. InterruptInit => InterruptInv
  BY InterruptInvInit
<1>2. InterruptInv /\ [InterruptNext]_interruptVars => InterruptInv'
  BY InterruptInvNext
<1> QED BY <1>1, <1>2, PTL DEF InterruptSpec

\* The interrupt handler's type invariant (interrupts.py), for every set of streams and
\* sessions and all limits.
THEOREM InterruptTypesKept == InterruptSpec => []InterruptTypeOK
<1>1. InterruptInv => InterruptTypeOK
  BY DEF InterruptInv, InterruptTypeOK, StreamInfo, Positions
<1> QED BY <1>1, InterruptInvKept, PTL

\* interrupts.py: the rollback points of a stream stay in order, an interval apart and
\* within what may be taken back, however the player jumps, and a stream that ended or
\* was interrupted has none.
THEOREM PointsKept == InterruptSpec => []PointsInOrder
<1>1. InterruptInv => PointsInOrder
  BY DEF InterruptInv, PointsInOrder, Spaced, Narrow
<1> QED BY <1>1, InterruptInvKept, PTL

-----------------------------------------------------------------------------
(***************************************************************************)
(* The policy enforcer.                                                    *)
(***************************************************************************)

CallState == {"new", "working", "refused", "failed", "streaming", "recorded"}
CallRecord == [pc : CallState, request : Asked \cup {NoRequest}, limit : Nat,
               overlap : 0..Cardinality(Calls)]
Stamp == [of : Calls, at : 0..EndTime]

\* Calls that are in the air with a text, or whose record is of the last minute.
Airborne == {c \in Pending : call[c].request.length > 0}
RecentCalls == {s.of : s \in Recent}
Counted == Airborne \cup RecentCalls
Opened == {c \in Calls : call[c].pc = "streaming"}
Refused == {c \in Calls : call[c].pc = "refused"}

\* However few of them are left, one of them was checked when there was room for all.
RoomForAll ==
  \A X \in SUBSET Counted : X # {} =>
    \E c \in X : Cardinality(X) <= call[c].limit + call[c].overlap
StreamsHaveRoom ==
  \A X \in SUBSET Opened : X # {} => \E c \in X : Cardinality(X) <= call[c].limit

\* A call is recorded once, when it is over.
StampedOnce ==
  /\ \A s \in stamps : call[s.of].pc = "recorded"
  /\ \A s, u \in stamps : s.of = u.of => s = u

PolicyTyped ==
  /\ time \in 0..EndTime /\ resetAt \in 0..EndTime /\ policy \in DOMAIN Policies
  /\ call \in [Calls -> CallRecord]
  /\ stamps \subseteq Stamp
  /\ chars \in Nat /\ streams \in Nat

StreamsAre == streams = Cardinality(Opened) /\ violations = Cardinality(Refused)

PolicyInv ==
  /\ PolicyTyped /\ StampedOnce /\ RoomForAll /\ StreamsHaveRoom /\ StreamsAre /\ GrantedByOne

\* The calls of a set of stamps are as many as the stamps, if none has two.
LEMMA OneStampEach ==
  ASSUME IsFiniteSet(Calls), NEW S \in SUBSET Stamp, \A s, u \in S : s.of = u.of => s = u
  PROVE  /\ {s.of : s \in S} \subseteq Calls /\ IsFiniteSet(S)
         /\ Cardinality(S) = Cardinality({s.of : s \in S})
<1> DEFINE C == {s.of : s \in S}
           f == [s \in S |-> s.of]
<1>1. C \in SUBSET Calls
  BY DEF Stamp
<1>2. IsFiniteSet(C)
  BY <1>1, FS_Subset
<1>3. f \in Injection(S, C) /\ f \in Surjection(S, C)
  BY DEF Injection, Surjection, IsInjective
<1> HIDE DEF f, C
<1>4. IsFiniteSet(S) /\ Cardinality(S) = Cardinality(C)
  BY <1>2, <1>3, FS_Injection
<1> QED BY <1>1, <1>4 DEF C

\* Calls at a place are finitely many, of all of them.
LEMMA CallsFinite ==
  ASSUME NEW S \in SUBSET Calls
  PROVE  /\ IsFiniteSet(S) /\ Cardinality(S) \in Nat /\ Cardinality(Calls) \in Nat
         /\ Cardinality(S) <= Cardinality(Calls)
  BY FS_Subset, FS_CardinalityType, PolicyAssumption

\* One call goes on, and the others stay.
LEMMA CallGoes ==
  ASSUME PolicyTyped, NEW c \in Calls, NEW x \in CallRecord, call' = [call EXCEPT ![c] = x]
  PROVE  /\ call' \in [Calls -> CallRecord] /\ call'[c] = x
         /\ \A d \in Calls \ {c} : call'[d] = call[d]
         /\ Pending' = IF x.pc = "working" THEN Pending \cup {c} ELSE Pending \ {c}
         /\ Opened' = IF x.pc = "streaming" THEN Opened \cup {c} ELSE Opened \ {c}
         /\ Refused' = IF x.pc = "refused" THEN Refused \cup {c} ELSE Refused \ {c}
<1>1. call' \in [Calls -> CallRecord] /\ call'[c] = x /\ \A d \in Calls \ {c} : call'[d] = call[d]
  BY DEF PolicyTyped
<1> QED BY <1>1 DEF Pending, Opened, Refused

\* It only changes where it is.
LEMMA CallChangesPlace ==
  ASSUME PolicyTyped, NEW c \in Calls, NEW pc \in CallState, call' = [call EXCEPT ![c].pc = pc]
  PROVE  \E x \in CallRecord :
           /\ call' = [call EXCEPT ![c] = x] /\ x.pc = pc /\ x.request = call[c].request
           /\ x.limit = call[c].limit /\ x.overlap = call[c].overlap
<1> DEFINE x == [call[c] EXCEPT !.pc = pc]
<1>1. call[c] \in CallRecord
  BY DEF PolicyTyped
<1>2. /\ x \in CallRecord /\ x.pc = pc /\ x.request = call[c].request
      /\ x.limit = call[c].limit /\ x.overlap = call[c].overlap
  BY <1>1 DEF CallRecord
<1>3. call' = [call EXCEPT ![c] = x]
  BY DEF PolicyTyped
<1> QED BY <1>2, <1>3

\* What holds of the calls that count holds of fewer of them.
LEMMA RoomStays ==
  ASSUME RoomForAll, Counted' \subseteq Counted,
         \A c \in Counted' : call'[c].limit = call[c].limit /\ call'[c].overlap = call[c].overlap
  PROVE  RoomForAll'
<1> SUFFICES ASSUME NEW X \in SUBSET Counted', X # {}
             PROVE  \E c \in X : Cardinality(X) <= call'[c].limit + call'[c].overlap
  BY DEF RoomForAll
<1>1. PICK c \in X : Cardinality(X) <= call[c].limit + call[c].overlap
  BY DEF RoomForAll
<1> QED BY <1>1

LEMMA StreamRoomStays ==
  ASSUME StreamsHaveRoom, Opened' \subseteq Opened,
         \A c \in Opened' : call'[c].limit = call[c].limit
  PROVE  StreamsHaveRoom'
<1> SUFFICES ASSUME NEW X \in SUBSET Opened', X # {}
             PROVE  \E c \in X : Cardinality(X) <= call'[c].limit
  BY DEF StreamsHaveRoom
<1>1. PICK c \in X : Cardinality(X) <= call[c].limit
  BY DEF StreamsHaveRoom
<1> QED BY <1>1

LEMMA GrantStays ==
  ASSUME GrantedByOne, Pending' \subseteq Pending,
         \A c \in Pending' : call'[c].request = call[c].request /\ call'[c].limit = call[c].limit
  PROVE  GrantedByOne'
<1> SUFFICES ASSUME NEW c \in Pending'
             PROVE  \E name \in DOMAIN Policies :
                      LET r == call'[c].request
                          p == Policies[name] IN
                      /\ r.tool \in p.tools /\ r.length <= p.text /\ call'[c].limit = p.requests
                      /\ r.voice # "" => r.voice \in p.voices
                      /\ r.backend # "" => r.backend \in p.backends
                                           /\ (r.backend \in External => p.external)
  BY DEF GrantedByOne
<1>1. c \in Pending /\ call'[c].request = call[c].request /\ call'[c].limit = call[c].limit
  OBVIOUS
<1> QED BY <1>1 DEF GrantedByOne

\* A call that leaves no stamp of its own, and does not start to work.
LEMMA RoomOfOthers ==
  ASSUME PolicyInv, NEW c \in Calls, NEW x \in CallRecord, call' = [call EXCEPT ![c] = x],
         x.pc # "working", Recent' \subseteq Recent,
         (x.limit = call[c].limit /\ x.overlap = call[c].overlap) \/ call[c].pc = "new"
  PROVE  RoomForAll'
<1>1. /\ Pending' = Pending \ {c} /\ \A d \in Calls \ {c} : call'[d] = call[d]
      /\ call'[c] = x
  BY CallGoes DEF PolicyInv
<1>2. RecentCalls' \subseteq RecentCalls
  BY DEF RecentCalls
<1>3. Airborne' \subseteq Airborne
  BY <1>1 DEF Airborne, Pending
<1>4. RecentCalls \subseteq Calls /\ Airborne \subseteq Calls
      /\ \A d \in RecentCalls : call[d].pc = "recorded"
  BY DEF RecentCalls, Recent, Airborne, Pending, PolicyInv, PolicyTyped, Stamp, StampedOnce
<1>5. Counted' \subseteq Counted
  BY <1>2, <1>3 DEF Counted
<1>6. \A d \in Counted' : call'[d].limit = call[d].limit /\ call'[d].overlap = call[d].overlap
  <2> SUFFICES ASSUME NEW d \in Counted'
               PROVE  call'[d].limit = call[d].limit /\ call'[d].overlap = call[d].overlap
    OBVIOUS
  <2>1. d \in Calls /\ (call[d].pc = "recorded" \/ call[d].pc = "working")
    BY <1>4, <1>5 DEF Counted, Airborne, Pending
  <2> QED BY <1>1, <2>1
<1> QED BY <1>5, <1>6, RoomStays DEF PolicyInv

LEMMA PolicyInvInit == PolicyInit => PolicyInv
<1> SUFFICES ASSUME PolicyInit PROVE PolicyInv
  OBVIOUS
<1>1. Cardinality(Calls) \in Nat
  BY CallsFinite
<1>2. PolicyTyped
  BY <1>1, PolicyAssumption DEF PolicyInit, PolicyTyped, CallRecord, CallState
<1>3. Counted = {} /\ Opened = {} /\ Refused = {} /\ Pending = {}
  BY DEF PolicyInit, Counted, Airborne, Pending, RecentCalls, Recent, Opened, Refused
<1>4. RoomForAll /\ StreamsHaveRoom /\ GrantedByOne
  BY <1>3 DEF RoomForAll, StreamsHaveRoom, GrantedByOne
<1>5. StampedOnce /\ StreamsAre
  BY <1>3, FS_EmptySet DEF PolicyInit, StampedOnce, StreamsAre
<1> QED BY <1>2, <1>4, <1>5 DEF PolicyInv

\* A refusal, after which the old stamps may be gone.
LEMMA RefuseKeeps ==
  ASSUME PolicyInv, NEW c \in Calls, call[c].pc = "new", Refuse(c),
         stamps' \subseteq stamps, chars' \in Nat, resetAt' \in {resetAt, time},
         UNCHANGED <<time, policy, streams>>
  PROVE  PolicyInv'
<1>1. PICK x \in CallRecord :
        /\ call' = [call EXCEPT ![c] = x] /\ x.pc = "refused" /\ x.request = call[c].request
        /\ x.limit = call[c].limit /\ x.overlap = call[c].overlap
  BY CallChangesPlace DEF Refuse, PolicyInv, CallState
<1>2. /\ call' \in [Calls -> CallRecord] /\ call'[c] = x
      /\ \A d \in Calls \ {c} : call'[d] = call[d]
      /\ Pending' = Pending \ {c} /\ Opened' = Opened \ {c} /\ Refused' = Refused \cup {c}
  BY <1>1, CallGoes DEF PolicyInv
<1>3. PolicyTyped'
  BY <1>2 DEF PolicyInv, PolicyTyped
<1>4. StampedOnce'
  BY <1>2 DEF PolicyInv, StampedOnce, PolicyTyped, Stamp
<1>5. Recent' \subseteq Recent
  BY DEF Recent
<1>6. RoomForAll'
  BY <1>1, <1>5, RoomOfOthers
<1>7. c \notin Opened /\ c \notin Refused /\ c \notin Pending
  BY DEF Opened, Refused, Pending
<1>8. StreamsHaveRoom'
  <2>1. \A d \in Opened' : call'[d].limit = call[d].limit
    BY <1>2 DEF Opened
  <2> QED BY <1>2, <2>1, StreamRoomStays DEF PolicyInv
<1>9. StreamsAre'
  <2>1. Refused \in SUBSET Calls
    BY DEF Refused
  <2>2. Cardinality(Refused \cup {c}) = Cardinality(Refused) + 1
    BY <1>7, <2>1, CallsFinite, FS_AddElement
  <2>3. Opened' = Opened
    BY <1>2, <1>7
  <2> QED BY <1>2, <2>2, <2>3 DEF StreamsAre, PolicyInv, Refuse
<1>10. GrantedByOne'
  <2>1. \A d \in Pending' : call'[d].request = call[d].request /\ call'[d].limit = call[d].limit
    BY <1>2 DEF Pending
  <2> QED BY <1>2, <2>1, GrantStays DEF PolicyInv
<1> QED BY <1>3, <1>4, <1>6, <1>8, <1>9, <1>10 DEF PolicyInv

\* A call is checked, and its work may begin: there was room for it and for all that
\* are in the air.
LEMMA CheckedKeeps ==
  ASSUME PolicyInv, NEW c \in Calls, NEW r \in Asked, CheckAll(c, r),
         call' = [call EXCEPT ![c] =
                   [pc |-> "working", request |-> r, limit |-> Current.requests,
                    overlap |-> Cardinality(Pending)]],
         r.length > 0 => Cardinality(Recent) < Current.requests, Permitted(r),
         UNCHANGED violations
  PROVE  PolicyInv'
<1> DEFINE x == [pc |-> "working", request |-> r, limit |-> Current.requests,
                 overlap |-> Cardinality(Pending)]
<1>1. /\ call[c].pc = "new" /\ r.tool \in Current.tools /\ r.length <= Current.text
      /\ UNCHANGED <<time, policy, streams>> /\ r.length \in Nat
      /\ stamps' = Recent \/ stamps' = stamps
      /\ chars' \in {chars, 0} /\ resetAt' \in {resetAt, time}
  BY PolicyAssumption DEF CheckAll
<1>2. Pending \in SUBSET Calls /\ Opened \in SUBSET Calls /\ Refused \in SUBSET Calls
  BY DEF Pending, Opened, Refused
<1>3. Cardinality(Pending) \in 0..Cardinality(Calls) /\ IsFiniteSet(Pending)
  BY <1>2, CallsFinite
<1>4. Current.requests \in Nat
  BY PolicyAssumption DEF PolicyInv, PolicyTyped, Current
<1>5. /\ x \in CallRecord /\ call' = [call EXCEPT ![c] = x]
      /\ x.pc = "working" /\ x.request = r /\ x.limit = Current.requests
      /\ x.overlap = Cardinality(Pending)
  BY <1>3, <1>4 DEF CallRecord, CallState
<1> HIDE DEF x
<1>6. /\ call' \in [Calls -> CallRecord] /\ call'[c] = x
      /\ \A d \in Calls \ {c} : call'[d] = call[d]
      /\ Pending' = Pending \cup {c} /\ Opened' = Opened \ {c} /\ Refused' = Refused \ {c}
  BY <1>5, CallGoes DEF PolicyInv
<1>7. c \notin Opened /\ c \notin Refused /\ c \notin Pending
  BY <1>1 DEF Opened, Refused, Pending
<1>8. Opened' = Opened /\ Refused' = Refused
  BY <1>6, <1>7
<1>9. PolicyTyped'
  BY <1>1, <1>6 DEF PolicyInv, PolicyTyped, Recent
<1>10. StampedOnce' /\ c \notin RecentCalls /\ RecentCalls \subseteq Calls
  <2>1. \A s \in stamps : s.of \in Calls /\ s.of # c
    BY <1>1 DEF PolicyInv, PolicyTyped, StampedOnce, Stamp
  <2>2. stamps' \subseteq stamps
    BY <1>1 DEF Recent
  <2>3. c \notin RecentCalls /\ RecentCalls \subseteq Calls
    BY <2>1 DEF RecentCalls, Recent
  <2>4. \A s \in stamps' : call'[s.of].pc = "recorded"
    BY <1>6, <2>1, <2>2 DEF PolicyInv, StampedOnce
  <2> QED BY <2>2, <2>3, <2>4 DEF PolicyInv, StampedOnce
<1>11. StreamsHaveRoom'
  <2>1. \A d \in Opened' : call'[d].limit = call[d].limit
    BY <1>6, <1>7, <1>8 DEF Opened
  <2> QED BY <1>8, <2>1, StreamRoomStays DEF PolicyInv
<1>12. StreamsAre'
  BY <1>1, <1>8 DEF StreamsAre, PolicyInv
<1>13. RecentCalls' = RecentCalls
  <2>1. Recent' = Recent
    BY <1>1 DEF Recent
  <2> QED BY <2>1 DEF RecentCalls
<1>14. RoomForAll'
  <2> SUFFICES ASSUME NEW X \in SUBSET Counted', X # {}
               PROVE  \E d \in X : Cardinality(X) <= call'[d].limit + call'[d].overlap
    BY DEF RoomForAll
  <2>1. Airborne' \subseteq Airborne \cup {c} /\ (r.length <= 0 => c \notin Airborne')
    <3>1. \A d \in Airborne' : d \in Pending' /\ call'[d].request.length > 0
      BY DEF Airborne
    <3>2. \A d \in Airborne' \ {c} : d \in Airborne
      BY <1>2, <1>6, <3>1 DEF Airborne
    <3>3. c \in Airborne' => r.length > 0
      BY <1>5, <1>6, <3>1
    <3> QED BY <1>1, <3>2, <3>3
  <2>2. Airborne \subseteq Pending
    BY DEF Airborne
  <2>3. CASE c \notin X
    <3>1. X \in SUBSET Counted
      BY <1>13, <2>1, <2>3 DEF Counted
    <3>2. PICK d \in X : Cardinality(X) <= call[d].limit + call[d].overlap
      BY <3>1 DEF PolicyInv, RoomForAll
    <3>3. d \in Calls \ {c}
      BY <1>2, <1>10, <2>2, <2>3, <3>1 DEF Counted
    <3> QED BY <1>6, <3>2, <3>3
  <2>4. CASE c \in X
    <3>1. r.length > 0
      BY <1>1, <1>10, <1>13, <2>1, <2>4 DEF Counted
    <3>2. Cardinality(Recent) < Current.requests
      BY <3>1
    <3>3. /\ IsFiniteSet(RecentCalls) /\ Cardinality(RecentCalls) = Cardinality(Recent)
      <4>1. Recent \in SUBSET Stamp /\ \A s, u \in Recent : s.of = u.of => s = u
        BY DEF Recent, PolicyInv, PolicyTyped, StampedOnce
      <4>2. IsFiniteSet(Calls)
        BY PolicyAssumption
      <4>3. Cardinality(Recent) = Cardinality(RecentCalls)
        BY <4>1, <4>2, OneStampEach DEF RecentCalls
      <4> QED BY <1>10, <4>3, CallsFinite
    <3>4. /\ Cardinality(Pending \cup RecentCalls) <= Cardinality(Pending) + Cardinality(RecentCalls)
          /\ IsFiniteSet(Pending \cup RecentCalls) /\ Cardinality(Pending \cup RecentCalls) \in Nat
      <4>1. IsFiniteSet(Pending \cap RecentCalls)
        BY <1>3, FS_Intersection
      <4>2. /\ Cardinality(Pending) \in Nat /\ Cardinality(RecentCalls) \in Nat
            /\ Cardinality(Pending \cap RecentCalls) \in Nat
        BY <1>3, <3>3, <4>1, FS_CardinalityType
      <4>3. /\ IsFiniteSet(Pending \cup RecentCalls)
            /\ Cardinality(Pending \cup RecentCalls)
                 = Cardinality(Pending) + Cardinality(RecentCalls) - Cardinality(Pending \cap RecentCalls)
        BY <1>3, <3>3, FS_Union
      <4>4. Cardinality(Pending \cup RecentCalls) \in Nat
        BY <4>3, FS_CardinalityType
      <4> QED BY <4>2, <4>3, <4>4
    <3>5. X \ {c} \in SUBSET (Pending \cup RecentCalls)
      BY <1>13, <2>1, <2>2 DEF Counted
    <3>6. IsFiniteSet(X \ {c}) /\ Cardinality(X \ {c}) <= Cardinality(Pending \cup RecentCalls)
      BY <3>4, <3>5, FS_Subset
    <3>7. Cardinality(X) = Cardinality(X \ {c}) + 1 /\ Cardinality(X \ {c}) \in Nat
      <4>1. X = (X \ {c}) \cup {c}
        BY <2>4
      <4> QED BY <3>6, <4>1, FS_AddElement, FS_CardinalityType
    <3>8. Cardinality(Recent) \in Nat
      BY <3>3, FS_CardinalityType
    <3>9. Cardinality(X) <= Current.requests + Cardinality(Pending)
      BY <1>3, <1>4, <3>2, <3>3, <3>4, <3>6, <3>7, <3>8
    <3> QED BY <1>5, <1>6, <2>4, <3>9
  <2> QED BY <2>3, <2>4
<1>15. GrantedByOne'
  <2> SUFFICES ASSUME NEW d \in Pending'
               PROVE  \E name \in DOMAIN Policies :
                        LET q == call'[d].request
                            p == Policies[name] IN
                        /\ q.tool \in p.tools /\ q.length <= p.text /\ call'[d].limit = p.requests
                        /\ q.voice # "" => q.voice \in p.voices
                        /\ q.backend # "" => q.backend \in p.backends
                                             /\ (q.backend \in External => p.external)
    BY DEF GrantedByOne
  <2>1. CASE d = c
    <3>1. policy \in DOMAIN Policies /\ call'[d].request = r /\ call'[d].limit = Current.requests
      BY <1>5, <1>6, <2>1 DEF PolicyInv, PolicyTyped
    <3>2. /\ r.voice # "" => r.voice \in Current.voices
          /\ r.backend # "" => r.backend \in Current.backends
                               /\ (r.backend \in External => Current.external)
      BY DEF Permitted, AllowsVoice, AllowsBackend
    <3> QED BY <1>1, <3>1, <3>2 DEF Current
  <2>2. CASE d # c
    <3>1. d \in Pending /\ call'[d] = call[d]
      BY <1>2, <1>6, <2>2
    <3> QED BY <3>1 DEF PolicyInv, GrantedByOne
  <2> QED BY <2>1, <2>2
<1> QED BY <1>9, <1>10, <1>11, <1>12, <1>14, <1>15 DEF PolicyInv

\* What was done is recorded, of a call that was in the air.
LEMMA RecordKeeps ==
  ASSUME PolicyInv, NEW c \in Calls, Record(c)
  PROVE  PolicyInv'
<1>1. PICK x \in CallRecord :
        /\ call' = [call EXCEPT ![c] = x] /\ x.pc = "recorded" /\ x.request = call[c].request
        /\ x.limit = call[c].limit /\ x.overlap = call[c].overlap
  BY CallChangesPlace DEF Record, PolicyInv, CallState
<1>2. /\ call' \in [Calls -> CallRecord] /\ call'[c] = x
      /\ \A d \in Calls \ {c} : call'[d] = call[d]
      /\ Pending' = Pending \ {c} /\ Opened' = Opened \ {c} /\ Refused' = Refused \ {c}
  BY <1>1, CallGoes DEF PolicyInv
<1>3. call[c].pc = "working" /\ call[c].request.length \in Nat
  <2>1. call[c].request \in Asked \cup {NoRequest}
    BY DEF PolicyInv, PolicyTyped, CallRecord
  <2>2. NoRequest.length \in Nat /\ \A r \in Asked : r.length \in Nat
    BY PolicyAssumption DEF NoRequest
  <2>3. call[c].pc = "working"
    BY DEF Record
  <2> QED BY <2>1, <2>2, <2>3
<1>4. Opened' = Opened /\ Refused' = Refused
  BY <1>2, <1>3 DEF Opened, Refused
<1>5. \/ stamps' = stamps \cup {[of |-> c, at |-> time]} /\ call[c].request.length > 0
      \/ stamps' = stamps
  BY DEF Record
<1>6. \A s \in stamps : s.of \in Calls /\ s.of # c
  BY <1>3 DEF PolicyInv, StampedOnce, PolicyTyped, Stamp
<1>7. UNCHANGED <<time, policy, resetAt, streams, violations>> /\ chars' \in Nat
  BY <1>3 DEF Record, PolicyInv, PolicyTyped
<1>8. PolicyTyped'
  <2>1. [of |-> c, at |-> time] \in Stamp
    BY DEF PolicyInv, PolicyTyped, Stamp
  <2>2. stamps' \subseteq Stamp
    BY <1>5, <2>1 DEF PolicyInv, PolicyTyped
  <2>3. /\ time' = time /\ resetAt' = resetAt /\ policy' = policy /\ streams' = streams
        /\ chars' \in Nat
    BY <1>7
  <2>4. call' \in [Calls -> CallRecord]
    BY <1>2
  <2> QED BY <2>2, <2>3, <2>4 DEF PolicyInv, PolicyTyped
<1>9. StampedOnce'
  <2>1. \A s \in stamps' : s \in stamps \/ (s.of = c /\ s = [of |-> c, at |-> time])
    BY <1>5
  <2>2. \A s \in stamps' : call'[s.of].pc = "recorded"
    BY <1>1, <1>2, <1>6, <2>1 DEF PolicyInv, StampedOnce
  <2>3. \A s, u \in stamps' : s.of = u.of => s = u
    BY <1>6, <2>1 DEF PolicyInv, StampedOnce
  <2> QED BY <2>2, <2>3 DEF StampedOnce
<1>10. Counted' \subseteq Counted
  <2>1. Airborne' \subseteq Airborne
    BY <1>2 DEF Airborne, Pending
  <2>2. RecentCalls' \subseteq RecentCalls \cup Airborne
    <3>1. \A s \in Recent' : s \in Recent \/ (s.of = c /\ call[c].request.length > 0)
      BY <1>5, <1>7 DEF Recent
    <3>2. call[c].request.length > 0 => c \in Airborne
      BY <1>3 DEF Airborne, Pending
    <3> QED BY <3>1, <3>2 DEF RecentCalls
  <2> QED BY <2>1, <2>2 DEF Counted
<1>11. Counted' \subseteq Calls
  BY <1>8 DEF Counted, Airborne, Pending, RecentCalls, Recent, PolicyTyped, Stamp
<1>12. RoomForAll'
  <2>1. \A d \in Counted' : call'[d].limit = call[d].limit /\ call'[d].overlap = call[d].overlap
    BY <1>1, <1>2, <1>11
  <2> QED BY <1>10, <2>1, RoomStays DEF PolicyInv
<1>13. StreamsHaveRoom'
  <2>1. \A d \in Opened' : call'[d].limit = call[d].limit
    BY <1>2 DEF Opened
  <2> QED BY <1>4, <2>1, StreamRoomStays DEF PolicyInv
<1>14. StreamsAre'
  BY <1>4, <1>7 DEF StreamsAre, PolicyInv
<1>15. GrantedByOne'
  <2>1. \A d \in Pending' : call'[d].request = call[d].request /\ call'[d].limit = call[d].limit
    BY <1>2 DEF Pending
  <2> QED BY <1>2, <2>1, GrantStays DEF PolicyInv
<1> QED BY <1>8, <1>9, <1>12, <1>13, <1>14, <1>15 DEF PolicyInv

LEMMA FailKeeps ==
  ASSUME PolicyInv, NEW c \in Calls, Fail(c)
  PROVE  PolicyInv'
<1>1. PICK x \in CallRecord :
        /\ call' = [call EXCEPT ![c] = x] /\ x.pc = "failed" /\ x.request = call[c].request
        /\ x.limit = call[c].limit /\ x.overlap = call[c].overlap
  BY CallChangesPlace DEF Fail, PolicyInv, CallState
<1>2. /\ call' \in [Calls -> CallRecord] /\ call'[c] = x
      /\ \A d \in Calls \ {c} : call'[d] = call[d]
      /\ Pending' = Pending \ {c} /\ Opened' = Opened \ {c} /\ Refused' = Refused \ {c}
  BY <1>1, CallGoes DEF PolicyInv
<1>3. /\ call[c].pc = "working"
      /\ UNCHANGED <<time, policy, stamps, chars, resetAt, streams, violations>>
  BY DEF Fail
<1>4. Opened' = Opened /\ Refused' = Refused
  BY <1>2, <1>3 DEF Opened, Refused
<1>5. PolicyTyped'
  BY <1>2, <1>3 DEF PolicyInv, PolicyTyped
<1>6. StampedOnce'
  <2>1. \A s \in stamps : s.of \in Calls /\ s.of # c
    BY <1>3 DEF PolicyInv, StampedOnce, PolicyTyped, Stamp
  <2> QED BY <1>2, <1>3, <2>1 DEF PolicyInv, StampedOnce
<1>7. RoomForAll'
  <2>1. Recent' \subseteq Recent
    BY <1>3 DEF Recent
  <2> QED BY <1>1, <2>1, RoomOfOthers
<1>8. StreamsHaveRoom'
  <2>1. \A d \in Opened' : call'[d].limit = call[d].limit
    BY <1>2 DEF Opened
  <2> QED BY <1>4, <2>1, StreamRoomStays DEF PolicyInv
<1>9. StreamsAre'
  BY <1>3, <1>4 DEF StreamsAre, PolicyInv
<1>10. GrantedByOne'
  <2>1. \A d \in Pending' : call'[d].request = call[d].request /\ call'[d].limit = call[d].limit
    BY <1>2 DEF Pending
  <2> QED BY <1>2, <2>1, GrantStays DEF PolicyInv
<1> QED BY <1>5, <1>6, <1>7, <1>8, <1>9, <1>10 DEF PolicyInv

\* A stream begins, when there are fewer than the policy allows.
LEMMA StreamStarts ==
  ASSUME PolicyInv, NEW c \in Calls, StartStream(c), MayStream
  PROVE  PolicyInv'
<1> DEFINE x == [call[c] EXCEPT !.pc = "streaming", !.limit = Current.streams]
<1>1. /\ call[c].pc = "new" /\ streams' = streams + 1 /\ streams < Current.streams
      /\ UNCHANGED <<time, policy, stamps, chars, resetAt, violations>>
      /\ call' = [call EXCEPT ![c].pc = "streaming", ![c].limit = Current.streams]
  BY DEF StartStream, MayStream
<1>2. Current.streams \in Nat
  BY PolicyAssumption DEF PolicyInv, PolicyTyped, Current
<1>3. /\ x \in CallRecord /\ x.pc = "streaming" /\ x.limit = Current.streams
      /\ call' = [call EXCEPT ![c] = x]
  BY <1>1, <1>2 DEF CallRecord, CallState, PolicyInv, PolicyTyped
<1> HIDE DEF x
<1>4. /\ call' \in [Calls -> CallRecord] /\ call'[c] = x
      /\ \A d \in Calls \ {c} : call'[d] = call[d]
      /\ Pending' = Pending \ {c} /\ Opened' = Opened \cup {c} /\ Refused' = Refused \ {c}
  BY <1>3, CallGoes DEF PolicyInv
<1>5. Opened \in SUBSET Calls /\ c \notin Opened /\ Pending' = Pending /\ Refused' = Refused
  BY <1>1, <1>4 DEF Opened, Pending, Refused
<1>6. /\ Cardinality(Opened \cup {c}) = Cardinality(Opened) + 1
      /\ Cardinality(Opened) \in Nat /\ IsFiniteSet(Opened)
  BY <1>5, CallsFinite, FS_AddElement
<1>7. streams = Cardinality(Opened)
  BY DEF PolicyInv, StreamsAre
<1>8. PolicyTyped'
  BY <1>1, <1>4 DEF PolicyInv, PolicyTyped
<1>9. StampedOnce'
  <2>1. \A s \in stamps : s.of \in Calls /\ s.of # c
    BY <1>1 DEF PolicyInv, StampedOnce, PolicyTyped, Stamp
  <2> QED BY <1>1, <1>4, <2>1 DEF PolicyInv, StampedOnce
<1>10. RoomForAll'
  <2>1. Recent' \subseteq Recent
    BY <1>1 DEF Recent
  <2> QED BY <1>1, <1>3, <2>1, RoomOfOthers
<1>11. StreamsHaveRoom'
  <2> SUFFICES ASSUME NEW X \in SUBSET Opened', X # {}
               PROVE  \E d \in X : Cardinality(X) <= call'[d].limit
    BY DEF StreamsHaveRoom
  <2>1. CASE c \in X
    <3>1. Cardinality(X) <= Cardinality(Opened \cup {c}) /\ Cardinality(X) \in Nat
      BY <1>4, <1>6, FS_AddElement, FS_Subset, FS_CardinalityType
    <3> QED BY <1>1, <1>2, <1>3, <1>4, <1>6, <1>7, <2>1, <3>1
  <2>2. CASE c \notin X
    <3>1. X \in SUBSET Opened
      BY <1>4, <2>2
    <3>2. PICK d \in X : Cardinality(X) <= call[d].limit
      BY <3>1 DEF PolicyInv, StreamsHaveRoom
    <3> QED BY <1>4, <1>5, <2>2, <3>1, <3>2
  <2> QED BY <2>1, <2>2
<1>12. StreamsAre'
  BY <1>1, <1>4, <1>5, <1>6 DEF StreamsAre, PolicyInv
<1>13. GrantedByOne'
  <2>1. \A d \in Pending' : call'[d].request = call[d].request /\ call'[d].limit = call[d].limit
    BY <1>4, <1>5 DEF Pending
  <2> QED BY <1>5, <2>1, GrantStays DEF PolicyInv
<1> QED BY <1>8, <1>9, <1>10, <1>11, <1>12, <1>13 DEF PolicyInv

LEMMA StreamEnds ==
  ASSUME PolicyInv, NEW c \in Calls, RecordStreamEnd(c)
  PROVE  PolicyInv'
<1>1. PICK x \in CallRecord :
        /\ call' = [call EXCEPT ![c] = x] /\ x.pc = "recorded" /\ x.request = call[c].request
        /\ x.limit = call[c].limit /\ x.overlap = call[c].overlap
  BY CallChangesPlace DEF RecordStreamEnd, PolicyInv, CallState
<1>2. /\ call' \in [Calls -> CallRecord] /\ call'[c] = x
      /\ \A d \in Calls \ {c} : call'[d] = call[d]
      /\ Pending' = Pending \ {c} /\ Opened' = Opened \ {c} /\ Refused' = Refused \ {c}
  BY <1>1, CallGoes DEF PolicyInv
<1>3. /\ call[c].pc = "streaming"
      /\ UNCHANGED <<time, policy, stamps, chars, resetAt, violations>>
      /\ streams' = IF streams = 0 THEN 0 ELSE streams - 1
  BY DEF RecordStreamEnd
<1>4. /\ c \in Opened /\ Opened \in SUBSET Calls
      /\ Pending' = Pending /\ Refused' = Refused
  BY <1>2, <1>3 DEF Opened, Pending, Refused
<1>5. /\ Cardinality(Opened \ {c}) = Cardinality(Opened) - 1
      /\ Cardinality(Opened \ {c}) \in Nat /\ Cardinality(Opened) \in Nat
  BY <1>4, CallsFinite, FS_RemoveElement, FS_CardinalityType
<1>6. StreamsAre' /\ streams' \in Nat
  <2>1. streams = Cardinality(Opened) /\ violations = Cardinality(Refused)
    BY DEF StreamsAre, PolicyInv
  <2>2. streams' = Cardinality(Opened \ {c}) /\ streams' \in Nat
    BY <1>3, <1>5, <2>1
  <2> QED BY <1>2, <1>3, <1>4, <2>1, <2>2 DEF StreamsAre
<1>7. PolicyTyped'
  BY <1>2, <1>3, <1>6 DEF PolicyInv, PolicyTyped
<1>8. StampedOnce'
  <2>1. \A s \in stamps : s.of \in Calls /\ s.of # c
    BY <1>3 DEF PolicyInv, StampedOnce, PolicyTyped, Stamp
  <2> QED BY <1>2, <1>3, <2>1 DEF PolicyInv, StampedOnce
<1>9. RoomForAll'
  <2>1. Recent' \subseteq Recent
    BY <1>3 DEF Recent
  <2> QED BY <1>1, <2>1, RoomOfOthers
<1>10. StreamsHaveRoom'
  <2>1. \A d \in Opened' : call'[d].limit = call[d].limit
    BY <1>2 DEF Opened
  <2> QED BY <1>2, <2>1, StreamRoomStays DEF PolicyInv
<1>11. GrantedByOne'
  <2>1. \A d \in Pending' : call'[d].request = call[d].request /\ call'[d].limit = call[d].limit
    BY <1>2, <1>4 DEF Pending
  <2> QED BY <1>4, <2>1, GrantStays DEF PolicyInv
<1> QED BY <1>6, <1>7, <1>8, <1>9, <1>10, <1>11 DEF PolicyInv

\* The clock, and a policy that replaces another, touch no call.
LEMMA PolicyCallsStay ==
  ASSUME PolicyInv, UNCHANGED <<call, stamps, chars, resetAt, streams, violations>>,
         time' \in 0..EndTime, policy' \in DOMAIN Policies, time' >= time
  PROVE  PolicyInv'
<1>1. Pending' = Pending /\ Opened' = Opened /\ Refused' = Refused /\ Airborne' = Airborne
  BY DEF Pending, Opened, Refused, Airborne
<1>2. RecentCalls' \subseteq RecentCalls
  <2>1. \A s \in Recent' : s \in Recent
    <3> SUFFICES ASSUME NEW s \in stamps, s.at + Minute > time' PROVE s.at + Minute > time
      BY DEF Recent
    <3>1. s.at \in Int /\ time \in Int /\ time' \in Int
      BY DEF PolicyInv, PolicyTyped, Stamp
    <3> QED BY <3>1, PolicyAssumption
  <2> QED BY <2>1 DEF RecentCalls
<1>3. PolicyTyped' /\ StampedOnce' /\ StreamsAre'
  BY <1>1 DEF PolicyInv, PolicyTyped, StampedOnce, StreamsAre
<1>4. RoomForAll'
  <2>1. Counted' \subseteq Counted
    BY <1>1, <1>2 DEF Counted
  <2> QED BY <2>1, RoomStays DEF PolicyInv
<1>5. StreamsHaveRoom' /\ GrantedByOne'
  BY <1>1, StreamRoomStays, GrantStays DEF PolicyInv
<1> QED BY <1>3, <1>4, <1>5 DEF PolicyInv

LEMMA PolicyInvNext ==
  ASSUME PolicyInv, [PolicyNext]_policyVars
  PROVE  PolicyInv'
<1>1. ASSUME NEW c \in Calls, NEW r \in Asked, Unreached(c, r) PROVE PolicyInv'
  BY <1>1, RefuseKeeps DEF Unreached, PolicyInv, PolicyTyped
<1>2. ASSUME NEW c \in Calls, NEW r \in Asked, CheckAll(c, r) PROVE PolicyInv'
  <2>1. /\ call[c].pc = "new" /\ UNCHANGED <<time, policy, streams>>
        /\ stamps' \subseteq stamps /\ resetAt' \in {resetAt, time} /\ chars' \in Nat
    BY <1>2 DEF CheckAll, Recent, PolicyInv, PolicyTyped
  <2>2. CASE Refuse(c)
    BY <2>1, <2>2, RefuseKeeps
  <2>3. CASE ~Refuse(c)
    BY <1>2, <2>3, CheckedKeeps DEF CheckAll
  <2> QED BY <2>2, <2>3
<1>3. ASSUME NEW c \in Calls, Record(c) \/ Fail(c) PROVE PolicyInv'
  BY <1>3, RecordKeeps, FailKeeps
<1>4. ASSUME NEW c \in Calls, StartStream(c) PROVE PolicyInv'
  <2>1. CASE MayStream
    BY <1>4, <2>1, StreamStarts
  <2>2. CASE ~MayStream
    BY <1>4, <2>2, RefuseKeeps DEF StartStream, PolicyInv, PolicyTyped
  <2> QED BY <2>1, <2>2
<1>5. ASSUME NEW c \in Calls, RecordStreamEnd(c) PROVE PolicyInv'
  BY <1>5, StreamEnds
<1>6. ASSUME NEW name \in DOMAIN Policies, SetAgentPolicy(name) PROVE PolicyInv'
  BY <1>6, PolicyCallsStay DEF SetAgentPolicy, PolicyInv, PolicyTyped
<1>7. CASE Tick
  BY <1>7, PolicyCallsStay, PolicyAssumption DEF Tick, PolicyInv, PolicyTyped
<1>8. CASE UNCHANGED policyVars
  BY <1>8, PolicyCallsStay DEF policyVars, PolicyInv, PolicyTyped
<1> QED BY <1>1, <1>2, <1>3, <1>4, <1>5, <1>6, <1>7, <1>8 DEF PolicyNext

LEMMA PolicyInvKept == PolicySpec => []PolicyInv
<1>1. PolicyInit => PolicyInv
  BY PolicyInvInit
<1>2. PolicyInv /\ [PolicyNext]_policyVars => PolicyInv'
  BY PolicyInvNext
<1> QED BY <1>1, <1>2, PTL DEF PolicySpec

\* Numbers of which none is reached by more than the largest.
LEMMA UpToMax ==
  ASSUME NEW S, IsFiniteSet(S), NEW f \in [S -> Nat], NEW n \in Nat,
         n = 0 \/ \E c \in S : n <= f[c]
  PROVE  n <= Max({f[c] : c \in S} \cup {0})
<1> DEFINE R == {f[c] : c \in S}
           B == R \cup {0}
<1>1. B \in SUBSET Int /\ B # {}
  OBVIOUS
<1>2. IsFiniteSet(R)
  <2>1. f \in Surjection(S, R)
    BY DEF Surjection
  <2> HIDE DEF R
  <2> QED BY <2>1, FS_Surjection
<1>3. IsFiniteSet(B)
  <2> HIDE DEF R
  <2> QED BY <1>2, FS_AddElement
<1>4. \E b \in B : n <= b
  OBVIOUS
<1> HIDE DEF B
<1>5. Max(B) \in B /\ \A b \in B : b <= Max(B)
  BY <1>1, <1>3, MaxIs
<1>6. n <= Max(B)
  <2>1. PICK b \in B : n <= b
    BY <1>4
  <2>2. b \in Int /\ Max(B) \in Int /\ b <= Max(B)
    BY <1>1, <1>5
  <2> QED BY <2>1, <2>2
<1> QED BY <1>6 DEF B

\* The policy enforcer's type invariant (policy.py), for every set of calls and policies:
\* also that no call is refused twice.
THEOREM PolicyTypesKept == PolicySpec => []PolicyTypeOK
<1>1. PolicyInv => PolicyTypeOK
  <2> SUFFICES ASSUME PolicyInv PROVE PolicyTypeOK
    OBVIOUS
  <2>1. Refused \in SUBSET Calls
    BY DEF Refused
  <2>2. violations \in 0..Cardinality(Calls)
    BY <2>1, CallsFinite DEF PolicyInv, StreamsAre
  <2>3. \A c \in Calls : call[c] \in CallRecord
    BY DEF PolicyInv, PolicyTyped
  <2> QED BY <2>2, <2>3 DEF PolicyInv, PolicyTyped, PolicyTypeOK, CallRecord, CallState, Stamp
<1> QED BY <1>1, PolicyInvKept, PTL

\* policy.py: the records of the last minute exceed the limit that one of their calls was
\* checked under by no more than the calls in the air at its check, for any number of
\* calls and any replacement of the agent's policy between check and record.
THEOREM MinuteKept == PolicySpec => []MinuteBound
<1>1. PolicyInv => MinuteBound
  <2> SUFFICES ASSUME PolicyInv PROVE MinuteBound
    OBVIOUS
  <2> DEFINE n == Cardinality(Recent)
             f == [s \in Recent |-> call[s.of].limit + call[s.of].overlap]
  <2>1. Recent \in SUBSET Stamp /\ \A s, u \in Recent : s.of = u.of => s = u
    BY DEF Recent, PolicyInv, PolicyTyped, StampedOnce
  <2>2. IsFiniteSet(Calls)
    BY PolicyAssumption
  <2>3. IsFiniteSet(Recent) /\ n = Cardinality(RecentCalls) /\ RecentCalls \subseteq Calls
    BY <2>1, <2>2, OneStampEach DEF RecentCalls
  <2>4. n \in Nat
    BY <2>3, FS_CardinalityType
  <2>5. f \in [Recent -> Nat]
    <3> SUFFICES ASSUME NEW s \in Recent
                 PROVE  call[s.of].limit + call[s.of].overlap \in Nat
      OBVIOUS
    <3>1. s.of \in Calls
      BY <2>1 DEF Stamp
    <3>2. call[s.of].limit \in Nat /\ call[s.of].overlap \in 0..Cardinality(Calls)
      BY <3>1 DEF PolicyInv, PolicyTyped, CallRecord
    <3>3. Cardinality(Calls) \in Nat
      BY CallsFinite
    <3> QED BY <3>2, <3>3
  <2>6. n = 0 \/ \E s \in Recent : n <= f[s]
    <3>1. CASE RecentCalls = {}
      BY <2>3, <3>1, FS_EmptySet
    <3>2. CASE RecentCalls # {}
      <4>1. PICK c \in RecentCalls : n <= call[c].limit + call[c].overlap
        BY <2>3, <3>2 DEF PolicyInv, RoomForAll, Counted
      <4>2. PICK s \in Recent : c = s.of
        BY DEF RecentCalls
      <4> QED BY <4>1, <4>2
    <3> QED BY <3>1, <3>2
  <2>7. n <= Max({f[s] : s \in Recent} \cup {0})
    <3> HIDE DEF n, f
    <3> QED BY <2>3, <2>4, <2>5, <2>6, UpToMax
  <2>8. {f[s] : s \in Recent} = {call[s.of].limit + call[s.of].overlap : s \in Recent}
    OBVIOUS
  <2> QED BY <2>7, <2>8 DEF MinuteBound
<1> QED BY <1>1, PolicyInvKept, PTL

\* policy.py: active_streams is the number of open streams, no more than the policy of one
\* of them allowed, and every refusal is counted once.
THEOREM StreamCountKept == PolicySpec => []StreamsCounted
<1>1. PolicyInv => StreamsCounted
  <2> SUFFICES ASSUME PolicyInv PROVE StreamsCounted
    OBVIOUS
  <2> DEFINE f == [c \in Opened |-> call[c].limit]
  <2>1. /\ Opened \in SUBSET Calls /\ streams = Cardinality(Opened)
        /\ violations = Cardinality(Refused)
    BY DEF Opened, PolicyInv, StreamsAre
  <2>2. IsFiniteSet(Opened) /\ streams \in Nat
    BY <2>1, CallsFinite
  <2>3. f \in [Opened -> Nat]
    BY DEF Opened, PolicyInv, PolicyTyped, CallRecord
  <2>4. streams = 0 \/ \E c \in Opened : streams <= f[c]
    <3>1. CASE Opened = {}
      BY <2>1, <3>1, FS_EmptySet
    <3>2. CASE Opened # {}
      BY <2>1, <3>2 DEF PolicyInv, StreamsHaveRoom
    <3> QED BY <3>1, <3>2
  <2>5. streams <= Max({f[c] : c \in Opened} \cup {0})
    <3> HIDE DEF f
    <3> QED BY <2>2, <2>3, <2>4, UpToMax
  <2>6. {f[c] : c \in Opened} = {call[c].limit : c \in Opened}
    OBVIOUS
  <2> QED BY <2>1, <2>5, <2>6 DEF StreamsCounted, Opened, Refused
<1> QED BY <1>1, PolicyInvKept, PTL

\* policy.py: the tool, the voice and the backend of a call at work, and its limit, are all
\* of one policy, also when the agent's policy is replaced while it works.
THEOREM GrantKept == PolicySpec => []GrantedByOne
<1>1. PolicyInv => GrantedByOne
  BY DEF PolicyInv
<1> QED BY <1>1, PolicyInvKept, PTL

-----------------------------------------------------------------------------
(***************************************************************************)
(* The secrets.                                                            *)
(***************************************************************************)

Places == {"idle", "reading", "searching", "unprefixed", "caching", "storing", "dropping", "refreshed"}

ThreadRecord(n) == [at : Places, value : 0..n, life : Nat]
Entry(n, now) == [value : 0..n, expires : Nat, at : 0..now]

SecretTyped ==
  /\ secretTime \in 0..SecretEndTime /\ values \in 0..MaxValues /\ secretCalls \in 0..MaxCalls
  /\ secretMemory \in 0..values /\ env \in [prefixed : 0..values, plain : 0..values]
  /\ cache \in Entry(values, secretTime)
  /\ thread \in [Threads -> ThreadRecord(values)]
  /\ gone \in [1..MaxValues -> 0..SecretEndTime + 1] /\ overtaken \in BOOLEAN

\* A thread that has written to the memory and not yet to the cache.
Writes(t) == thread[t].at \in {"storing", "dropping"}
Quiet == \A t \in Threads : ~Writes(t)

\* The only writer, if it sets the secret, holds what the memory has.
WriterHolds ==
  \A t \in Threads :
    At(t, "storing") /\ (\A u \in Threads \ {t} : ~Writes(u)) =>
      thread[t].value = secretMemory /\ secretMemory # 0

\* What the cache has is true, or was when it was cached.
CacheWasTrue ==
  CacheSecrets /\ cache.value # 0 =>
    \/ cache.value = Truth
    \/ secretMemory = 0 /\ cache.at < gone[cache.value]

NotPrefixed == Prefixed => env.prefixed = 0

\* What the lookups have found so far is so.
LookupsTrue ==
  \A t \in Threads : /\ At(t, "searching") => secretMemory = 0
                     /\ At(t, "unprefixed") => secretMemory = 0 /\ NotPrefixed
                     /\ At(t, "caching") => thread[t].value = Truth

SecretInv ==
  /\ SecretTyped
  /\ ~overtaken => WriterHolds /\ (Quiet => CacheWasTrue /\ LookupsTrue)

SecretFollows == ~overtaken => WriterHolds /\ (Quiet => CacheWasTrue /\ LookupsTrue)

LEMMA SecretInvInit == SecretInit => SecretInv
<1> SUFFICES ASSUME SecretInit PROVE SecretInv
  OBVIOUS
<1>1. SecretTyped
  <2>1. values = 0 /\ secretTime = 0 /\ secretCalls = 0 /\ secretMemory = 0 /\ overtaken = FALSE
    BY DEF SecretInit
  <2>2. env \in [prefixed : 0..0, plain : 0..0] /\ cache \in Entry(0, 0)
    BY DEF SecretInit, Entry, NoEntry
  <2>3. thread \in [Threads -> ThreadRecord(0)]
    BY DEF SecretInit, ThreadRecord, Places, Idle
  <2>4. gone \in [1..MaxValues -> 0..SecretEndTime + 1]
    BY SecretAssumption DEF SecretInit
  <2>5. /\ secretTime \in 0..SecretEndTime /\ values \in 0..MaxValues
        /\ secretCalls \in 0..MaxCalls /\ secretMemory \in 0..values
    BY <2>1, SecretAssumption
  <2>6. /\ env \in [prefixed : 0..values, plain : 0..values]
        /\ cache \in Entry(values, secretTime) /\ thread \in [Threads -> ThreadRecord(values)]
    BY <2>1, <2>2, <2>3
  <2>7. overtaken \in BOOLEAN
    BY <2>1
  <2> QED BY <2>4, <2>5, <2>6, <2>7 DEF SecretTyped
<1>2. SecretFollows
  BY DEF SecretInit, SecretFollows, WriterHolds, CacheWasTrue, LookupsTrue, At, NoEntry, Idle
<1> QED BY <1>1, <1>2 DEF SecretInv, SecretFollows

\* One thread goes on.
LEMMA ThreadGoes ==
  ASSUME SecretTyped, NEW t \in Threads, NEW y \in ThreadRecord(values'), values' \in Nat,
         values <= values', thread' = [thread EXCEPT ![t] = y]
  PROVE  /\ thread' \in [Threads -> ThreadRecord(values')] /\ thread'[t] = y
         /\ \A u \in Threads \ {t} : thread'[u] = thread[u]
<1>1. thread'[t] = y /\ \A u \in Threads \ {t} : thread'[u] = thread[u]
  BY DEF SecretTyped
<1>2. ThreadRecord(values) \subseteq ThreadRecord(values')
  BY DEF ThreadRecord, SecretTyped
<1>3. thread' \in [Threads -> ThreadRecord(values')]
  BY <1>2 DEF SecretTyped
<1> QED BY <1>1, <1>3

\* It stays what it is, where it goes.
LEMMA ThreadGoesTo ==
  ASSUME SecretTyped, NEW t \in Threads, NEW place \in Places, Goes(t, place)
  PROVE  \E y \in ThreadRecord(values) :
           thread' = [thread EXCEPT ![t] = y] /\ y.at = place /\ y.value = thread[t].value
<1> DEFINE y == [thread[t] EXCEPT !.at = place]
<1>1. thread[t] \in ThreadRecord(values)
  BY DEF SecretTyped
<1>2. y \in ThreadRecord(values) /\ y.at = place /\ y.value = thread[t].value
  BY <1>1 DEF ThreadRecord
<1>3. thread' = [thread EXCEPT ![t] = y]
  BY DEF Goes, SecretTyped
<1> QED BY <1>2, <1>3

\* A step of a lookup, before and after which its thread writes nothing.
LEMMA LookupStep ==
  ASSUME SecretInv, NEW t \in Threads, NEW y \in ThreadRecord(values),
         thread' = [thread EXCEPT ![t] = y],
         ~Writes(t), y.at \notin {"storing", "dropping"},
         UNCHANGED <<secretMemory, env, values>>, overtaken => overtaken',
         y.at = "searching" => secretMemory = 0,
         ~overtaken /\ Quiet /\ y.at = "unprefixed" => secretMemory = 0 /\ NotPrefixed,
         ~overtaken /\ Quiet /\ y.at = "caching" => y.value = Truth,
         ~overtaken /\ Quiet /\ CacheWasTrue => CacheWasTrue'
  PROVE  SecretFollows' /\ thread' \in [Threads -> ThreadRecord(values)]
<1>1. /\ thread' \in [Threads -> ThreadRecord(values)] /\ thread'[t] = y
      /\ \A u \in Threads \ {t} : thread'[u] = thread[u]
  BY ThreadGoes DEF SecretInv, SecretTyped
<1>2. \A u \in Threads : Writes(u)' <=> Writes(u)
  BY <1>1 DEF Writes
<1>3. Quiet' <=> Quiet
  BY <1>2 DEF Quiet
<1>4. ASSUME ~overtaken' PROVE WriterHolds'
  <2>1. WriterHolds
    BY <1>4 DEF SecretInv
  <2>2. \A u \in Threads : At(u, "storing")' => At(u, "storing") /\ thread'[u] = thread[u]
    BY <1>1 DEF At
  <2> SUFFICES ASSUME NEW u \in Threads, At(u, "storing")',
                      \A v \in Threads \ {u} : ~Writes(v)'
               PROVE  thread'[u].value = secretMemory' /\ secretMemory' # 0
    BY DEF WriterHolds
  <2>3. At(u, "storing") /\ \A v \in Threads \ {u} : ~Writes(v)
    BY <1>2, <2>2
  <2> QED BY <2>1, <2>2, <2>3 DEF WriterHolds
<1>5. ASSUME ~overtaken', Quiet' PROVE CacheWasTrue' /\ LookupsTrue'
  <2>1. ~overtaken /\ Quiet /\ CacheWasTrue /\ LookupsTrue
    BY <1>3, <1>5 DEF SecretInv
  <2>2. Truth' = Truth /\ NotPrefixed' = NotPrefixed
    BY DEF Truth, OfEnvironment, NotPrefixed
  <2>3. LookupsTrue'
    <3> SUFFICES ASSUME NEW u \in Threads
                 PROVE  /\ thread'[u].at = "searching" => secretMemory' = 0
                        /\ thread'[u].at = "unprefixed" => secretMemory' = 0 /\ NotPrefixed'
                        /\ thread'[u].at = "caching" => thread'[u].value = Truth'
      BY DEF LookupsTrue, At
    <3>1. CASE u = t
      BY <1>1, <2>1, <2>2, <3>1
    <3>2. CASE u # t
      BY <1>1, <2>1, <2>2, <3>2 DEF LookupsTrue, At
    <3> QED BY <3>1, <3>2
  <2> QED BY <2>1, <2>3
<1> QED BY <1>1, <1>4, <1>5 DEF SecretFollows

\* The last step of a writer: what it leaves in the cache is what the memory has, or nothing.
LEMMA WriterEnds ==
  ASSUME SecretInv, NEW t \in Threads, Ends(t),
         UNCHANGED <<secretMemory, env, values>>, overtaken' = (overtaken \/ Overtakes(t)),
         ~overtaken' /\ (\A u \in Threads \ {t} : ~Writes(u)) => CacheWasTrue'
  PROVE  SecretFollows' /\ thread' \in [Threads -> ThreadRecord(values)]
<1>1. Idle \in ThreadRecord(values) /\ values \in Nat /\ values' = values /\ Idle.at = "idle"
  BY DEF Idle, ThreadRecord, Places, SecretInv, SecretTyped
<1>2. /\ thread' \in [Threads -> ThreadRecord(values)] /\ thread'[t] = Idle
      /\ \A u \in Threads \ {t} : thread'[u] = thread[u]
  <2>1. SecretTyped /\ thread' = [thread EXCEPT ![t] = Idle]
    BY DEF SecretInv, Ends
  <2>2. values' \in Nat /\ values <= values' /\ Idle \in ThreadRecord(values')
    BY <1>1
  <2>3. /\ thread' \in [Threads -> ThreadRecord(values')] /\ thread'[t] = Idle
        /\ \A u \in Threads \ {t} : thread'[u] = thread[u]
    BY <2>1, <2>2, ThreadGoes
  <2> QED BY <1>1, <2>3
<1>3. ASSUME ~overtaken'
      PROVE  \A u \in Threads : thread'[u].at \notin {"searching", "unprefixed", "caching", "storing"}
  <2>1. \A u \in Threads \ {t} : thread[u].at \notin {"searching", "unprefixed", "caching", "storing"}
    BY <1>3 DEF Overtakes
  <2> QED BY <1>1, <1>2, <2>1
<1>4. ASSUME ~overtaken' PROVE WriterHolds'
  BY <1>3, <1>4 DEF WriterHolds, At
<1>5. ASSUME ~overtaken', Quiet' PROVE CacheWasTrue' /\ LookupsTrue'
  <2>1. LookupsTrue'
    BY <1>3, <1>5 DEF LookupsTrue, At
  <2>2. \A u \in Threads \ {t} : ~Writes(u)
    BY <1>2, <1>5 DEF Quiet, Writes
  <2> QED BY <1>5, <2>1, <2>2
<1> QED BY <1>2, <1>4, <1>5 DEF SecretFollows

\* A call that writes the memory is one writer more.
LEMMA WriterBegins ==
  ASSUME SecretInv, NEW t \in Threads, NEW y \in ThreadRecord(values'), values' \in Nat,
         values <= values', thread' = [thread EXCEPT ![t] = y], overtaken' = overtaken,
         \/ y.at = "storing" /\ y.value = secretMemory' /\ secretMemory' # 0
         \/ y.at = "dropping"
  PROVE  SecretFollows' /\ thread' \in [Threads -> ThreadRecord(values')]
<1>1. /\ thread' \in [Threads -> ThreadRecord(values')] /\ thread'[t] = y
      /\ \A u \in Threads \ {t} : thread'[u] = thread[u]
  BY ThreadGoes DEF SecretInv
<1>2. Writes(t)'
  BY <1>1 DEF Writes
<1>3. ~Quiet' /\ WriterHolds'
  BY <1>1, <1>2 DEF Quiet, WriterHolds, At
<1> QED BY <1>1, <1>3 DEF SecretFollows

\* What the cache has stays, or goes.
LEMMA CacheGoes ==
  ASSUME SecretInv, CacheWasTrue, UNCHANGED <<secretMemory, env, gone>>,
         cache' = cache \/ cache' = NoEntry
  PROVE  CacheWasTrue'
  BY DEF CacheWasTrue, Truth, OfEnvironment, NoEntry

LEMMA NoEntryTyped ==
  ASSUME SecretTyped PROVE NoEntry \in Entry(values, secretTime)
  BY SecretAssumption DEF SecretTyped, Entry, NoEntry

LEMMA LookupsKeep ==
  ASSUME SecretInv, NEW t \in Threads,
         \/ GetCached(t) \/ ReadMemory(t) \/ ReadEnvironment(t) \/ ReadPlain(t)
         \/ Refresh(t) \/ RefreshGets(t)
  PROVE  SecretInv'
<1>1. /\ UNCHANGED <<secretTime, secretMemory, env, values, gone>>
      /\ secretCalls' \in 0..MaxCalls /\ (overtaken => overtaken') /\ overtaken' \in BOOLEAN
      /\ cache' = cache \/ cache' = NoEntry
  <2>1. overtaken \in BOOLEAN /\ secretCalls \in 0..MaxCalls /\ MaxCalls \in Nat
    BY SecretAssumption DEF SecretInv, SecretTyped
  <2>2. CASE GetCached(t)
    BY <2>1, <2>2 DEF GetCached
  <2>3. CASE ReadMemory(t) \/ ReadEnvironment(t) \/ ReadPlain(t)
    BY <2>1, <2>3 DEF ReadMemory, ReadEnvironment, ReadPlain
  <2>4. CASE Refresh(t)
    BY <2>1, <2>4 DEF Refresh, Overtakes
  <2>5. CASE RefreshGets(t)
    BY <2>1, <2>5 DEF RefreshGets
  <2> QED BY <2>2, <2>3, <2>4, <2>5
<1>2. cache' \in Entry(values, secretTime)
  BY <1>1, NoEntryTyped DEF SecretInv, SecretTyped
<1>3. Idle \in ThreadRecord(values) /\ values \in Nat
  BY DEF Idle, ThreadRecord, Places, SecretInv, SecretTyped
<1>4. \/ UNCHANGED thread
      \/ /\ ~Writes(t)
         /\ \E y \in ThreadRecord(values) :
              /\ thread' = [thread EXCEPT ![t] = y] /\ y.at \notin {"storing", "dropping"}
              /\ y.at = "searching" => secretMemory = 0
              /\ y.at = "unprefixed" /\ ~overtaken /\ Quiet => secretMemory = 0 /\ NotPrefixed
              /\ y.at = "caching" /\ ~overtaken /\ Quiet => y.value = Truth
  <2>1. CASE GetCached(t)
    <3>1. CASE UNCHANGED thread
      BY <3>1
    <3>2. CASE Goes(t, "reading")
      BY <2>1, <3>2, ThreadGoesTo DEF GetCached, At, Writes, Places, SecretInv
    <3> QED BY <2>1, <3>1, <3>2 DEF GetCached
  <2>2. CASE ReadMemory(t)
    <3>1. ~Writes(t)
      BY <2>2 DEF ReadMemory, At, Writes
    <3>2. CASE secretMemory # 0
      <4> DEFINE y == [at |-> "caching", value |-> secretMemory, life |-> 0]
      <4>1. y \in ThreadRecord(values) /\ y.at = "caching" /\ y.value = Truth
        BY <3>2 DEF SecretInv, SecretTyped, ThreadRecord, Places, Truth
      <4>2. thread' = [thread EXCEPT ![t] = y]
        BY <2>2, <3>2 DEF ReadMemory, Found
      <4> HIDE DEF y
      <4> QED BY <3>1, <4>1, <4>2
    <3>3. CASE secretMemory = 0
      BY <2>2, <3>1, <3>3, ThreadGoesTo DEF ReadMemory, Places, SecretInv
    <3> QED BY <3>2, <3>3
  <2>3. CASE ReadEnvironment(t)
    <3>1. ~Writes(t) /\ At(t, "searching")
      BY <2>3 DEF ReadEnvironment, At, Writes
    <3>2. CASE UnderPrefix # 0
      <4> DEFINE y == [at |-> "caching", value |-> UnderPrefix, life |-> 0]
      <4>1. y \in ThreadRecord(values) /\ y.at = "caching" /\ y.value = UnderPrefix
        BY DEF SecretInv, SecretTyped, ThreadRecord, Places, UnderPrefix
      <4>2. thread' = [thread EXCEPT ![t] = y]
        BY <2>3, <3>2 DEF ReadEnvironment, Found
      <4>3. UnderPrefix = OfEnvironment(env)
        BY <3>2 DEF UnderPrefix, OfEnvironment
      <4>4. ~overtaken /\ Quiet => y.value = Truth
        BY <3>1, <4>1, <4>3 DEF SecretInv, LookupsTrue, Truth
      <4> HIDE DEF y
      <4> QED BY <3>1, <4>1, <4>2, <4>4
    <3>3. CASE UnderPrefix = 0
      <4>1. Goes(t, "unprefixed")
        BY <2>3, <3>3 DEF ReadEnvironment
      <4>2. PICK y \in ThreadRecord(values) :
              thread' = [thread EXCEPT ![t] = y] /\ y.at = "unprefixed"
        BY <4>1, ThreadGoesTo DEF Places, SecretInv
      <4>3. NotPrefixed
        BY <3>3 DEF NotPrefixed, UnderPrefix
      <4>4. ~overtaken /\ Quiet => secretMemory = 0
        BY <3>1 DEF SecretInv, LookupsTrue
      <4> QED BY <3>1, <4>2, <4>3, <4>4
    <3> QED BY <3>2, <3>3
  <2>6. CASE ReadPlain(t)
    <3>1. ~Writes(t) /\ At(t, "unprefixed")
      BY <2>6 DEF ReadPlain, At, Writes
    <3>2. CASE env.plain # 0
      <4> DEFINE y == [at |-> "caching", value |-> env.plain, life |-> 0]
      <4>1. y \in ThreadRecord(values) /\ y.at = "caching" /\ y.value = env.plain
        BY DEF SecretInv, SecretTyped, ThreadRecord, Places
      <4>2. thread' = [thread EXCEPT ![t] = y]
        BY <2>6, <3>2 DEF ReadPlain, Found
      <4>3. ~overtaken /\ Quiet => y.value = Truth
        BY <3>1, <4>1 DEF SecretInv, LookupsTrue, Truth, NotPrefixed, OfEnvironment
      <4> HIDE DEF y
      <4> QED BY <3>1, <4>1, <4>2, <4>3
    <3>3. CASE env.plain = 0
      BY <1>3, <2>6, <3>1, <3>3 DEF ReadPlain, Ends, Idle
    <3> QED BY <3>2, <3>3
  <2>4. CASE Refresh(t)
    BY <2>4, ThreadGoesTo DEF Refresh, At, Writes, Places, SecretInv
  <2>5. CASE RefreshGets(t)
    <3>1. ~Writes(t)
      BY <2>5 DEF RefreshGets, At, Writes
    <3>2. CASE Ends(t)
      BY <1>3, <3>1, <3>2 DEF Ends, Idle
    <3>3. CASE Goes(t, "reading")
      BY <3>1, <3>3, ThreadGoesTo DEF Places, SecretInv
    <3> QED BY <2>5, <3>2, <3>3 DEF RefreshGets
  <2> QED BY <2>1, <2>2, <2>3, <2>4, <2>5, <2>6
<1>5. CacheWasTrue => CacheWasTrue'
  BY <1>1, CacheGoes
<1>6. SecretFollows' /\ thread' \in [Threads -> ThreadRecord(values)]
  <2>1. CASE UNCHANGED thread
    <3>1. WriterHolds' = WriterHolds /\ Quiet' = Quiet /\ LookupsTrue' = LookupsTrue
      BY <1>1, <2>1 DEF WriterHolds, Quiet, LookupsTrue, Writes, At, Truth, OfEnvironment, NotPrefixed
    <3> QED BY <1>1, <1>5, <2>1, <3>1 DEF SecretInv, SecretTyped, SecretFollows
  <2>2. CASE ~UNCHANGED thread
    <3>1. PICK y \in ThreadRecord(values) :
            /\ thread' = [thread EXCEPT ![t] = y] /\ y.at \notin {"storing", "dropping"}
            /\ y.at = "searching" => secretMemory = 0
            /\ y.at = "unprefixed" /\ ~overtaken /\ Quiet => secretMemory = 0 /\ NotPrefixed
            /\ y.at = "caching" /\ ~overtaken /\ Quiet => y.value = Truth
      BY <1>4, <2>2
    <3>2. ~Writes(t)
      BY <1>4, <2>2
    <3> QED BY <1>1, <1>5, <3>1, <3>2, LookupStep
  <2> QED BY <2>1, <2>2
<1> QED BY <1>1, <1>2, <1>6 DEF SecretInv, SecretTyped, SecretFollows

LEMMA CacheSecretKeeps ==
  ASSUME SecretInv, NEW t \in Threads, CacheSecret(t)
  PROVE  SecretInv'
<1>1. /\ UNCHANGED <<secretTime, secretMemory, env, values, secretCalls, gone>> /\ Ends(t)
      /\ overtaken' = (overtaken \/ (At(t, "storing") /\ Overtakes(t)))
      /\ thread[t].at \in {"caching", "storing"}
  BY DEF CacheSecret
<1>2. thread[t] \in ThreadRecord(values)
  BY DEF SecretInv, SecretTyped
<1>3. /\ CacheSecrets => cache' = [value |-> thread[t].value, expires |-> thread[t].life,
                                   at |-> secretTime]
      /\ ~CacheSecrets => cache' = cache
  BY DEF CacheSecret
<1>4. cache' \in Entry(values, secretTime)
  BY <1>2, <1>3 DEF SecretInv, SecretTyped, Entry, ThreadRecord
<1>5. Truth' = Truth /\ (thread[t].value = Truth => CacheWasTrue')
  BY <1>1, <1>3 DEF CacheWasTrue, Truth, OfEnvironment
<1>6. SecretFollows' /\ thread' \in [Threads -> ThreadRecord(values)]
  <2>1. CASE At(t, "storing")
    <3>1. ~overtaken' /\ (\A u \in Threads \ {t} : ~Writes(u)) => CacheWasTrue'
      <4>1. ~overtaken' /\ (\A u \in Threads \ {t} : ~Writes(u)) =>
              thread[t].value = secretMemory /\ secretMemory # 0
        BY <1>1, <2>1 DEF SecretInv, WriterHolds
      <4> QED BY <1>5, <4>1 DEF Truth
    <3>2. overtaken' = (overtaken \/ Overtakes(t))
      BY <1>1, <2>1
    <3> QED BY <1>1, <3>1, <3>2, WriterEnds
  <2>2. CASE At(t, "caching")
    <3>1. ~Writes(t) /\ Idle \in ThreadRecord(values) /\ Idle.at = "idle"
      BY <2>2 DEF At, Writes, Idle, ThreadRecord, Places, SecretInv, SecretTyped
    <3>2. overtaken' = overtaken
      BY <1>1, <2>2 DEF At, SecretInv, SecretTyped
    <3>3. ~overtaken /\ Quiet => CacheWasTrue'
      BY <1>5, <2>2 DEF SecretInv, LookupsTrue
    <3>4. thread' = [thread EXCEPT ![t] = Idle]
      BY <1>1 DEF Ends
    <3> QED BY <1>1, <3>1, <3>2, <3>3, <3>4, LookupStep
  <2> QED BY <1>1, <2>1, <2>2 DEF At
<1> QED BY <1>1, <1>4, <1>6 DEF SecretInv, SecretTyped, SecretFollows

LEMMA WritesKeep ==
  ASSUME SecretInv, NEW t \in Threads,
         (\E life \in Lives : SetMemory(t, life)) \/ DeleteMemory(t) \/ DropCached(t)
  PROVE  SecretInv'
<1>1. ASSUME NEW life \in Lives, SetMemory(t, life) PROVE SecretInv'
  <2> DEFINE y == [at |-> "storing", value |-> values + 1,
                   life |-> IF life = 0 THEN 0 ELSE secretTime + life]
  <2>1. /\ values \in Nat /\ values' = values + 1 /\ values' <= MaxValues
        /\ secretMemory' = values + 1 /\ thread' = [thread EXCEPT ![t] = y]
        /\ secretCalls' \in 0..MaxCalls
        /\ UNCHANGED <<secretTime, env, cache, gone, overtaken>>
    BY <1>1, SecretAssumption DEF SetMemory, SecretInv, SecretTyped
  <2>2. y \in ThreadRecord(values') /\ y.at = "storing" /\ y.value = values + 1
    <3>1. (IF life = 0 THEN 0 ELSE secretTime + life) \in Nat
      BY SecretAssumption DEF SecretInv, SecretTyped
    <3>2. values + 1 \in 0..values'
      BY <2>1
    <3> QED BY <3>1, <3>2 DEF ThreadRecord, Places
  <2> HIDE DEF y
  <2>3. SecretFollows' /\ thread' \in [Threads -> ThreadRecord(values')]
    <3>1. /\ values' \in Nat /\ values <= values' /\ overtaken' = overtaken
          /\ y.value = secretMemory' /\ secretMemory' # 0
      BY <2>1, <2>2
    <3> QED BY <2>1, <2>2, <3>1, WriterBegins
  <2>4. /\ cache' \in Entry(values', secretTime') /\ env' \in [prefixed : 0..values', plain : 0..values']
        /\ values' \in 0..MaxValues /\ secretMemory' \in 0..values'
    BY <2>1, SecretAssumption DEF SecretInv, SecretTyped, Entry
  <2> QED BY <2>1, <2>3, <2>4 DEF SecretInv, SecretTyped, SecretFollows
<1>2. ASSUME DeleteMemory(t) PROVE SecretInv'
  <2>1. /\ secretMemory' = 0 /\ secretCalls' \in 0..MaxCalls /\ Goes(t, "dropping")
        /\ UNCHANGED <<secretTime, env, cache, values, gone, overtaken>> /\ values \in Nat
    BY <1>2, SecretAssumption DEF DeleteMemory, SecretInv, SecretTyped
  <2>2. PICK y \in ThreadRecord(values) : thread' = [thread EXCEPT ![t] = y] /\ y.at = "dropping"
    BY <2>1, ThreadGoesTo DEF Places, SecretInv
  <2>3. SecretFollows' /\ thread' \in [Threads -> ThreadRecord(values')]
    <3>1. /\ values' \in Nat /\ values <= values' /\ overtaken' = overtaken
          /\ y \in ThreadRecord(values')
      BY <2>1
    <3> QED BY <2>2, <3>1, WriterBegins
  <2> QED BY <2>1, <2>3 DEF SecretInv, SecretTyped, SecretFollows
<1>3. ASSUME DropCached(t) PROVE SecretInv'
  <2>1. /\ cache' = NoEntry /\ Ends(t) /\ overtaken' = (overtaken \/ Overtakes(t))
        /\ UNCHANGED <<secretTime, secretMemory, env, values, secretCalls, gone>>
    BY <1>3 DEF DropCached
  <2>2. CacheWasTrue'
    BY <2>1 DEF CacheWasTrue, NoEntry
  <2>3. SecretFollows' /\ thread' \in [Threads -> ThreadRecord(values)]
    BY <2>1, <2>2, WriterEnds
  <2>4. cache' \in Entry(values, secretTime) /\ overtaken' \in BOOLEAN
    BY <2>1, NoEntryTyped DEF SecretInv, SecretTyped, Overtakes
  <2> QED BY <2>1, <2>3, <2>4 DEF SecretInv, SecretTyped, SecretFollows
<1> QED BY <1>1, <1>2, <1>3

\* The environment changes: what the cache has of it was true until now.
LEMMA EnvironmentKeeps ==
  ASSUME SecretInv, NEW key \in {"prefixed", "plain"}, EnvironmentChanges(key)
  PROVE  SecretInv'
<1>1. PICK v \in {0, values + 1} :
        /\ env[key] # v /\ env' = [env EXCEPT ![key] = v]
        /\ values' = values + (IF v = 0 THEN 0 ELSE 1)
  BY DEF EnvironmentChanges
<1>2. /\ values < MaxValues /\ UNCHANGED <<secretTime, secretMemory, cache, thread, secretCalls>>
      /\ overtaken' = (overtaken \/ \E t \in Threads : Misses(t, key))
      /\ gone' = [w \in DOMAIN gone |-> IF w = OfEnvironment(env) /\ w # OfEnvironment(env')
                                        THEN secretTime + 1 ELSE gone[w]]
  BY DEF EnvironmentChanges
<1>3. values \in Nat /\ values' \in 0..MaxValues /\ values <= values' /\ MaxValues \in Nat
  BY <1>1, <1>2, SecretAssumption DEF SecretInv, SecretTyped
<1>4. env' \in [prefixed : 0..values', plain : 0..values']
  BY <1>1, <1>3 DEF SecretInv, SecretTyped
<1>5. thread' \in [Threads -> ThreadRecord(values')] /\ cache' \in Entry(values', secretTime')
  <2>1. ThreadRecord(values) \subseteq ThreadRecord(values') /\ Entry(values, secretTime) \subseteq Entry(values', secretTime)
    BY <1>3 DEF ThreadRecord, Entry
  <2> QED BY <1>2, <2>1 DEF SecretInv, SecretTyped
<1>6. gone' \in [1..MaxValues -> 0..SecretEndTime + 1]
  BY <1>2, SecretAssumption DEF SecretInv, SecretTyped
<1>7. SecretTyped'
  BY <1>2, <1>3, <1>4, <1>5, <1>6 DEF SecretInv, SecretTyped
<1>8. ASSUME ~overtaken' PROVE WriterHolds' /\ (Quiet' => CacheWasTrue' /\ LookupsTrue')
  <2>1. /\ ~overtaken /\ WriterHolds /\ (Quiet => CacheWasTrue /\ LookupsTrue)
        /\ \A t \in Threads : ~At(t, "caching") /\ (At(t, "unprefixed") => key = "plain")
    BY <1>2, <1>8 DEF SecretInv, Misses
  <2>2. WriterHolds' /\ (Quiet' <=> Quiet)
    BY <1>2, <2>1 DEF WriterHolds, Quiet, Writes, At
  <2>3. ASSUME Quiet PROVE LookupsTrue'
    <3>1. key = "plain" => env'.prefixed = env.prefixed
      BY <1>1 DEF SecretInv, SecretTyped
    <3> QED BY <1>2, <2>1, <2>3, <3>1 DEF LookupsTrue, At, NotPrefixed
  <2>4. ASSUME Quiet PROVE CacheWasTrue'
    <3> SUFFICES ASSUME CacheSecrets, cache.value # 0, cache.value # Truth'
                 PROVE  secretMemory = 0 /\ cache.at < gone'[cache.value]
      BY <1>2 DEF CacheWasTrue
    <3>1. /\ cache.value \in 1..MaxValues /\ cache.at \in 0..secretTime /\ secretTime \in Nat
          /\ gone[cache.value] \in Nat /\ DOMAIN gone = 1..MaxValues
      BY <1>3, SecretAssumption DEF SecretInv, SecretTyped, Entry
    <3>2. cache.value = Truth \/ (secretMemory = 0 /\ cache.at < gone[cache.value])
      BY <2>1, <2>4 DEF CacheWasTrue
    <3>3. secretMemory = 0
      BY <1>2, <3>2 DEF Truth
    <3>4. Truth' = OfEnvironment(env') /\ Truth = OfEnvironment(env)
      BY <1>2, <3>3 DEF Truth
    <3>5. gone'[cache.value] = IF cache.value = Truth THEN secretTime + 1 ELSE gone[cache.value]
      BY <1>2, <3>1, <3>4
    <3> QED BY <3>1, <3>2, <3>3, <3>5
  <2> QED BY <2>2, <2>3, <2>4
<1> QED BY <1>7, <1>8 DEF SecretInv

LEMMA SecretInvNext ==
  ASSUME SecretInv, [SecretNext]_secretVars
  PROVE  SecretInv'
<1>1. ASSUME NEW t \in Threads,
             \/ GetCached(t) \/ ReadMemory(t) \/ ReadEnvironment(t) \/ ReadPlain(t)
         \/ Refresh(t) \/ RefreshGets(t)
      PROVE  SecretInv'
  BY <1>1, LookupsKeep
<1>2. ASSUME NEW t \in Threads, CacheSecret(t) PROVE SecretInv'
  BY <1>2, CacheSecretKeeps
<1>3. ASSUME NEW t \in Threads,
             (\E life \in Lives : SetMemory(t, life)) \/ DeleteMemory(t) \/ DropCached(t)
      PROVE  SecretInv'
  BY <1>3, WritesKeep
<1>4. ASSUME NEW key \in {"prefixed", "plain"}, EnvironmentChanges(key) PROVE SecretInv'
  BY <1>4, EnvironmentKeeps
<1>5. ASSUME UNCHANGED <<secretMemory, env, cache, thread, values, secretCalls, gone, overtaken>>,
             secretTime' \in 0..SecretEndTime, secretTime <= secretTime'
      PROVE  SecretInv'
  <2>1. cache' \in Entry(values', secretTime')
    BY <1>5, SecretAssumption DEF SecretInv, SecretTyped, Entry
  <2>2. SecretTyped'
    BY <1>5, <2>1 DEF SecretInv, SecretTyped
  <2>3. SecretFollows'
    BY <1>5 DEF SecretInv, SecretFollows, WriterHolds, Quiet, Writes, At, CacheWasTrue,
                LookupsTrue, Truth, OfEnvironment, NotPrefixed
  <2> QED BY <2>2, <2>3 DEF SecretInv, SecretFollows
<1>6. CASE SecretTick
  BY <1>5, <1>6, SecretAssumption DEF SecretTick, SecretInv, SecretTyped
<1>7. CASE UNCHANGED secretVars
  BY <1>5, <1>7, SecretAssumption DEF secretVars, SecretInv, SecretTyped
<1> QED BY <1>1, <1>2, <1>3, <1>4, <1>6, <1>7 DEF SecretNext

LEMMA SecretInvKept == SecretSpec => []SecretInv
<1>1. SecretInit => SecretInv
  BY SecretInvInit
<1>2. SecretInv /\ [SecretNext]_secretVars => SecretInv'
  BY SecretInvNext
<1> QED BY <1>1, <1>2, PTL DEF SecretSpec

\* The secret manager's type invariant (secrets.py), for any number of threads, values and
\* calls.
THEOREM SecretTypesKept == SecretSpec => []SecretTypeOK
<1>1. SecretInv => SecretTypeOK
  BY DEF SecretInv, SecretTyped, SecretTypeOK, ThreadRecord, Entry, Places
<1> QED BY <1>1, SecretInvKept, PTL

\* secrets.py: when no call is under way and none overtook a lookup, the cache answers what
\* set() or delete() left, and a change of the environment is answered late by less than
\* the time to live.
THEOREM CacheKept == SecretSpec => []CacheFollowsWrites
<1>1. SecretInv => CacheFollowsWrites
  <2> SUFFICES ASSUME SecretInv, \A t \in Threads : At(t, "idle"), ~overtaken, CacheSecrets, Cached
               PROVE  /\ secretMemory # 0 => cache.value = secretMemory
                      /\ cache.value # Truth =>
                           gone[cache.value] # 0 /\ secretTime < gone[cache.value] - 1 + Ttl
    BY DEF CacheFollowsWrites
  <2>1. Quiet
    BY DEF Quiet, Writes, At
  <2>2. cache.value # 0 /\ secretTime - cache.at < Ttl
    BY DEF Cached
  <2>3. cache.value = Truth \/ (secretMemory = 0 /\ cache.at < gone[cache.value])
    BY <2>1, <2>2 DEF SecretInv, CacheWasTrue
  <2>4. /\ cache.value \in 1..MaxValues /\ cache.at \in Nat /\ secretTime \in Nat
        /\ gone[cache.value] \in Nat /\ Ttl \in Int
    BY <2>2, SecretAssumption DEF SecretInv, SecretTyped, Entry
  <2>5. secretMemory # 0 => cache.value = secretMemory
    BY <2>3 DEF Truth
  <2> QED BY <2>2, <2>3, <2>4, <2>5
<1> QED BY <1>1, SecretInvKept, PTL

-----------------------------------------------------------------------------
(***************************************************************************)
(* The sandbox.                                                            *)
(***************************************************************************)

RunPlaces == {"new", "inside", "code"} \cup Over
NoName == {""}
NoError == {""}
NoEnding == {""}
RunRecord == [at : RunPlaces, id : Ids \cup {"anonymous"} \cup NoName,
              began : 0..SandboxEndTime, left : 0..SandboxEndTime]
Result == [success : BOOLEAN, error : {"violated", "failed"} \cup NoError, measured : 0..SandboxEndTime]

\* The contexts are a function of some of the names.
ContextsTyped == \E D \in SUBSET Ids : active \in [D -> Runs]

SandboxTyped ==
  /\ sandboxTime \in 0..SandboxEndTime
  /\ run \in [Runs -> RunRecord] /\ result \in [Runs -> Result]
  /\ ContextsTyped
  /\ monitor \in Runs \cup {0}
  /\ watch \in [Runs -> {"none", "watching", "told", "raised", "ended"}]
  /\ body \in [Runs -> Endings \cup NoEnding] /\ overlap \subseteq Runs
  /\ \A r \in Runs : run[r].began <= sandboxTime

\* A run that no other overlaps is alone inside, with its monitor and its context.
AloneInside ==
  /\ Inside # {} => monitor \in Runs
  /\ \A r \in Inside \ overlap :
       /\ Inside = {r} /\ monitor = r
       /\ run[r].id \in DOMAIN active /\ active[run[r].id] = r

\* Without overlaps the contexts are of the runs inside, under their own names.
ContextsInside ==
  overlap = {} => \A i \in DOMAIN active : active[i] \in Inside /\ run[active[i]].id = i

EndsWell ==
  \A r \in Runs \ overlap : run[r].at # "lost" /\ (run[r].at \in Over => watch[r] # "watching")

SandboxInv == SandboxTyped /\ OutcomeIsOwn /\ AloneInside /\ ContextsInside /\ EndsWell

LEMMA SandboxInvInit == SandboxInit => SandboxInv
<1> SUFFICES ASSUME SandboxInit PROVE SandboxInv
  OBVIOUS
<1>1. SandboxTyped
  <2> DEFINE e == ""
             x == [at |-> "new", id |-> e, began |-> 0, left |-> 0]
             y == [success |-> FALSE, error |-> e, measured |-> 0]
  <2>0. /\ run = [r \in Runs |-> x] /\ result = [r \in Runs |-> y] /\ body = [r \in Runs |-> e]
        /\ e \in NoName /\ e \in NoError /\ e \in NoEnding
    BY Zenon DEF SandboxInit, NoName, NoError, NoEnding
  <2> HIDE DEF e
  <2>1. run \in [Runs -> RunRecord] /\ \A r \in Runs : run[r].began = 0
    <3>1. x \in RunRecord /\ x.began = 0
      BY <2>0, SandboxAssumption DEF RunRecord, RunPlaces
    <3> QED BY <2>0, <3>1
  <2>2. result \in [Runs -> Result]
    <3>1. y \in Result
      BY <2>0, SandboxAssumption DEF Result
    <3> QED BY <2>0, <3>1
  <2>3. ContextsTyped
    <3>1. active \in [{} -> Runs]
      BY DEF SandboxInit
    <3> QED BY <3>1 DEF ContextsTyped
  <2>4. sandboxTime = 0 /\ monitor = 0 /\ overlap = {} /\ watch = [r \in Runs |-> "none"]
    BY Zenon DEF SandboxInit
  <2>5. sandboxTime \in 0..SandboxEndTime /\ \A r \in Runs : run[r].began <= sandboxTime
    BY <2>1, <2>4, SandboxAssumption
  <2>6. body \in [Runs -> Endings \cup NoEnding]
    BY <2>0
  <2> QED BY <2>1, <2>2, <2>3, <2>4, <2>5, <2>6 DEF SandboxTyped
<1>2. Inside = {} /\ \A r \in Runs : run[r].at = "new"
  BY DEF SandboxInit, Inside
<1>3. OutcomeIsOwn /\ EndsWell
  BY <1>2 DEF OutcomeIsOwn, EndsWell, Over
<1>4. AloneInside /\ ContextsInside
  <2>1. active = [i \in {} |-> 0] /\ DOMAIN active = {}
    BY DEF SandboxInit
  <2> QED BY <1>2, <2>1 DEF AloneInside, ContextsInside
<1> QED BY <1>1, <1>3, <1>4 DEF SandboxInv

\* Of the run that begins, and of the others.
LEMMA BeginsDoes ==
  ASSUME SandboxTyped, NEW r \in Runs, NEW id \in Ids \cup {"anonymous"},
         NEW place \in {"inside", "code"}, Begins(r, place, id)
  PROVE  /\ run[r].at = "new" /\ run' \in [Runs -> RunRecord]
         /\ run'[r].at = place /\ run'[r].id = id /\ run'[r].began = sandboxTime
         /\ \A q \in Runs \ {r} : run'[q] = run[q] /\ watch'[q] = watch[q]
         /\ watch' \in [Runs -> {"none", "watching", "told", "raised", "ended"}]
         /\ \A q \in Runs : run'[q].began <= sandboxTime
<1> DEFINE x == [at |-> place, id |-> id, began |-> sandboxTime, left |-> 0]
<1>1. x \in RunRecord /\ x.at = place /\ x.id = id /\ x.began = sandboxTime
  BY SandboxAssumption DEF RunRecord, RunPlaces, SandboxTyped
<1>2. /\ run[r].at = "new" /\ run' = [run EXCEPT ![r] = x]
      /\ watch' = [watch EXCEPT ![r] = "watching"]
  BY DEF Begins
<1> HIDE DEF x
<1>3. /\ run' \in [Runs -> RunRecord] /\ run'[r] = x
      /\ \A q \in Runs \ {r} : run'[q] = run[q] /\ watch'[q] = watch[q]
      /\ watch' \in [Runs -> {"none", "watching", "told", "raised", "ended"}]
  BY <1>1, <1>2 DEF SandboxTyped
<1>4. \A q \in Runs : run'[q].began <= sandboxTime
  <2> SUFFICES ASSUME NEW q \in Runs PROVE run'[q].began <= sandboxTime
    OBVIOUS
  <2>1. sandboxTime \in Nat
    BY SandboxAssumption DEF SandboxTyped
  <2> QED BY <1>1, <1>3, <2>1 DEF SandboxTyped
<1> QED BY <1>1, <1>2, <1>3, <1>4

LEMMA EnterKeeps ==
  ASSUME SandboxInv, NEW r \in Runs, NEW id \in Ids, Enter(r, id)
  PROVE  SandboxInv'
<1>1. /\ run[r].at = "new" /\ run' \in [Runs -> RunRecord]
      /\ run'[r].at = "inside" /\ run'[r].id = id
      /\ \A q \in Runs \ {r} : run'[q] = run[q] /\ watch'[q] = watch[q]
      /\ watch' \in [Runs -> {"none", "watching", "told", "raised", "ended"}]
      /\ \A q \in Runs : run'[q].began <= sandboxTime
  BY BeginsDoes DEF Enter, SandboxInv
<1>2. /\ DOMAIN active' = DOMAIN active \cup {id} /\ active'[id] = r
      /\ \A i \in DOMAIN active \ {id} : active'[i] = active[i]
      /\ ContextsTyped'
  <2>1. PICK D \in SUBSET Ids : active \in [D -> Runs]
    BY DEF SandboxInv, SandboxTyped, ContextsTyped
  <2>2. active' = [i \in D \cup {id} |-> IF i = id THEN r ELSE active[i]]
    BY <2>1 DEF Enter
  <2>3. active' \in [D \cup {id} -> Runs]
    BY <2>1, <2>2
  <2> QED BY <2>1, <2>2, <2>3 DEF ContextsTyped
<1>3. /\ monitor' = r /\ overlap' = IF Inside = {} THEN overlap ELSE overlap \cup Inside \cup {r}
      /\ UNCHANGED <<sandboxTime, result, body>>
  BY DEF Enter
<1>4. Inside' = Inside \cup {r} /\ Inside \subseteq Runs /\ r \notin Inside
  BY <1>1 DEF Inside
<1>5. SandboxTyped'
  <2>1. overlap' \subseteq Runs
    BY <1>3, <1>4 DEF SandboxInv, SandboxTyped
  <2> QED BY <1>1, <1>2, <1>3, <2>1 DEF SandboxInv, SandboxTyped
<1>6. \A q \in Runs : run'[q].at \in Over => q # r /\ run'[q] = run[q] /\ watch'[q] = watch[q]
  BY <1>1 DEF Over
<1>7. OutcomeIsOwn'
  <2>1. overlap \subseteq overlap'
    BY <1>3
  <2> QED BY <1>3, <1>6, <2>1 DEF OutcomeIsOwn, SandboxInv
<1>8. EndsWell'
  <2> SUFFICES ASSUME NEW q \in Runs \ overlap'
               PROVE  run'[q].at # "lost" /\ (run'[q].at \in Over => watch'[q] # "watching")
    BY DEF EndsWell
  <2>1. q \notin overlap
    BY <1>3
  <2>2. CASE q = r
    BY <1>1, <2>2 DEF Over
  <2>3. CASE q # r
    BY <1>1, <2>1, <2>3 DEF SandboxInv, EndsWell
  <2> QED BY <2>2, <2>3
<1>9. AloneInside'
  <2>1. monitor' \in Runs
    BY <1>3
  <2>2. ASSUME NEW q \in Inside' \ overlap'
        PROVE  /\ Inside' = {q} /\ monitor' = q
               /\ run'[q].id \in DOMAIN active' /\ active'[run'[q].id] = q
    <3>1. Inside = {}
      BY <1>3, <1>4, <2>2
    <3>2. q = r /\ Inside' = {r}
      BY <1>4, <3>1
    <3> QED BY <1>1, <1>2, <1>3, <3>2
  <2> QED BY <2>1, <2>2 DEF AloneInside
<1>10. ContextsInside'
  <2> SUFFICES ASSUME overlap' = {}, NEW i \in DOMAIN active'
               PROVE  active'[i] \in Inside' /\ run'[active'[i]].id = i
    BY DEF ContextsInside
  <2>1. overlap = {} /\ Inside = {}
    BY <1>3
  <2>2. i = id
    BY <1>2, <2>1 DEF SandboxInv, ContextsInside
  <2> QED BY <1>1, <1>2, <1>4, <2>2
<1> QED BY <1>5, <1>7, <1>8, <1>9, <1>10 DEF SandboxInv

LEMMA EnterCodeKeeps ==
  ASSUME SandboxInv, NEW r \in Runs, EnterCode(r)
  PROVE  SandboxInv'
<1>1. /\ run[r].at = "new" /\ run' \in [Runs -> RunRecord] /\ run'[r].at = "code"
      /\ \A q \in Runs \ {r} : run'[q] = run[q] /\ watch'[q] = watch[q]
      /\ watch' \in [Runs -> {"none", "watching", "told", "raised", "ended"}]
      /\ \A q \in Runs : run'[q].began <= sandboxTime
  BY BeginsDoes DEF EnterCode, SandboxInv
<1>2. UNCHANGED <<sandboxTime, result, active, monitor, body, overlap>>
  BY DEF EnterCode
<1>3. Inside' = Inside /\ r \notin Inside /\ Inside \subseteq Runs
  BY <1>1 DEF Inside
<1>4. SandboxTyped'
  <2>1. ContextsTyped'
    BY <1>2 DEF SandboxInv, SandboxTyped, ContextsTyped
  <2> QED BY <1>1, <1>2, <2>1 DEF SandboxInv, SandboxTyped
<1>5. OutcomeIsOwn'
  <2>1. \A q \in Runs : run'[q].at \in Over => run'[q] = run[q]
    BY <1>1 DEF Over
  <2> QED BY <1>2, <2>1 DEF OutcomeIsOwn, SandboxInv
<1>6. EndsWell'
  BY <1>1, <1>2 DEF EndsWell, SandboxInv, Over
<1>7. AloneInside' /\ ContextsInside'
  <2>1. \A q \in Inside : run'[q] = run[q]
    BY <1>1, <1>3
  <2> QED BY <1>2, <1>3, <2>1 DEF AloneInside, ContextsInside, SandboxInv
<1> QED BY <1>4, <1>5, <1>6, <1>7 DEF SandboxInv

\* A run that ends, with the time that its monitor says, and the others.
LEMMA RunEnds ==
  ASSUME SandboxInv, NEW r \in Runs, NEW how \in Endings, NEW m \in Runs,
         NEW place \in Over, result' = [result EXCEPT ![r] = Outcome(how, m)], StopMonitor(m),
         run' = [run EXCEPT ![r].at = place, ![r].left = sandboxTime],
         body' = [body EXCEPT ![r] = how], UNCHANGED <<sandboxTime, monitor, overlap>>
  PROVE  /\ run' \in [Runs -> RunRecord] /\ result' \in [Runs -> Result]
         /\ body' \in [Runs -> Endings \cup NoEnding]
         /\ watch' \in [Runs -> {"none", "watching", "told", "raised", "ended"}]
         /\ \A q \in Runs : run'[q].began = run[q].began /\ run'[q].id = run[q].id
         /\ run'[r].at = place /\ run'[r].left = sandboxTime /\ body'[r] = how
         /\ result'[r].success = (how = "returned")
         /\ result'[r].error = Noted(how)
         /\ result'[r].measured = sandboxTime - run[m].began
         /\ \A q \in Runs \ {r} :
              run'[q] = run[q] /\ result'[q] = result[q] /\ body'[q] = body[q]
         /\ watch'[m] # "watching"
         /\ \A q \in Runs : watch[q] # "watching" => watch'[q] # "watching"
<1> DEFINE x == [run[r] EXCEPT !.at = place, !.left = sandboxTime]
           o == Outcome(how, m)
<1>1. run[r] \in RunRecord /\ sandboxTime \in 0..SandboxEndTime
  BY DEF SandboxInv, SandboxTyped
<1>2. /\ x \in RunRecord /\ x.at = place /\ x.left = sandboxTime /\ x.began = run[r].began
      /\ x.id = run[r].id
  BY <1>1 DEF RunRecord, RunPlaces
<1>3. run' = [run EXCEPT ![r] = x]
  BY DEF SandboxInv, SandboxTyped
<1>4. /\ o \in Result /\ o.success = (how = "returned")
      /\ o.error = Noted(how)
      /\ o.measured = sandboxTime - run[m].began
  <2>1. run[m].began \in 0..SandboxEndTime /\ run[m].began <= sandboxTime
    BY DEF SandboxInv, SandboxTyped, RunRecord
  <2>2. sandboxTime - run[m].began \in 0..SandboxEndTime
    BY <1>1, <2>1, SandboxAssumption
  <2> DEFINE b == how = "returned"
             e == Noted(how)
             d == sandboxTime - run[m].began
  <2>3. b \in BOOLEAN
    BY Zenon
  <2>4. e \in {"violated", "failed"} \cup NoError
    BY Zenon DEF Noted, NoError
  <2>5. o = [success |-> b, error |-> e, measured |-> d]
    BY Zenon DEF Outcome
  <2> HIDE DEF b, e, d
  <2>6. o \in Result /\ o.success = b /\ o.error = e /\ o.measured = d
    BY <2>2, <2>3, <2>4, <2>5 DEF Result, d
  <2> QED BY <2>6 DEF b, e, d
<1> HIDE DEF x, o
<1>5. /\ run' \in [Runs -> RunRecord] /\ run'[r] = x /\ \A q \in Runs \ {r} : run'[q] = run[q]
  BY <1>2, <1>3 DEF SandboxInv, SandboxTyped
<1>6. /\ result' \in [Runs -> Result] /\ result'[r] = o
      /\ \A q \in Runs \ {r} : result'[q] = result[q]
  BY <1>4 DEF SandboxInv, SandboxTyped, o
<1>7. /\ body' \in [Runs -> Endings \cup NoEnding] /\ body'[r] = how
      /\ \A q \in Runs \ {r} : body'[q] = body[q]
  BY DEF SandboxInv, SandboxTyped
<1>8. /\ watch' \in [Runs -> {"none", "watching", "told", "raised", "ended"}]
      /\ watch'[m] # "watching" /\ \A q \in Runs : watch[q] # "watching" => watch'[q] # "watching"
  BY DEF SandboxInv, SandboxTyped, StopMonitor
<1>9. \A q \in Runs : run'[q].began = run[q].began /\ run'[q].id = run[q].id
  BY <1>2, <1>5
<1> QED BY <1>2, <1>4, <1>5, <1>6, <1>7, <1>8, <1>9

LEMMA LeaveKeeps ==
  ASSUME SandboxInv, NEW r \in Runs, NEW how \in Endings, Leave(r, how)
  PROVE  SandboxInv'
<1> DEFINE place == IF run[r].id \in DOMAIN active THEN "ended" ELSE "lost"
<1>1. r \in Inside /\ Inside \subseteq Runs /\ monitor \in Runs
  BY DEF Leave, Inside, SandboxInv, AloneInside
<1>2. place \in Over
  BY DEF Over
<1>3. /\ result' = [result EXCEPT ![r] = Outcome(how, monitor)] /\ StopMonitor(monitor)
      /\ run' = [run EXCEPT ![r].at = place, ![r].left = sandboxTime]
      /\ body' = [body EXCEPT ![r] = how] /\ UNCHANGED <<sandboxTime, monitor, overlap>>
      /\ active' = [i \in DOMAIN active \ {run[r].id} |-> active[i]]
  BY DEF Leave
<1> HIDE DEF place
<1>4. /\ run' \in [Runs -> RunRecord] /\ result' \in [Runs -> Result]
      /\ body' \in [Runs -> Endings \cup NoEnding]
      /\ watch' \in [Runs -> {"none", "watching", "told", "raised", "ended"}]
      /\ \A q \in Runs : run'[q].began = run[q].began /\ run'[q].id = run[q].id
      /\ run'[r].at = place /\ run'[r].left = sandboxTime /\ body'[r] = how
      /\ result'[r].success = (how = "returned")
      /\ result'[r].error = Noted(how)
      /\ result'[r].measured = sandboxTime - run[monitor].began
      /\ \A q \in Runs \ {r} :
           run'[q] = run[q] /\ result'[q] = result[q] /\ body'[q] = body[q]
      /\ watch'[monitor] # "watching"
      /\ \A q \in Runs : watch[q] # "watching" => watch'[q] # "watching"
  BY <1>1, <1>2, <1>3, RunEnds
<1>5. /\ DOMAIN active' = DOMAIN active \ {run[r].id}
      /\ \A i \in DOMAIN active' : active'[i] = active[i]
      /\ ContextsTyped'
  <2>1. PICK D \in SUBSET Ids : active \in [D -> Runs]
    BY DEF SandboxInv, SandboxTyped, ContextsTyped
  <2>2. active' = [i \in D \ {run[r].id} |-> active[i]]
    BY <1>3, <2>1
  <2>3. active' \in [D \ {run[r].id} -> Runs]
    BY <2>1, <2>2
  <2> QED BY <2>1, <2>2, <2>3 DEF ContextsTyped
<1>6. Inside' = Inside \ {r}
  BY <1>2, <1>4 DEF Inside, Over
<1>7. SandboxTyped'
  <2>1. \A q \in Runs : run'[q].began <= sandboxTime'
    <3>1. \A q \in Runs : run[q].began <= sandboxTime
      BY DEF SandboxInv, SandboxTyped
    <3>2. sandboxTime' = sandboxTime /\ \A q \in Runs : run'[q].began = run[q].began
      BY <1>3, <1>4
    <3> QED BY <3>1, <3>2
  <2>2. /\ sandboxTime' \in 0..SandboxEndTime /\ monitor' \in Runs \cup {0}
        /\ overlap' \subseteq Runs
    BY <1>3 DEF SandboxInv, SandboxTyped
  <2> QED BY <1>4, <1>5, <2>1, <2>2 DEF SandboxTyped
<1>8. r \notin overlap => monitor = r /\ Inside = {r} /\ run[r].id \in DOMAIN active
  BY <1>1 DEF SandboxInv, AloneInside
<1>9. OutcomeIsOwn'
  <2> SUFFICES ASSUME NEW q \in Runs, run'[q].at \in Over
               PROVE  /\ result'[q].success = (body'[q] = "returned")
                      /\ result'[q].error = Noted(body'[q])
                      /\ q \notin overlap => result'[q].measured = run'[q].left - run'[q].began
    BY <1>3 DEF OutcomeIsOwn
  <2>1. CASE q = r
    BY <1>4, <1>8, <2>1
  <2>2. CASE q # r
    <3>1. run[q].at \in Over /\ run'[q] = run[q] /\ result'[q] = result[q] /\ body'[q] = body[q]
      BY <1>4, <2>2
    <3> QED BY <3>1 DEF SandboxInv, OutcomeIsOwn
  <2> QED BY <2>1, <2>2
<1>10. EndsWell'
  <2> SUFFICES ASSUME NEW q \in Runs \ overlap
               PROVE  run'[q].at # "lost" /\ (run'[q].at \in Over => watch'[q] # "watching")
    BY <1>3 DEF EndsWell
  <2>1. CASE q = r
    BY <1>4, <1>8, <2>1 DEF place
  <2>2. CASE q # r
    BY <1>4, <2>2 DEF SandboxInv, EndsWell
  <2> QED BY <2>1, <2>2
<1>11. AloneInside'
  <2>1. Inside' # {} => monitor' \in Runs
    BY <1>1, <1>3
  <2>2. Inside' \subseteq overlap'
    BY <1>3, <1>6, <1>1 DEF SandboxInv, AloneInside
  <2> QED BY <2>1, <2>2 DEF AloneInside
<1>12. ContextsInside'
  <2> SUFFICES ASSUME overlap = {}, NEW i \in DOMAIN active'
               PROVE  active'[i] \in Inside' /\ run'[active'[i]].id = i
    BY <1>3 DEF ContextsInside
  <2>1. active[i] \in Inside /\ run[active[i]].id = i
    BY <1>5 DEF SandboxInv, ContextsInside
  <2>2. active[i] = r
    BY <1>8, <2>1
  <2> QED BY <1>5, <2>1, <2>2
<1> QED BY <1>7, <1>9, <1>10, <1>11, <1>12 DEF SandboxInv

LEMMA LeaveCodeKeeps ==
  ASSUME SandboxInv, NEW r \in Runs, NEW how \in Endings, LeaveCode(r, how)
  PROVE  SandboxInv'
<1>1. /\ run[r].at = "code" /\ "ended" \in Over
      /\ result' = [result EXCEPT ![r] = Outcome(how, r)] /\ StopMonitor(r)
      /\ run' = [run EXCEPT ![r].at = "ended", ![r].left = sandboxTime]
      /\ body' = [body EXCEPT ![r] = how] /\ UNCHANGED <<sandboxTime, active, monitor, overlap>>
  BY DEF LeaveCode, CodeMonitor, Over
<1>2. /\ run' \in [Runs -> RunRecord] /\ result' \in [Runs -> Result]
      /\ body' \in [Runs -> Endings \cup NoEnding]
      /\ watch' \in [Runs -> {"none", "watching", "told", "raised", "ended"}]
      /\ \A q \in Runs : run'[q].began = run[q].began /\ run'[q].id = run[q].id
      /\ run'[r].at = "ended" /\ run'[r].left = sandboxTime /\ body'[r] = how
      /\ result'[r].success = (how = "returned")
      /\ result'[r].error = Noted(how)
      /\ result'[r].measured = sandboxTime - run[r].began
      /\ \A q \in Runs \ {r} :
           run'[q] = run[q] /\ result'[q] = result[q] /\ body'[q] = body[q]
      /\ watch'[r] # "watching"
      /\ \A q \in Runs : watch[q] # "watching" => watch'[q] # "watching"
  BY <1>1, RunEnds
<1>3. Inside' = Inside /\ Inside \subseteq Runs
  BY <1>1, <1>2 DEF Inside
<1>4. SandboxTyped'
  <2>1. \A q \in Runs : run'[q].began <= sandboxTime'
    <3>1. \A q \in Runs : run[q].began <= sandboxTime
      BY DEF SandboxInv, SandboxTyped
    <3>2. sandboxTime' = sandboxTime /\ \A q \in Runs : run'[q].began = run[q].began
      BY <1>1, <1>2
    <3> QED BY <3>1, <3>2
  <2>2. /\ sandboxTime' \in 0..SandboxEndTime /\ monitor' \in Runs \cup {0}
        /\ overlap' \subseteq Runs /\ ContextsTyped'
    BY <1>1 DEF SandboxInv, SandboxTyped, ContextsTyped
  <2> QED BY <1>2, <2>1, <2>2 DEF SandboxTyped
<1>5. OutcomeIsOwn'
  <2> SUFFICES ASSUME NEW q \in Runs, run'[q].at \in Over
               PROVE  /\ result'[q].success = (body'[q] = "returned")
                      /\ result'[q].error = Noted(body'[q])
                      /\ q \notin overlap => result'[q].measured = run'[q].left - run'[q].began
    BY <1>1 DEF OutcomeIsOwn
  <2>1. CASE q = r
    BY <1>2, <2>1
  <2>2. CASE q # r
    <3>1. run[q].at \in Over /\ run'[q] = run[q] /\ result'[q] = result[q] /\ body'[q] = body[q]
      BY <1>2, <2>2
    <3> QED BY <3>1 DEF SandboxInv, OutcomeIsOwn
  <2> QED BY <2>1, <2>2
<1>6. EndsWell'
  <2> SUFFICES ASSUME NEW q \in Runs \ overlap
               PROVE  run'[q].at # "lost" /\ (run'[q].at \in Over => watch'[q] # "watching")
    BY <1>1 DEF EndsWell
  <2>1. CASE q = r
    BY <1>2, <2>1
  <2>2. CASE q # r
    BY <1>2, <2>2 DEF SandboxInv, EndsWell
  <2> QED BY <2>1, <2>2
<1>7. AloneInside' /\ ContextsInside'
  <2>1. \A q \in Inside : run'[q] = run[q]
    <3>1. r \notin Inside
      BY <1>1 DEF Inside
    <3> QED BY <1>2, <1>3, <3>1
  <2>2. active' = active /\ monitor' = monitor /\ overlap' = overlap
    BY <1>1
  <2>3. AloneInside'
    BY <1>3, <2>1, <2>2 DEF AloneInside, SandboxInv
  <2>4. ContextsInside'
    BY <1>3, <2>1, <2>2 DEF ContextsInside, SandboxInv
  <2> QED BY <2>3, <2>4
<1> QED BY <1>4, <1>5, <1>6, <1>7 DEF SandboxInv

\* A monitor that stops, and the clock, touch no run.
LEMMA MonitorKeeps ==
  ASSUME SandboxInv, UNCHANGED <<run, result, active, monitor, body, overlap>>,
         sandboxTime' \in 0..SandboxEndTime, sandboxTime <= sandboxTime',
         watch' \in [Runs -> {"none", "watching", "told", "raised", "ended"}],
         \A q \in Runs : watch[q] # "watching" => watch'[q] # "watching"
  PROVE  SandboxInv'
<1>1. Inside' = Inside
  BY DEF Inside
<1>2. \A q \in Runs : run'[q].began <= sandboxTime'
  BY SandboxAssumption DEF SandboxInv, SandboxTyped, RunRecord
<1>3. SandboxTyped'
  <2>1. ContextsTyped'
    BY DEF SandboxInv, SandboxTyped, ContextsTyped
  <2> QED BY <1>2, <2>1 DEF SandboxInv, SandboxTyped
<1>4. OutcomeIsOwn' /\ AloneInside' /\ ContextsInside' /\ EndsWell'
  BY <1>1 DEF SandboxInv, OutcomeIsOwn, AloneInside, ContextsInside, EndsWell
<1> QED BY <1>3, <1>4 DEF SandboxInv

LEMMA SandboxInvNext ==
  ASSUME SandboxInv, [SandboxNext]_sandboxVars
  PROVE  SandboxInv'
<1>1. ASSUME NEW r \in Runs, NEW id \in Ids, Enter(r, id) PROVE SandboxInv'
  BY <1>1, EnterKeeps
<1>2. ASSUME NEW r \in Runs, EnterCode(r) PROVE SandboxInv'
  BY <1>2, EnterCodeKeeps
<1>3. ASSUME NEW r \in Runs, NEW how \in Endings, Leave(r, how) \/ LeaveCode(r, how)
      PROVE  SandboxInv'
  BY <1>3, LeaveKeeps, LeaveCodeKeeps
<1>4. ASSUME NEW r \in Runs, MonitorEnds(r) \/ MonitorRaises(r) PROVE SandboxInv'
  <2>1. sandboxTime \in 0..SandboxEndTime /\ sandboxTime \in Nat
    BY SandboxAssumption DEF SandboxInv, SandboxTyped
  <2>2. PICK w \in {"raised", "ended"} : watch' = [watch EXCEPT ![r] = w]
    BY <1>4 DEF MonitorEnds, MonitorRaises
  <2>3. /\ watch' \in [Runs -> {"none", "watching", "told", "raised", "ended"}]
        /\ \A q \in Runs : watch[q] # "watching" => watch'[q] # "watching"
    BY <2>2 DEF SandboxInv, SandboxTyped
  <2>4. UNCHANGED <<sandboxTime, run, result, active, monitor, body, overlap>>
    BY <1>4 DEF MonitorEnds, MonitorRaises
  <2> QED BY <2>1, <2>3, <2>4, MonitorKeeps
<1>5. ASSUME UNCHANGED <<run, result, active, monitor, watch, body, overlap>>,
             sandboxTime' = sandboxTime \/ (sandboxTime < SandboxEndTime /\ sandboxTime' = sandboxTime + 1)
      PROVE  SandboxInv'
  <2>1. sandboxTime' \in 0..SandboxEndTime /\ sandboxTime <= sandboxTime'
    BY <1>5, SandboxAssumption DEF SandboxInv, SandboxTyped
  <2>2. watch' = watch /\ watch \in [Runs -> {"none", "watching", "told", "raised", "ended"}]
    BY <1>5 DEF SandboxInv, SandboxTyped
  <2> QED BY <1>5, <2>1, <2>2, MonitorKeeps
<1>6. CASE SandboxTick
  BY <1>5, <1>6 DEF SandboxTick
<1>7. CASE UNCHANGED sandboxVars
  BY <1>5, <1>7 DEF sandboxVars
<1> QED BY <1>1, <1>2, <1>3, <1>4, <1>6, <1>7 DEF SandboxNext

LEMMA SandboxInvKept == SandboxSpec => []SandboxInv
<1>1. SandboxInit => SandboxInv
  BY SandboxInvInit
<1>2. SandboxInv /\ [SandboxNext]_sandboxVars => SandboxInv'
  BY SandboxInvNext
<1> QED BY <1>1, <1>2, PTL DEF SandboxSpec

\* The sandbox's type invariant (sandbox.py), for any runs, plugin ids and clock.
THEOREM SandboxTypesKept == SandboxSpec => []SandboxTypeOK
<1>1. SandboxInv => SandboxTypeOK
  <2> SUFFICES ASSUME SandboxInv PROVE SandboxTypeOK
    OBVIOUS
  <2>1. DOMAIN active \subseteq Ids /\ \A i \in DOMAIN active : active[i] \in Runs
    BY DEF SandboxInv, SandboxTyped, ContextsTyped
  <2>2. run \in [Runs -> [at : {"new", "inside", "code"} \cup Over, id : Ids \cup {"", "anonymous"},
                          began : 0..SandboxEndTime, left : 0..SandboxEndTime]]
    <3>1. Ids \cup {"anonymous"} \cup NoName = Ids \cup {"", "anonymous"}
      BY Zenon DEF NoName
    <3> QED BY Zenon, <3>1 DEF SandboxInv, SandboxTyped, RunRecord, RunPlaces
  <2>3. result \in [Runs -> [success : BOOLEAN, error : {"", "violated", "failed"}, measured : 0..SandboxEndTime]]
    <3>1. {"violated", "failed"} \cup NoError = {"", "violated", "failed"}
      BY Zenon DEF NoError
    <3> QED BY Zenon, <3>1 DEF SandboxInv, SandboxTyped, Result
  <2>4. body \in [Runs -> Endings \cup {""}]
    BY Zenon DEF SandboxInv, SandboxTyped, NoEnding
  <2> QED BY Zenon, <2>1, <2>2, <2>3, <2>4 DEF SandboxInv, SandboxTyped, SandboxTypeOK
<1> QED BY <1>1, SandboxInvKept, PTL

\* sandbox.py: what execute() and execute_code() report of a run is how its own plugin
\* ended, and, unless another run was inside with it, how long it was inside.
THEOREM OutcomesKept == SandboxSpec => []OutcomeIsOwn
<1>1. SandboxInv => OutcomeIsOwn
  BY DEF SandboxInv
<1> QED BY <1>1, SandboxInvKept, PTL

\* sandbox.py: while no two runs of execute() are inside together the contexts are those of
\* the runs inside, none of them is lost to a KeyError, and no monitor outlives its run.
THEOREM ContextsKept == SandboxSpec => []ContextsOfRuns
<1>1. SandboxInv => ContextsOfRuns
  <2> SUFFICES ASSUME SandboxInv, overlap = {}
               PROVE  {active[i] : i \in DOMAIN active} = Inside
    BY DEF SandboxInv, EndsWell, ContextsOfRuns
  <2>1. \A i \in DOMAIN active : active[i] \in Inside
    BY DEF SandboxInv, ContextsInside
  <2>2. \A r \in Inside : run[r].id \in DOMAIN active /\ active[run[r].id] = r
    BY DEF SandboxInv, AloneInside
  <2> QED BY <2>1, <2>2
<1> QED BY <1>1, SandboxInvKept, PTL

-----------------------------------------------------------------------------
(***************************************************************************)
(* The host puts the components side by side: each sees its own steps, and *)
(* stutters while another takes one.                                       *)
(***************************************************************************)
LEMMA HostIsEach ==
  HostSpec => /\ [][Next]_vars /\ Init /\ Fairness
              /\ InterruptSpec /\ PolicySpec /\ SecretSpec /\ SandboxSpec
<1>1. HostInit => Init /\ InterruptInit /\ PolicyInit /\ SecretInit /\ SandboxInit
  BY DEF HostInit
<1>2. [HostNext]_hostVars =>
        /\ [Next]_vars /\ [InterruptNext]_interruptVars /\ [PolicyNext]_policyVars
        /\ [SecretNext]_secretVars /\ [SandboxNext]_sandboxVars
  BY DEF HostNext, hostVars
<1> QED BY <1>1, <1>2, PTL DEF HostSpec, InterruptSpec, PolicySpec, SecretSpec, SandboxSpec

\* The types of the server and of everything that guards it, for all of their constants.
THEOREM HostTypesKept == HostSpec => []WellTyped
<1>1. TypeOK /\ InterruptTypeOK /\ PolicyTypeOK /\ SecretTypeOK /\ SandboxTypeOK => WellTyped
  BY DEF WellTyped
<1>2. HostSpec => Spec
  BY HostIsEach DEF Spec
<1> QED
  BY <1>1, <1>2, HostIsEach, ServerTypesKept, InterruptTypesKept, PolicyTypesKept, SecretTypesKept,
     SandboxTypesKept, PTL

\* sessions.py, interrupts.py, secrets.py, sandbox.py: the records that two places keep of
\* one thing agree: index and sessions, points and streams, cache and backends, results
\* and runs.
THEOREM RecordsKept == HostSpec => []RecordsAgree
<1>1. SessionsIndexed /\ PointsInOrder /\ CacheFollowsWrites /\ OutcomeIsOwn /\ ContextsOfRuns
        => RecordsAgree
  BY DEF RecordsAgree
<1>2. HostSpec => Spec
  BY HostIsEach DEF Spec
<1> QED
  BY <1>1, <1>2, HostIsEach, IndexKept, PointsKept, CacheKept, OutcomesKept, ContextsKept, PTL

\* server.py, sessions.py, policy.py: permits, the streams of a session, the calls of a
\* minute, the streams of an agent and what a call was granted keep to their limits.
THEOREM AllLimitsKept == HostSpec => []LimitsKept
<1>1. PermitsAccounted /\ StreamsLimited /\ MinuteBound /\ StreamsCounted /\ GrantedByOne
        => LimitsKept
  BY DEF LimitsKept
<1>2. HostSpec => Spec
  BY HostIsEach DEF Spec
<1> QED
  BY <1>1, <1>2, HostIsEach, PermitsKept, StreamLimitKept, MinuteKept, StreamCountKept,
     GrantKept, PTL
=============================================================================
