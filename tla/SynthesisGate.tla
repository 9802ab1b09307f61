--------------------------- MODULE SynthesisGate ---------------------------
(***************************************************************************)
(* The guard of the two synthesis tools of the MCP server: rate limiter,   *)
(* request timeout and SynthesisSemaphore (mcp-server/src/server.ts,       *)
(* timeout.ts, concurrency.ts), on the event loop they run on.             *)
(*                                                                         *)
(* JavaScript runs one callback at a time.  A macrotask (a chunk on stdin, *)
(* the end of a backend's I/O, a timer) runs only when the microtask queue *)
(* is empty; every continuation of an await joins that queue at its end.   *)
(* A woken waiter is such a continuation: between next() and the line      *)
(* after the await, the microtasks queued before it run.                   *)
(***************************************************************************)
EXTENDS Naturals, Sequences, SequencesExt, FiniteSets

CONSTANTS
  Requests,       \* tool calls
  MaxConcurrent,  \* --max-concurrent: at least 1 (cli.ts ignores other values)
  MaxHops         \* bound: awaits of a handler's argument validation, or of a
                  \* synthesis that settles without I/O

ASSUME RequestsAssumption == IsFiniteSet(Requests)
ASSUME MaxConcurrentAssumption == MaxConcurrent \in Nat \ {0}
ASSUME MaxHopsAssumption == MaxHops \in Nat

VARIABLES
  running,  \* SynthesisSemaphore.running
  queue,    \* SynthesisSemaphore.queue: the waiters' resolve functions
  micro,    \* microtask queue: [kind, req, hops]
  pc,       \* where the handler of each request is
  answer,   \* what the client was answered
  early     \* history: the requests whose fn() settles without I/O

vars == <<running, queue, micro, pc, answer, early>>

Stage == {"unsent", "calling", "waiting", "woken", "running", "settling", "done"}
Answer == {"none", "rate_limited", "busy", "timeout", "result"}

\* A continuation of request r, that is "hops" awaits away.
Task(kind, r, hops) == [kind |-> kind, req |-> r, hops |-> hops]
Next1 == Head(micro)

-----------------------------------------------------------------------------
(***************************************************************************)
(* Microtasks.                                                             *)
(***************************************************************************)
\* One await before the continuation proper: back to the end of the queue.
Hop ==
  /\ micro # <<>> /\ Next1.hops > 0
  /\ micro' = Append(Tail(micro), [Next1 EXCEPT !.hops = @ - 1])
  /\ UNCHANGED <<running, queue, pc, answer, early>>

Ready(kind) == micro # <<>> /\ Next1.kind = kind /\ Next1.hops = 0

\* The handler passes the semaphore and calls fn(): its promise settles after
\* I/O, or after some microtasks.  The latter with any backend: a script does not
\* parse, or, with base64 artifacts (no directory is resolved), a voice is not
\* known, the backend is not ready, or there is nothing but pauses to speak.
StartSynthesis(r) ==
  /\ running' = running + 1
  /\ \/ /\ pc' = [pc EXCEPT ![r] = "running"]
        /\ micro' = Tail(micro)
        /\ UNCHANGED early
     \/ /\ pc' = [pc EXCEPT ![r] = "settling"]
        /\ early' = early \cup {r}
        /\ \E hops \in 0..MaxHops : micro' = Append(Tail(micro), Task("settle", r, hops))

RateLimited ==
  /\ Ready("call")
  /\ pc' = [pc EXCEPT ![Next1.req] = "done"]
  /\ answer' = [answer EXCEPT ![Next1.req] = "rate_limited"]
  /\ micro' = Tail(micro)
  /\ UNCHANGED <<running, queue, early>>

\* Mutant: the test is one off.
Admit_OffByOne ==
  /\ Ready("call")
  /\ running <= MaxConcurrent
  /\ StartSynthesis(Next1.req)
  /\ UNCHANGED <<queue, answer>>

\* run(): a free slot.
Admit ==
  /\ Ready("call")
  /\ running < MaxConcurrent
  /\ StartSynthesis(Next1.req)
  /\ UNCHANGED <<queue, answer>>

\* run(): no slot, and nobody waits yet.
Wait ==
  /\ Ready("call")
  /\ running >= MaxConcurrent
  /\ queue = <<>>
  /\ queue' = Append(queue, Next1.req)
  /\ pc' = [pc EXCEPT ![Next1.req] = "waiting"]
  /\ micro' = Tail(micro)
  /\ UNCHANGED <<running, answer, early>>

\* Mutant: the finally block covers the busy check too.
Refuse_GivesSlotBack ==
  /\ Ready("call")
  /\ running >= MaxConcurrent
  /\ queue # <<>>
  /\ running' = running - 1
  /\ pc' = [pc EXCEPT ![Next1.req] = "done"]
  /\ answer' = [answer EXCEPT ![Next1.req] = "busy"]
  /\ micro' = Tail(micro)
  /\ UNCHANGED <<queue, early>>

\* run(): BusyError.
Refuse ==
  /\ Ready("call")
  /\ running >= MaxConcurrent
  /\ queue # <<>>
  /\ pc' = [pc EXCEPT ![Next1.req] = "done"]
  /\ answer' = [answer EXCEPT ![Next1.req] = "busy"]
  /\ micro' = Tail(micro)
  /\ UNCHANGED <<running, queue, early>>

\* run(), after the await: running++ without a second look at it.
Resume ==
  /\ Ready("resume")
  /\ StartSynthesis(Next1.req)
  /\ UNCHANGED <<queue, answer>>

\* Mutant: the waiter is not woken.
Settle_NoWake ==
  /\ Ready("settle")
  /\ UNCHANGED early
  /\ LET r == Next1.req IN
     /\ running' = running - 1
     /\ answer' = [answer EXCEPT ![r] = IF @ = "none" THEN "result" ELSE @]
     /\ pc' = [pc EXCEPT ![r] = "done"]
     /\ micro' = Tail(micro)
     /\ UNCHANGED queue

\* Mutant: the finally block does not run for a request that has timed out.
Settle_TimedOutKeepsSlot ==
  /\ Ready("settle")
  /\ UNCHANGED early
  /\ LET r == Next1.req
         rest == Tail(micro)
     IN
     /\ running' = IF answer[r] = "timeout" THEN running ELSE running - 1
     /\ answer' = [answer EXCEPT ![r] = IF @ = "none" THEN "result" ELSE @]
     /\ IF queue = <<>>
        THEN /\ pc' = [pc EXCEPT ![r] = "done"]
             /\ micro' = rest
             /\ UNCHANGED queue
        ELSE /\ pc' = [pc EXCEPT ![r] = "done", ![Head(queue)] = "woken"]
             /\ micro' = Append(rest, Task("resume", Head(queue), 0))
             /\ queue' = Tail(queue)

\* run(), finally: give the slot back, wake the waiter.  The answer reaches the
\* client unless the timeout rejected it before.
Settle ==
  /\ Ready("settle")
  /\ UNCHANGED early
  /\ LET r == Next1.req
         rest == Tail(micro)
     IN
     /\ running' = running - 1
     /\ answer' = [answer EXCEPT ![r] = IF @ = "none" THEN "result" ELSE @]
     /\ IF queue = <<>>
        THEN /\ pc' = [pc EXCEPT ![r] = "done"]
             /\ micro' = rest
             /\ UNCHANGED queue
        ELSE /\ pc' = [pc EXCEPT ![r] = "done", ![Head(queue)] = "woken"]
             /\ micro' = Append(rest, Task("resume", Head(queue), 0))
             /\ queue' = Tail(queue)

Microtask ==
  Hop \/ RateLimited \/ Admit \/ Wait \/ Refuse \/ Resume \/ Settle

-----------------------------------------------------------------------------
(***************************************************************************)
(* Macrotasks: only when no microtask is left.                             *)
(***************************************************************************)
\* One chunk of stdin holds the messages of batch, in that order; each handler
\* is called after the validation of its arguments.
Receive ==
  /\ micro = <<>>
  /\ \E batch \in SUBSET {r \in Requests : pc[r] = "unsent"} \ {{}} :
       /\ pc' = [r \in Requests |-> IF r \in batch THEN "calling" ELSE pc[r]]
       /\ \E order \in SetToSeqs(batch), hops \in [batch -> 0..MaxHops] :
            micro' = [i \in DOMAIN order |-> Task("call", order[i], hops[order[i]])]
  /\ UNCHANGED <<running, queue, answer, early>>

\* Mutant: the end of an I/O nobody waits for any more is dropped.
BackendDone_UnlessTimedOut(r) ==
  /\ micro = <<>>
  /\ pc[r] = "running"
  /\ answer[r] = "none"
  /\ pc' = [pc EXCEPT ![r] = "settling"]
  /\ micro' = <<Task("settle", r, 0)>>
  /\ UNCHANGED <<running, queue, answer, early>>

\* The backend's I/O ends, well or not: fn()'s promise settles.
BackendDone(r) ==
  /\ micro = <<>>
  /\ pc[r] = "running"
  /\ pc' = [pc EXCEPT ![r] = "settling"]
  /\ micro' = <<Task("settle", r, 0)>>
  /\ UNCHANGED <<running, queue, answer, early>>

\* Mutant: no timer runs while the request waits for a slot.
Timeout_RunningOnly(r) ==
  /\ micro = <<>>
  /\ pc[r] = "running"
  /\ answer[r] = "none"
  /\ answer' = [answer EXCEPT ![r] = "timeout"]
  /\ UNCHANGED <<running, queue, micro, pc, early>>

\* withTimeout's timer: rejects the client and cancels nothing.
Timeout(r) ==
  /\ micro = <<>>
  /\ pc[r] \in {"waiting", "running"}
  /\ answer[r] = "none"
  /\ answer' = [answer EXCEPT ![r] = "timeout"]
  /\ UNCHANGED <<running, queue, micro, pc, early>>

Macrotask == Receive \/ \E r \in Requests : BackendDone(r) \/ Timeout(r)

Init ==
  /\ running = 0
  /\ queue = <<>>
  /\ micro = <<>>
  /\ pc = [r \in Requests |-> "unsent"]
  /\ answer = [r \in Requests |-> "none"]
  /\ early = {}

Next == Microtask \/ Macrotask

\* The event loop runs what is due: microtasks, then timers.  A backend may hang.
Fairness == WF_vars(Microtask) /\ \A r \in Requests : WF_vars(Timeout(r))
BackendsEnd == \A r \in Requests : WF_vars(BackendDone(r))

Spec     == Init /\ [][Next]_vars
FairSpec == Spec /\ Fairness

-----------------------------------------------------------------------------
(***************************************************************************)
(* What the guard promises.                                                *)
(***************************************************************************)
TaskType == [kind : {"call", "resume", "settle"}, req : Requests, hops : 0..MaxHops]

\* Type invariant.
TypeOK ==
  /\ running \in Nat
  /\ queue \in Seq(Requests)
  /\ micro \in Seq(TaskType)
  /\ pc \in [Requests -> Stage]
  /\ answer \in [Requests -> Answer]
  /\ early \in SUBSET Requests

\* A slot is held exactly while a synthesis is in progress: none leaks through a
\* timeout or an error, none is given back twice.
SlotsHeld == running = Cardinality({r \in Requests : pc[r] \in {"running", "settling"}})

\* What the documents promise: no more syntheses at a time than --max-concurrent.
ConcurrencyLimit == running <= MaxConcurrent

Woken     == {r \in Requests : pc[r] = "woken"}
EarlyDone == {r \in early : pc[r] = "done"}

\* What the code keeps of it.  A slot that is given back without I/O, while calls
\* are still on their way through the same turn of the event loop, is taken by one
\* of them and by the woken waiter.  So the limit, those who are about to resume
\* counted in, is passed by at most one for each synthesis that settled without
\* I/O, and is kept while none has.
LimitButForEarly ==
  running + Cardinality(Woken) <= MaxConcurrent + Cardinality(EarlyDone)

\* A request that starts takes its slot from nobody who still waits in the queue;
\* and from a waiter that is woken, and has not resumed, only after some synthesis
\* has settled without I/O.
NoOvertaking ==
  [][\A r \in Requests :
       (pc[r] = "calling" /\ pc'[r] \in {"running", "settling"}) =>
          \A q \in Requests : /\ pc[q] # "waiting"
                              /\ pc[q] = "woken" => EarlyDone # {}]_vars

\* Every request the server receives is answered, even if its backend hangs: a
\* request in the queue has its timer too.
EveryRequestAnswered ==
  \A r \in Requests : pc[r] = "calling" ~> answer[r] # "none"

\* When backends end, whoever waits gets its slot, since no wake-up is lost, and
\* gives it back in the end.
SlotsReturned ==
  BackendsEnd => \A r \in Requests : pc[r] \in {"waiting", "running"} ~> pc[r] = "done"
=============================================================================
