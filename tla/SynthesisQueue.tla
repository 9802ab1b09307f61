--------------------------- MODULE SynthesisQueue ---------------------------
(***************************************************************************)
(* The synthesis job queue of distributed/queue.py: clients submit and     *)
(* cancel jobs, worker threads take them by priority, synthesise them and  *)
(* retry what fails.                                                       *)
(*                                                                         *)
(* The backend is chosen when the queue is built.  In memory a job is one  *)
(* object that everybody shares, and enqueue and dequeue hold a lock.  In  *)
(* Redis everybody works on a copy, and enqueue and dequeue are several    *)
(* commands, each a step of its own here.                                  *)
(***************************************************************************)
EXTENDS Integers, Sequences, FiniteSets

CONSTANTS Jobs,          \* job ids
          Workers,       \* ids of worker threads
          Levels,        \* config.priority_levels
          Prio,          \* the priority each job is submitted with
          MaxConcurrent, \* config.max_concurrent
          MaxRetries,    \* config.max_retries
          Floor,         \* bound: how far below zero _active_jobs is counted
          Setups,        \* bounds: the backends, the jobs submitted with each, and
                         \* how many cancels, stops, Redis errors, expiries and
                         \* crashes happen there
          NoJob

(* Below Floor the limit never blocks a thread, so nothing is lost there.  *)
ASSUME QueueConfigAssumption ==
  /\ Levels \in Nat \ {0} /\ MaxConcurrent \in Nat \ {0}
  /\ MaxRetries \in Nat \ {0}
  /\ Setups \subseteq [backend : {"memory", "redis"}, jobs : SUBSET Jobs, trouble : Nat]
  /\ Prio \in [Jobs -> Nat] /\ NoJob \notin Jobs
  /\ IsFiniteSet(Workers) /\ Floor \in Int
  /\ Floor <= 0 /\ Floor + Cardinality(Workers) <= MaxConcurrent

States == {"pending", "queued", "processing", "completed", "failed", "cancelled"}
JobRecord == [state : States, retries : Nat]
ASSUME NoJobAssumption == NoJob \notin JobRecord
Fresh == [state |-> "pending", retries |-> 0]
Ranks == 0 .. (Levels - 1)
Lists == Ranks \cup {Prio[j] : j \in Jobs}

VARIABLES
  setup,       \* the member of Setups this system runs under
  store,       \* what get_job returns for each id, NoJob when nothing
  queue,       \* the list of each priority
  submitting,  \* where submit() of each job stands
  cancelling,  \* the record a running cancel() has read, NoJob when none runs
  active,      \* _active_jobs
  stopped,     \* _stop_event
  pc,          \* where each thread stands, "dead" when it does not run
  job,         \* the job each thread holds
  copy,        \* Redis: the thread's copy of that job
  scan,        \* Redis: the priority list the thread's dequeue reads next
  trouble,     \* how often something of these happened
  attempts,    \* how often each job was synthesised
  outcome,     \* what became of each job
  told,        \* jobs a webhook or callback has reported as completed
  cancelled    \* jobs whose cancel() returned True

queueVars == <<setup, store, queue>>
clientVars == <<submitting, cancelling, cancelled>>
threadVars == <<active, stopped, pc, job, copy, scan>>
history == <<attempts, outcome, told>>
vars == <<queueVars, clientVars, threadVars, trouble, history>>

InMemory == setup.backend = "memory"
Busy == {w \in Workers : pc[w] \notin {"dead", "top", "polling"}}
Running(j) == {w \in Workers : job[w] = j /\ pc[w] \in {"fetch", "claim", "run", "requeue"}}
Trouble == trouble < setup.trouble /\ trouble' = trouble + 1
Decremented == IF active > Floor THEN active - 1 ELSE active

Init ==
  /\ setup \in Setups
  /\ store = [j \in Jobs |-> NoJob]
  /\ queue = [p \in Lists |-> <<>>]
  /\ submitting = [j \in Jobs |-> "new"]
  /\ cancelling = [j \in Jobs |-> NoJob]
  /\ active = 0 /\ stopped = FALSE
  /\ pc = [w \in Workers |-> "dead"] /\ job = [w \in Workers |-> NoJob]
  /\ copy = [w \in Workers |-> NoJob] /\ scan = [w \in Workers |-> 0]
  /\ trouble = 0
  /\ attempts = [j \in Jobs |-> 0] /\ outcome = [j \in Jobs |-> "open"]
  /\ told = {} /\ cancelled = {}

-----------------------------------------------------------------------------
(* submit *)

(* submit in memory: one step under the lock; a priority beyond            *)
(* priority_levels raises after the job was recorded.                      *)
SubmitInMemory(j) ==
  /\ InMemory /\ submitting[j] = "new"
  /\ IF Prio[j] \in Ranks
       THEN /\ store' = [store EXCEPT ![j] = [Fresh EXCEPT !.state = "queued"]]
            /\ queue' = [queue EXCEPT ![Prio[j]] = Append(@, j)]
            /\ submitting' = [submitting EXCEPT ![j] = "known"]
       ELSE /\ store' = [store EXCEPT ![j] = Fresh]
            /\ submitting' = [submitting EXCEPT ![j] = "raised"]
            /\ UNCHANGED queue
  /\ UNCHANGED <<setup, cancelling, cancelled, threadVars, trouble, history>>

(* submit in Redis: SET the job and RPUSH its id, one step because nobody  *)
(* knows the id before; then SET the job as queued and return the id.      *)
SubmitPushes(j) ==
  /\ ~InMemory /\ submitting[j] = "new"
  /\ store' = [store EXCEPT ![j] = Fresh]
  /\ queue' = [queue EXCEPT ![Prio[j]] = Append(@, j)]
  /\ submitting' = [submitting EXCEPT ![j] = "confirm"]
  /\ UNCHANGED <<setup, cancelling, cancelled, threadVars, trouble, history>>

SubmitConfirms(j) ==
  /\ submitting[j] = "confirm"
  /\ store' = [store EXCEPT ![j] = [Fresh EXCEPT !.state = "queued"]]
  /\ submitting' = [submitting EXCEPT ![j] = "known"]
  /\ UNCHANGED <<setup, queue, cancelling, cancelled, threadVars, trouble, history>>

(* A Redis error in the last SET: submit raises, the job stays queued.     *)
SubmitRaises(j) ==
  /\ Trouble
  /\ submitting[j] = "confirm"
  /\ submitting' = [submitting EXCEPT ![j] = "raised"]
  /\ UNCHANGED <<queueVars, cancelling, cancelled, threadVars, history>>

Submit(j) == SubmitInMemory(j) \/ SubmitPushes(j) \/ SubmitConfirms(j) \/ SubmitRaises(j)

-----------------------------------------------------------------------------
(* cancel: reads the job, and later, if it was waiting, writes it back.    *)

CancelReads(j) ==
  /\ Trouble
  /\ submitting[j] = "known" /\ cancelling[j] = NoJob /\ j \notin cancelled
  /\ store[j] # NoJob /\ store[j].state \in {"pending", "queued"}
  /\ cancelling' = [cancelling EXCEPT ![j] = store[j]]
  /\ UNCHANGED <<queueVars, submitting, cancelled, threadVars, history>>

(* In memory the write goes to the shared object, in Redis it puts back    *)
(* the copy that was read.                                                 *)
CancelWrites(j) ==
  /\ cancelling[j] # NoJob
  /\ store' = [store EXCEPT ![j] =
                 [(IF InMemory THEN store[j] ELSE cancelling[j]) EXCEPT !.state = "cancelled"]]
  /\ cancelling' = [cancelling EXCEPT ![j] = NoJob]
  /\ cancelled' = cancelled \cup {j}
  /\ UNCHANGED <<setup, queue, submitting, threadVars, trouble, history>>

Cancel(j) == CancelReads(j) \/ CancelWrites(j)

-----------------------------------------------------------------------------
(* The worker threads *)

Mine(w) == IF InMemory THEN store[job[w]] ELSE copy[w]

(* An assignment to a field of the thread's job.                           *)
Assign(w, r) == IF InMemory
                  THEN store' = [store EXCEPT ![job[w]] = r] /\ UNCHANGED copy
                  ELSE copy' = [copy EXCEPT ![w] = r] /\ UNCHANGED store

(* A SET of the thread's copy; in memory the object is already there.      *)
Saved(w) == IF InMemory THEN store ELSE [store EXCEPT ![job[w]] = copy[w]]

Goto(w, l) == pc' = [pc EXCEPT ![w] = l]

(* The thread's hold of its job ends.                                      *)
LetGo(w) ==
  /\ job' = [job EXCEPT ![w] = NoJob] /\ copy' = [copy EXCEPT ![w] = NoJob]
  /\ scan' = [scan EXCEPT ![w] = 0]

(* Jobs that were popped and are in no list any more.                      *)
Lost(js) == outcome' = [j \in Jobs |-> IF j \in js /\ outcome[j] = "open" THEN "lost" ELSE outcome[j]]

(* The queue's own lock is held over a step, but for one case: a thread    *)
(* that finds the limit reached sleeps with it.                            *)
LockFree == \A w \in Workers : pc[w] # "polling"

(* The top of the loop: the stop event ends the thread, the limit makes it *)
(* poll again, and otherwise it counts itself active.                      *)
Leave(w) ==
  /\ pc[w] = "top" /\ stopped
  /\ Goto(w, "dead")
  /\ UNCHANGED <<queueVars, clientVars, active, stopped, job, copy, scan, trouble, history>>

\* Bug: no test of the limit.
Enter_NoLimit(w) ==
  /\ LockFree /\ pc[w] = "top" /\ ~stopped
  /\ active' = active + 1
  /\ Goto(w, "dequeue")
  /\ scan' = [scan EXCEPT ![w] = 0]
  /\ UNCHANGED <<queueVars, clientVars, stopped, job, copy, trouble, history>>

Enter(w) ==
  /\ LockFree /\ pc[w] = "top" /\ ~stopped /\ active < MaxConcurrent
  /\ active' = active + 1
  /\ Goto(w, "dequeue")
  /\ scan' = [scan EXCEPT ![w] = 0]
  /\ UNCHANGED <<queueVars, clientVars, stopped, job, copy, trouble, history>>

Poll(w) ==
  /\ LockFree /\ pc[w] = "top" /\ ~stopped /\ active >= MaxConcurrent
  /\ Goto(w, "polling")
  /\ UNCHANGED <<queueVars, clientVars, active, stopped, job, copy, scan, trouble, history>>

WakeUp(w) ==
  /\ pc[w] = "polling"
  /\ Goto(w, "top")
  /\ UNCHANGED <<queueVars, clientVars, active, stopped, job, copy, scan, trouble, history>>

\* Bug: the lists are read from the last to the first.
Dequeue_LowestFirst(w) ==
  /\ InMemory /\ pc[w] = "dequeue"
  /\ \E p \in Ranks :
       /\ queue[p] # <<>> /\ \A q \in (p + 1) .. (Levels - 1) : queue[q] = <<>>
       /\ queue' = [queue EXCEPT ![p] = Tail(@)]
       /\ job' = [job EXCEPT ![w] = Head(queue[p])]
       /\ store' = [store EXCEPT ![Head(queue[p])].state = "processing"]
  /\ Goto(w, "run")
  /\ UNCHANGED <<setup, clientVars, active, stopped, copy, scan, trouble, history>>

(* dequeue in memory: the first job of the first list that is not empty.   *)
Dequeue(w) ==
  /\ InMemory /\ pc[w] = "dequeue"
  /\ \E p \in Ranks :
       /\ queue[p] # <<>> /\ \A q \in 0 .. (p - 1) : queue[q] = <<>>
       /\ queue' = [queue EXCEPT ![p] = Tail(@)]
       /\ job' = [job EXCEPT ![w] = Head(queue[p])]
       /\ store' = [store EXCEPT ![Head(queue[p])].state = "processing"]
  /\ Goto(w, "run")
  /\ UNCHANGED <<setup, clientVars, active, stopped, copy, scan, trouble, history>>

(* dequeue in Redis: LPOP of one list after the other ...                  *)
Pop(w) ==
  /\ ~InMemory /\ pc[w] = "dequeue" /\ scan[w] \in Ranks
  /\ IF queue[scan[w]] = <<>>
       THEN scan' = [scan EXCEPT ![w] = @ + 1] /\ UNCHANGED <<queue, job, pc>>
       ELSE /\ queue' = [queue EXCEPT ![scan[w]] = Tail(@)]
            /\ job' = [job EXCEPT ![w] = Head(queue[scan[w]])]
            /\ Goto(w, "fetch") /\ UNCHANGED scan
  /\ UNCHANGED <<setup, store, clientVars, active, stopped, copy, trouble, history>>

\* Bug: a job that submit has not yet marked as queued is skipped.
Fetch_QueuedOnly(w) ==
  /\ pc[w] = "fetch"
  /\ IF store[job[w]] = NoJob \/ store[job[w]].state # "queued"
       THEN /\ scan' = [scan EXCEPT ![w] = @ + 1]
            /\ job' = [job EXCEPT ![w] = NoJob]
            /\ UNCHANGED outcome
            /\ Goto(w, "dequeue") /\ UNCHANGED copy
       ELSE /\ copy' = [copy EXCEPT ![w] = [store[job[w]] EXCEPT !.state = "processing"]]
            /\ Goto(w, "claim") /\ UNCHANGED <<job, scan, outcome>>
  /\ UNCHANGED <<queueVars, clientVars, active, stopped, trouble, attempts, told>>

(* ... GET of the job, whose record may have expired: then the scan goes   *)
(* on with the next list ...                                               *)
Fetch(w) ==
  /\ pc[w] = "fetch"
  /\ IF store[job[w]] = NoJob
       THEN /\ scan' = [scan EXCEPT ![w] = @ + 1]
            /\ job' = [job EXCEPT ![w] = NoJob]
            /\ Lost({job[w]})
            /\ Goto(w, "dequeue") /\ UNCHANGED copy
       ELSE /\ copy' = [copy EXCEPT ![w] = [store[job[w]] EXCEPT !.state = "processing"]]
            /\ Goto(w, "claim") /\ UNCHANGED <<job, scan, outcome>>
  /\ UNCHANGED <<queueVars, clientVars, active, stopped, trouble, attempts, told>>

(* ... and SET of the job as processing.                                   *)
Claim(w) ==
  /\ pc[w] = "claim"
  /\ store' = Saved(w)
  /\ Goto(w, "run")
  /\ UNCHANGED <<setup, queue, clientVars, active, stopped, job, copy, scan, trouble, history>>

(* No list had a job; in Redis that is when the scan is through.           *)
Miss(w) ==
  /\ InMemory /\ pc[w] = "dequeue"
  /\ \A p \in Ranks : queue[p] = <<>>
  /\ Goto(w, "empty")
  /\ UNCHANGED <<queueVars, clientVars, active, stopped, job, copy, scan, trouble, history>>

EmptyHanded(w) == pc[w] = "empty" \/ (pc[w] = "dequeue" /\ scan[w] = Levels)

(* The thread counts itself out when it has the lock, sleeps, and the      *)
(* finally clause counts it out again.                                     *)
CountOut(w) ==
  /\ LockFree /\ EmptyHanded(w)
  /\ active' = Decremented
  /\ LetGo(w) /\ Goto(w, "finally")
  /\ UNCHANGED <<queueVars, clientVars, stopped, trouble, history>>

(* The finally clause.                                                     *)
Finally(w) ==
  /\ LockFree /\ pc[w] = "finally"
  /\ active' = Decremented
  /\ Goto(w, "top")
  /\ UNCHANGED <<queueVars, clientVars, stopped, job, copy, scan, trouble, history>>

(* The engine speaks the text ...                                          *)
Succeed(w) ==
  /\ pc[w] = "run"
  /\ Assign(w, [Mine(w) EXCEPT !.state = "completed"])
  /\ attempts' = [attempts EXCEPT ![job[w]] = @ + 1]
  /\ outcome' = [outcome EXCEPT ![job[w]] = "succeeded"]
  /\ Goto(w, "update")
  /\ UNCHANGED <<setup, queue, clientVars, active, stopped, job, scan, trouble, told>>

\* Bug: <= for <.
FailAndRetry_OneMore(w) ==
  /\ pc[w] = "run" /\ Mine(w).retries + 1 <= MaxRetries
  /\ Assign(w, [state |-> "queued", retries |-> Mine(w).retries + 1])
  /\ attempts' = [attempts EXCEPT ![job[w]] = @ + 1]
  /\ Goto(w, "requeue")
  /\ UNCHANGED <<setup, queue, clientVars, active, stopped, job, scan, trouble, outcome, told>>

(* ... or raises, and a retry is left ...                                  *)
FailAndRetry(w) ==
  /\ pc[w] = "run" /\ Mine(w).retries + 1 < MaxRetries
  /\ Assign(w, [state |-> "queued", retries |-> Mine(w).retries + 1])
  /\ attempts' = [attempts EXCEPT ![job[w]] = @ + 1]
  /\ Goto(w, "requeue")
  /\ UNCHANGED <<setup, queue, clientVars, active, stopped, job, scan, trouble, outcome, told>>

\* Bug: the state is not set.
FailForGood_KeepsState(w) ==
  /\ pc[w] = "run" /\ Mine(w).retries + 1 >= MaxRetries
  /\ Assign(w, [state |-> Mine(w).state, retries |-> Mine(w).retries + 1])
  /\ attempts' = [attempts EXCEPT ![job[w]] = @ + 1]
  /\ outcome' = [outcome EXCEPT ![job[w]] = "exhausted"]
  /\ Goto(w, "update")
  /\ UNCHANGED <<setup, queue, clientVars, active, stopped, job, scan, trouble, told>>

(* ... or none is.                                                         *)
FailForGood(w) ==
  /\ pc[w] = "run" /\ Mine(w).retries + 1 >= MaxRetries
  /\ Assign(w, [state |-> "failed", retries |-> Mine(w).retries + 1])
  /\ attempts' = [attempts EXCEPT ![job[w]] = @ + 1]
  /\ outcome' = [outcome EXCEPT ![job[w]] = "exhausted"]
  /\ Goto(w, "update")
  /\ UNCHANGED <<setup, queue, clientVars, active, stopped, job, scan, trouble, told>>

\* Bug: a retry is queued one priority lower.
Requeue_Demotes(w) ==
  /\ pc[w] = "requeue"
  /\ store' = IF InMemory THEN [store EXCEPT ![job[w]].state = "queued"] ELSE Saved(w)
  /\ queue' = [queue EXCEPT ![Prio[job[w]] + 1] = Append(@, job[w])]
  /\ Goto(w, IF InMemory THEN "update" ELSE "confirm")
  /\ UNCHANGED <<setup, clientVars, active, stopped, job, copy, scan, trouble, history>>

(* enqueue for the retry: one step in memory; in Redis SET and RPUSH, one  *)
(* step because a list's end moves past whatever others do in between, and *)
(* a second SET.                                                           *)
Requeue(w) ==
  /\ pc[w] = "requeue"
  /\ store' = IF InMemory THEN [store EXCEPT ![job[w]].state = "queued"] ELSE Saved(w)
  /\ queue' = [queue EXCEPT ![Prio[job[w]]] = Append(@, job[w])]
  /\ Goto(w, IF InMemory THEN "update" ELSE "confirm")
  /\ UNCHANGED <<setup, clientVars, active, stopped, job, copy, scan, trouble, history>>

Confirm(w) ==
  /\ pc[w] = "confirm"
  /\ store' = Saved(w)
  /\ Goto(w, "update")
  /\ UNCHANGED <<setup, queue, clientVars, active, stopped, job, copy, scan, trouble, history>>

\* Bug: neither webhook nor callback.
Update_Silent(w) ==
  /\ pc[w] = "update"
  /\ store' = Saved(w)
  /\ LetGo(w) /\ Goto(w, "finally")
  /\ UNCHANGED <<setup, queue, clientVars, active, stopped, trouble, history>>

(* update_job, also after a retry was queued.                              *)
Update(w) ==
  /\ pc[w] = "update"
  /\ store' = Saved(w)
  /\ Goto(w, "notify")
  /\ UNCHANGED <<setup, queue, clientVars, active, stopped, job, copy, scan, trouble, history>>

(* The webhook and the callbacks, whose errors are swallowed, report the   *)
(* state the thread sees.                                                  *)
Notify(w) ==
  /\ pc[w] = "notify"
  /\ told' = IF Mine(w).state = "completed" THEN told \cup {job[w]} ELSE told
  /\ LetGo(w) /\ Goto(w, "finally")
  /\ UNCHANGED <<queueVars, clientVars, active, stopped, trouble, attempts, outcome>>

Step(w) == \/ Leave(w) \/ Enter(w) \/ Poll(w) \/ WakeUp(w) \/ Dequeue(w) \/ Pop(w) \/ Fetch(w)
           \/ Claim(w) \/ Miss(w) \/ CountOut(w) \/ Succeed(w) \/ FailAndRetry(w) \/ FailForGood(w) \/ Requeue(w)
           \/ Confirm(w) \/ Update(w) \/ Notify(w) \/ Finally(w)

-----------------------------------------------------------------------------
(* start_workers and stop_workers; stop_workers waits 5 seconds for each   *)
(* thread, forgets them all, and one that is still busy runs on.           *)

StartWorkers ==
  /\ \E w \in Workers : pc[w] = "dead"
  /\ pc' = [w \in Workers |-> IF pc[w] = "dead" THEN "top" ELSE pc[w]]
  /\ stopped' = FALSE
  /\ UNCHANGED <<queueVars, clientVars, active, job, copy, scan, trouble, history>>

StopWorkers ==
  /\ ~stopped /\ Trouble
  /\ stopped' = TRUE
  /\ UNCHANGED <<queueVars, clientVars, active, pc, job, copy, scan, history>>

-----------------------------------------------------------------------------
(* What goes wrong around the queue *)

\* Bug: the count is not taken back when a command raises.
RedisError_NoFinally(w) ==
  /\ ~InMemory /\ Trouble
  /\ pc[w] \in {"dequeue", "fetch", "claim", "requeue", "confirm", "update"}
  /\ Lost({j \in Jobs : w \in Running(j)})
  /\ LetGo(w) /\ Goto(w, "dead")
  /\ UNCHANGED <<queueVars, clientVars, active, stopped, attempts, told>>

(* A Redis command raises: the finally clause counts the thread out and    *)
(* the exception ends it.                                                  *)
RedisError(w) ==
  /\ ~InMemory /\ Trouble
  /\ pc[w] \in {"dequeue", "fetch", "claim", "requeue", "confirm", "update"}
  /\ Lost({j \in Jobs : w \in Running(j)})
  /\ LockFree /\ active' = Decremented
  /\ LetGo(w) /\ Goto(w, "dead")
  /\ UNCHANGED <<queueVars, clientVars, stopped, attempts, told>>

(* The worker process dies; Redis keeps what it holds, and a new process   *)
(* starts with its own counter.                                            *)
Crash ==
  /\ ~InMemory /\ Trouble
  /\ Lost({j \in Jobs : Running(j) # {}})
  /\ active' = 0 /\ stopped' = FALSE
  /\ pc' = [w \in Workers |-> "dead"] /\ job' = [w \in Workers |-> NoJob]
  /\ copy' = [w \in Workers |-> NoJob] /\ scan' = [w \in Workers |-> 0]
  /\ UNCHANGED <<queueVars, clientVars, attempts, told>>

(* A job waited in its list for longer than job_ttl_seconds.               *)
Expire(j) ==
  /\ ~InMemory /\ Trouble
  /\ submitting[j] = "known" /\ store[j] # NoJob
  /\ \E p \in Lists : \E i \in 1 .. Len(queue[p]) : queue[p][i] = j
  /\ store' = [store EXCEPT ![j] = NoJob]
  /\ UNCHANGED <<setup, queue, clientVars, threadVars, history>>

Next == \/ \E j \in setup.jobs : Submit(j) \/ Cancel(j) \/ Expire(j)
        \/ \E w \in Workers : Step(w) \/ RedisError(w)
        \/ StartWorkers \/ StopWorkers \/ Crash

Spec == Init /\ [][Next]_vars

(* Threads go on where they are not kept from the lock, and the engine     *)
(* returns.                                                                *)
FairSpec == Spec /\ \A w \in Workers : WF_vars(Step(w))

-----------------------------------------------------------------------------
(* Properties *)

(* Types, and the bounds of the counters.                                  *)
TypeOK ==
  /\ setup \in Setups
  /\ store \in [Jobs -> JobRecord \cup {NoJob}]
  /\ queue \in [Lists -> Seq(Jobs)]
  /\ submitting \in [Jobs -> {"new", "confirm", "known", "raised"}]
  /\ cancelling \in [Jobs -> JobRecord \cup {NoJob}]
  /\ active \in Floor .. MaxConcurrent /\ stopped \in BOOLEAN
  /\ pc \in [Workers -> {"dead", "top", "dequeue", "fetch", "claim", "run", "requeue",
                         "confirm", "update", "notify", "finally", "empty", "polling"}]
  /\ job \in [Workers -> Jobs \cup {NoJob}]
  /\ copy \in [Workers -> JobRecord \cup {NoJob}]
  /\ scan \in [Workers -> 0 .. Levels]
  /\ trouble \in 0 .. setup.trouble
  /\ attempts \in [Jobs -> Nat]
  /\ outcome \in [Jobs -> {"open", "succeeded", "exhausted", "lost"}]
  /\ told \subseteq Jobs /\ cancelled \subseteq Jobs

Waiting(j) == UNION {{<<p, i>> : i \in {k \in DOMAIN queue[p] : queue[p][k] = j}} : p \in Lists}
Places(j) == Cardinality(Waiting(j)) + Cardinality(Running(j)) + (IF outcome[j] = "open" THEN 0 ELSE 1)

(* A job whose submit returned its id is in one place: queued, run by one  *)
(* thread or settled.  None is dropped without a Redis error, a crash or   *)
(* an expiry, and none, even while submit still writes its record, is      *)
(* queued twice, run by two threads, or run again after it was settled.    *)
OnePlace ==
  \A j \in Jobs : Places(j) <= 1 /\ (submitting[j] = "known" => Places(j) = 1)

(* The counter the limit is tested with may be too low, but never claims   *)
(* a thread that is not at work, so the limit never blocks an idle queue.  *)
ActiveNeverOverstates == active <= Cardinality(Busy)

(* A job is given up only after max_retries attempts, even where stale     *)
(* copies of its record overwrite each other; in memory, where the record  *)
(* is shared, there are never more.                                        *)
RetriesBounded ==
  \A j \in Jobs :
    /\ outcome[j] = "exhausted" => attempts[j] >= MaxRetries
    /\ InMemory => attempts[j] <= MaxRetries

(* In memory, without a cancel, the record of a settled job is final: the  *)
(* update_job of an earlier attempt that comes late changes nothing.       *)
ResultKept ==
  InMemory => \A j \in Jobs \ cancelled :
    /\ outcome[j] = "succeeded" => store[j].state = "completed"
    /\ outcome[j] = "exhausted" => store[j].state = "failed"

(* Jobs, attempts, results and the limit add up, whatever threads, retries,*)
(* cancels, Redis errors and crashes come between (queue.py).              *)
JobsAccounted == OnePlace /\ RetriesBounded /\ ResultKept /\ ActiveNeverOverstates

(* A thread never takes a job in memory while one of higher priority       *)
(* waits.                                                                  *)
HighestFirst ==
  [][\A w \in Workers : InMemory /\ job[w] = NoJob /\ job'[w] # NoJob =>
       \A p \in Ranks : queue[p] # <<>> => Prio[job'[w]] <= p]_vars

(* A thread that has to count itself out gets the queue's lock in the end. *)
LockIsFair == \A w \in Workers : []<>~(EmptyHanded(w) \/ pc[w] = "finally")

(* The jobs that are not settled, of those some thread has to take.  A job *)
(* joins the set once, when submit returns, and leaves it once, and so it  *)
(* is with those nobody was told of: that the set is empty in the end says *)
(* that each of its jobs has left it.                                      *)
Unsettled == {j \in Jobs : submitting[j] = "known" /\ Prio[j] \in Ranks /\ outcome[j] = "open"}
Untold == {j \in Jobs \ (told \cup cancelled) : outcome[j] = "succeeded"}

(* Every job of a valid priority whose id was returned settles, when some  *)
(* thread is always left: neither the limit nor other jobs block it.  It   *)
(* rests on a fair lock, which Python's is not: the thread that polls at   *)
(* the limit sleeps with the lock and asks for it again at once            *)
(* (queue.py:484-487), and may keep it from the one that would count       *)
(* itself out (503-505).                                                   *)
EveryJobSettles ==
  LockIsFair /\ (<>[](~stopped /\ \E w \in Workers : pc[w] # "dead")) =>
    (Unsettled # {} ~> Unsettled = {})

(* A synthesis that succeeded is reported as completed by its thread,      *)
(* unless a cancel rewrote the record or the process died.                 *)
EverySuccessTold == Untold # {} ~> Untold = {} \/ trouble > 0

(* What cancel's documentation says (queue.py:425-434: "Cancel a queued    *)
(* job ... True if cancelled, False if not found or already processing"):  *)
(* a job whose cancel returned True is not started afterwards.             *)
CancelHonoured ==
  [][\A w \in Workers : job[w] = NoJob /\ job'[w] # NoJob => job'[w] \notin cancelled]_vars
=============================================================================
