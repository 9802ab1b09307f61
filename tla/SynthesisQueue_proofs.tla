----------------------- MODULE SynthesisQueue_proofs -----------------------
(***************************************************************************)
(* What the job queue promises, for every number of jobs, threads, levels, *)
(* retries and every limit, with both backends: a job is in one place,     *)
(* attempts and results add up, the limit is not blocked by threads that   *)
(* left, and in memory a job of higher priority goes first.                *)
(*                                                                         *)
(* The inductive invariant has four parts, each kept by lemmas of its own: *)
(* what the threads hold, where the jobs are, what their records say, and  *)
(* the counter.                                                            *)
(***************************************************************************)
EXTENDS SynthesisQueue, SequenceTheorems, FiniteSetTheorems, TLAPS

\* Where a thread holds a job, and where it has a record of it.
Holding == {"fetch", "claim", "run", "requeue", "confirm", "update", "notify"}
Recorded == Holding \ {"fetch"}

\* What threads hold: a job that was submitted, and its record.
Held ==
  /\ \A w \in Workers :
       /\ pc[w] \in Holding <=> job[w] \in Jobs
       /\ pc[w] \in Holding => submitting[job[w]] # "new"
       /\ pc[w] \in Recorded /\ ~InMemory => copy[w] \in JobRecord
       /\ pc[w] \in {"fetch", "claim", "confirm"} => ~InMemory
       /\ pc[w] = "fetch" => scan[w] \in Ranks
  /\ \A j \in Jobs :
       /\ submitting[j] = "confirm" => ~InMemory
       /\ submitting[j] # "new" /\ InMemory => store[j] \in JobRecord
       /\ cancelling[j] # NoJob => submitting[j] # "new"

\* Each list holds the jobs of its priority, and each of them once.
Sorted == \A p \in Lists : \A i \in DOMAIN queue[p] : Prio[queue[p][i]] = p
Unique == \A p \in Lists : \A i, k \in DOMAIN queue[p] : queue[p][i] = queue[p][k] => i = k

\* The one place of a job: a list, a thread, or what became of it.
InList(j) == \E i \in DOMAIN queue[Prio[j]] : queue[Prio[j]][i] = j
PlaceOf(j) ==
  /\ InList(j) => Running(j) = {} /\ outcome[j] = "open"
  /\ Running(j) # {} => outcome[j] = "open"
  /\ \A v, w \in Running(j) : v = w
  /\ submitting[j] = "new" => ~InList(j) /\ Running(j) = {} /\ outcome[j] = "open"
  /\ submitting[j] \in {"confirm", "known"} =>
       InList(j) \/ Running(j) # {} \/ outcome[j] # "open"

Placed == Sorted /\ Unique /\ \A j \in Jobs : PlaceOf(j)

\* A record counts no more attempts than were made, whoever holds it and however old it
\* is; in memory the one record counts all of them until the job is settled.
Counted ==
  /\ \A j \in Jobs :
       /\ store[j] # NoJob => store[j].retries <= attempts[j]
       /\ cancelling[j] # NoJob => cancelling[j].retries <= attempts[j]
       /\ submitting[j] = "new" => attempts[j] = 0
       /\ InMemory /\ outcome[j] = "open" /\ submitting[j] # "new" =>
            store[j].retries = attempts[j] /\ attempts[j] < MaxRetries
  /\ \A w \in Workers :
       pc[w] \in Recorded /\ ~InMemory => copy[w].retries <= attempts[job[w]]

QueueInv ==
  TypeOK /\ Held /\ Placed /\ Counted /\ RetriesBounded /\ ResultKept /\ ActiveNeverOverstates

-----------------------------------------------------------------------------
\* A queue and what happens to it at its ends.
LEMMA QueueEnds ==
  ASSUME NEW S, NEW s \in Seq(S)
  PROVE  /\ DOMAIN s = 1..Len(s) /\ Len(s) \in Nat
         /\ \A i \in DOMAIN s : s[i] \in S
         /\ \A x \in S :
              /\ Append(s, x) \in Seq(S)
              /\ DOMAIN Append(s, x) = DOMAIN s \cup {Len(s) + 1}
              /\ \A i \in DOMAIN s : Append(s, x)[i] = s[i]
              /\ Append(s, x)[Len(s) + 1] = x
         /\ s # <<>> =>
              /\ Head(s) = s[1] /\ s[1] \in S /\ 1 \in DOMAIN s /\ Tail(s) \in Seq(S)
              /\ DOMAIN Tail(s) = 1..(Len(s) - 1)
              /\ \A i \in DOMAIN Tail(s) : Tail(s)[i] = s[i + 1]
<1>0. DOMAIN s = 1..Len(s) /\ Len(s) \in Nat /\ \A i \in DOMAIN s : s[i] \in S
  BY LenProperties, ElementOfSeq
<1>1. ASSUME NEW x \in S
      PROVE  /\ Append(s, x) \in Seq(S)
             /\ DOMAIN Append(s, x) = DOMAIN s \cup {Len(s) + 1}
             /\ \A i \in DOMAIN s : Append(s, x)[i] = s[i]
             /\ Append(s, x)[Len(s) + 1] = x
  <2>1. /\ Append(s, x) \in Seq(S) /\ Len(Append(s, x)) = Len(s) + 1
        /\ \A i \in 1..Len(s) : Append(s, x)[i] = s[i]
        /\ Append(s, x)[Len(s) + 1] = x
    BY AppendProperties
  <2>2. DOMAIN Append(s, x) = 1..Len(s) + 1
    BY <2>1, LenProperties
  <2> QED BY <1>0, <2>1, <2>2
<1>2. ASSUME s # <<>>
      PROVE  /\ Head(s) = s[1] /\ s[1] \in S /\ 1 \in DOMAIN s /\ Tail(s) \in Seq(S)
             /\ DOMAIN Tail(s) = 1..(Len(s) - 1)
             /\ \A i \in DOMAIN Tail(s) : Tail(s)[i] = s[i + 1]
  <2>1. /\ Len(s) \in Nat \ {0} /\ Head(s) = s[1]
        /\ Tail(s) \in Seq(S) /\ Len(Tail(s)) = Len(s) - 1
        /\ \A i \in 1..Len(Tail(s)) : Tail(s)[i] = s[i + 1]
    BY <1>2, EmptySeq, HeadTailProperties
  <2>2. DOMAIN Tail(s) = 1..Len(Tail(s))
    BY <2>1, LenProperties
  <2> QED BY <1>0, <2>1, <2>2
<1> QED BY <1>0, <1>1, <1>2

-----------------------------------------------------------------------------
(***************************************************************************)
(* Where the jobs are.                                                     *)
(***************************************************************************)
\* A job is pushed on the list of its priority.
LEMMA Pushed ==
  ASSUME TypeOK, Sorted, Unique, NEW j \in Jobs, ~InList(j),
         queue' = [queue EXCEPT ![Prio[j]] = Append(@, j)]
  PROVE  /\ queue' \in [Lists -> Seq(Jobs)] /\ Sorted' /\ Unique' /\ InList(j)'
         /\ \A k \in Jobs : k # j => (InList(k)' <=> InList(k))
<1>0. queue \in [Lists -> Seq(Jobs)] /\ Prio[j] \in Lists
  BY DEF TypeOK, Lists
<1> DEFINE s == queue[Prio[j]]
<1>1. /\ DOMAIN s = 1..Len(s) /\ Len(s) \in Nat
      /\ Append(s, j) \in Seq(Jobs)
      /\ DOMAIN Append(s, j) = DOMAIN s \cup {Len(s) + 1}
      /\ \A i \in DOMAIN s : Append(s, j)[i] = s[i]
      /\ Append(s, j)[Len(s) + 1] = j
  BY <1>0, QueueEnds
<1>2. /\ queue' \in [Lists -> Seq(Jobs)] /\ queue'[Prio[j]] = Append(s, j)
      /\ \A p \in Lists : p # Prio[j] => queue'[p] = queue[p]
  BY <1>0, <1>1
<1>3. \A i \in DOMAIN s : s[i] # j
  BY DEF InList
<1>4. Sorted'
  <2> SUFFICES ASSUME NEW p \in Lists, NEW i \in DOMAIN queue'[p]
               PROVE  Prio[queue'[p][i]] = p
    BY DEF Sorted
  <2> QED BY <1>0, <1>1, <1>2 DEF Sorted
<1>5. Unique'
  <2> SUFFICES ASSUME NEW p \in Lists, NEW i \in DOMAIN queue'[p], NEW k \in DOMAIN queue'[p],
                      queue'[p][i] = queue'[p][k]
               PROVE  i = k
    BY DEF Unique
  <2>1. CASE p # Prio[j]
    BY <1>2, <2>1 DEF Unique
  <2>2. CASE p = Prio[j]
    BY <1>0, <1>1, <1>2, <1>3, <2>2 DEF Unique
  <2> QED BY <2>1, <2>2
<1>6. InList(j)'
  BY <1>1, <1>2 DEF InList
<1>7. ASSUME NEW k \in Jobs, k # j
      PROVE  InList(k)' <=> InList(k)
  <2>1. Prio[k] \in Lists
    BY DEF Lists
  <2>2. CASE Prio[k] # Prio[j]
    BY <1>2, <2>1, <2>2 DEF InList
  <2>3. CASE Prio[k] = Prio[j]
    <3>1. queue'[Prio[j]] = Append(s, j)
      BY <1>2, <2>3
    <3>2. ASSUME NEW i \in DOMAIN s, s[i] = k
          PROVE  i \in DOMAIN Append(s, j) /\ Append(s, j)[i] = k
      BY <1>1, <3>2
    <3>3. ASSUME NEW i \in DOMAIN Append(s, j), Append(s, j)[i] = k
          PROVE  i \in DOMAIN s /\ s[i] = k
      BY <1>1, <1>7, <3>3
    <3> HIDE DEF s
    <3>4. (\E i \in DOMAIN s : s[i] = k)
            <=> \E i \in DOMAIN Append(s, j) : Append(s, j)[i] = k
      BY <3>2, <3>3
    <3> QED BY <2>3, <3>1, <3>4 DEF InList, s
  <2> QED BY <2>2, <2>3
<1> QED BY <1>2, <1>4, <1>5, <1>6, <1>7

\* The first job of a list is taken from it.
LEMMA Popped ==
  ASSUME TypeOK, Sorted, Unique, NEW p \in Lists, queue[p] # <<>>, NEW j, j = Head(queue[p]),
         queue' = [queue EXCEPT ![p] = Tail(@)]
  PROVE  /\ queue' \in [Lists -> Seq(Jobs)] /\ Sorted' /\ Unique'
         /\ j \in Jobs /\ Prio[j] = p /\ InList(j) /\ ~InList(j)'
         /\ \A k \in Jobs : k # j => (InList(k)' <=> InList(k))
<1> DEFINE s == queue[p]
<1>0. queue \in [Lists -> Seq(Jobs)] /\ s \in Seq(Jobs)
  BY DEF TypeOK
<1>1. /\ DOMAIN s = 1..Len(s) /\ Len(s) \in Nat
      /\ j = s[1] /\ j \in Jobs /\ 1 \in DOMAIN s /\ Tail(s) \in Seq(Jobs)
      /\ DOMAIN Tail(s) = 1..(Len(s) - 1)
      /\ \A i \in DOMAIN Tail(s) : Tail(s)[i] = s[i + 1]
  BY <1>0, QueueEnds
<1>2. /\ queue' \in [Lists -> Seq(Jobs)] /\ queue'[p] = Tail(s)
      /\ \A q \in Lists : q # p => queue'[q] = queue[q]
  BY <1>0, <1>1
<1>3. Prio[j] = p /\ InList(j)
  BY <1>1 DEF Sorted, InList
<1>4. ASSUME NEW i \in DOMAIN Tail(s)
      PROVE  i \in Nat /\ i + 1 \in DOMAIN s /\ Tail(s)[i] = s[i + 1] /\ s[i + 1] # j
  <2>1. i \in Nat /\ i + 1 \in DOMAIN s /\ i + 1 # 1 /\ Tail(s)[i] = s[i + 1]
    BY <1>1
  <2> QED BY <1>1, <2>1 DEF Unique
<1>5. Sorted'
  <2> SUFFICES ASSUME NEW q \in Lists, NEW i \in DOMAIN queue'[q]
               PROVE  Prio[queue'[q][i]] = q
    BY DEF Sorted
  <2>1. CASE q # p
    BY <1>2, <2>1 DEF Sorted
  <2>2. CASE q = p
    BY <1>2, <1>4, <2>2 DEF Sorted
  <2> QED BY <2>1, <2>2
<1>6. Unique'
  <2> SUFFICES ASSUME NEW q \in Lists, NEW i \in DOMAIN queue'[q], NEW k \in DOMAIN queue'[q],
                      queue'[q][i] = queue'[q][k]
               PROVE  i = k
    BY DEF Unique
  <2>1. CASE q # p
    BY <1>2, <2>1 DEF Unique
  <2>2. CASE q = p
    <3>1. i + 1 = k + 1 /\ i \in Nat /\ k \in Nat
      BY <1>2, <1>4, <2>2 DEF Unique
    <3> QED BY <3>1
  <2> QED BY <2>1, <2>2
<1>7. ~InList(j)'
  BY <1>2, <1>3, <1>4 DEF InList
<1>8. ASSUME NEW k \in Jobs, k # j
      PROVE  InList(k)' <=> InList(k)
  <2>1. Prio[k] \in Lists
    BY DEF Lists
  <2>2. CASE Prio[k] # p
    BY <1>2, <2>1, <2>2 DEF InList
  <2>3. CASE Prio[k] = p
    <3>1. ASSUME InList(k)'
          PROVE  InList(k)
      BY <1>2, <1>4, <2>3, <3>1 DEF InList
    <3>2. ASSUME InList(k)
          PROVE  InList(k)'
      <4>1. PICK i \in DOMAIN s : s[i] = k
        BY <2>3, <3>2 DEF InList
      <4>2. i # 1 /\ i \in 1..Len(s)
        BY <1>1, <1>8, <4>1
      <4>3. i - 1 \in DOMAIN Tail(s) /\ Tail(s)[i - 1] = s[(i - 1) + 1] /\ (i - 1) + 1 = i
        BY <1>1, <4>2
      <4>4. Tail(s)[i - 1] = k
        BY <4>1, <4>3
      <4> QED BY <1>2, <2>3, <4>3, <4>4 DEF InList
    <3> QED BY <3>1, <3>2
  <2> QED BY <2>2, <2>3
<1> QED BY <1>1, <1>2, <1>3, <1>5, <1>6, <1>7, <1>8

\* Jobs that keep their place, and jobs that a thread gives up for good.
Settling ==
  \A j \in Jobs :
    \/ outcome'[j] = outcome[j] /\ Running(j)' = Running(j)
    \/ Running(j) # {} /\ outcome'[j] # "open" /\ Running(j)' = {}

Submitting ==
  \A j \in Jobs : /\ submitting'[j] = "new" => submitting[j] = "new"
                  /\ submitting'[j] \in {"confirm", "known"} =>
                       submitting[j] \in {"confirm", "known"}

LEMMA Settled ==
  ASSUME Placed, queue' = queue, Settling, Submitting
  PROVE  Placed'
<1>1. Sorted' /\ Unique' /\ \A j \in Jobs : InList(j)' <=> InList(j)
  BY DEF Placed, Sorted, Unique, InList
<1>2. ASSUME NEW j \in Jobs
      PROVE  PlaceOf(j)'
  <2>1. PlaceOf(j) /\ (InList(j)' <=> InList(j))
    BY <1>1 DEF Placed
  <2>2. /\ submitting'[j] = "new" => submitting[j] = "new"
        /\ submitting'[j] \in {"confirm", "known"} => submitting[j] \in {"confirm", "known"}
    BY DEF Submitting
  <2>3. CASE outcome'[j] = outcome[j] /\ Running(j)' = Running(j)
    BY <2>1, <2>2, <2>3 DEF PlaceOf
  <2>4. CASE Running(j) # {} /\ outcome'[j] # "open" /\ Running(j)' = {}
    BY <2>1, <2>2, <2>4 DEF PlaceOf
  <2> QED BY <2>3, <2>4 DEF Settling
<1> QED BY <1>1, <1>2 DEF Placed

\* The other threads go on with the jobs they run.
Others(w) == \A v \in Workers : v # w => pc'[v] = pc[v] /\ job'[v] = job[v]
AtWork == {"fetch", "claim", "run", "requeue"}

LEMMA RunningDoes ==
  ASSUME NEW w \in Workers, Others(w), NEW j
  PROVE  /\ job'[w] = j /\ pc'[w] \in AtWork => Running(j)' = Running(j) \cup {w}
         /\ ~(job'[w] = j /\ pc'[w] \in AtWork) => Running(j)' = Running(j) \ {w}
         /\ w \in Running(j) <=> job[w] = j /\ pc[w] \in AtWork
BY DEF Running, Others, AtWork

\* A job comes to its list from submit.
LEMMA SubmittedPlace ==
  ASSUME TypeOK, Placed, NEW j \in Jobs, submitting[j] = "new",
         NEW s, submitting' = [submitting EXCEPT ![j] = s], s # "new",
         queue' = [queue EXCEPT ![Prio[j]] = Append(@, j)], UNCHANGED <<pc, job, outcome>>
  PROVE  Placed'
<1>1. PlaceOf(j) /\ ~InList(j)
  BY DEF Placed, PlaceOf
<1>2. /\ Sorted' /\ Unique' /\ InList(j)'
      /\ \A k \in Jobs : k # j => (InList(k)' <=> InList(k))
  BY <1>1, Pushed DEF Placed
<1>3. \A k \in Jobs : Running(k)' = Running(k)
  BY DEF Running
<1>4. submitting'[j] = s /\ \A k \in Jobs : k # j => submitting'[k] = submitting[k]
  BY DEF TypeOK
<1>5. ASSUME NEW k \in Jobs
      PROVE  PlaceOf(k)'
  <2>1. CASE k = j
    BY <1>1, <1>2, <1>3, <1>4, <2>1 DEF PlaceOf
  <2>2. CASE k # j
    BY <1>2, <1>3, <1>4, <2>2 DEF Placed, PlaceOf
  <2> QED BY <2>1, <2>2
<1> QED BY <1>2, <1>5 DEF Placed

\* A thread takes the first job of a list.
LEMMA TakenPlace ==
  ASSUME TypeOK, Placed, NEW w \in Workers, pc[w] = "dequeue",
         NEW p \in Lists, queue[p] # <<>>, NEW j, j = Head(queue[p]),
         queue' = [queue EXCEPT ![p] = Tail(@)], job' = [job EXCEPT ![w] = j],
         NEW l \in AtWork, pc' = [pc EXCEPT ![w] = l], UNCHANGED <<submitting, outcome>>
  PROVE  Placed'
<1>1. /\ Sorted' /\ Unique' /\ j \in Jobs /\ InList(j) /\ ~InList(j)'
      /\ \A k \in Jobs : k # j => (InList(k)' <=> InList(k))
  BY Popped DEF Placed
<1>2. PlaceOf(j) /\ Running(j) = {} /\ outcome[j] = "open" /\ submitting[j] # "new"
  BY <1>1 DEF Placed, PlaceOf
<1>3. Others(w) /\ job'[w] = j /\ pc'[w] \in AtWork
  BY DEF Others, TypeOK
<1>4. Running(j)' = {w}
  BY <1>2, <1>3, RunningDoes
<1>5. ASSUME NEW k \in Jobs, k # j
      PROVE  Running(k)' = Running(k)
  <2>1. Running(k)' = Running(k) \ {w} /\ w \notin Running(k)
    BY <1>3, <1>5, RunningDoes DEF AtWork
  <2> QED BY <2>1
<1>6. ASSUME NEW k \in Jobs
      PROVE  PlaceOf(k)'
  <2>1. CASE k = j
    BY <1>1, <1>2, <1>4, <2>1 DEF PlaceOf
  <2>2. CASE k # j
    BY <1>1, <1>5, <2>2 DEF Placed, PlaceOf
  <2> QED BY <2>1, <2>2
<1> QED BY <1>1, <1>6 DEF Placed

\* A thread puts its job back.
LEMMA ReturnedPlace ==
  ASSUME TypeOK, Placed, NEW w \in Workers, pc[w] = "requeue", NEW j \in Jobs, job[w] = j,
         queue' = [queue EXCEPT ![Prio[j]] = Append(@, j)],
         NEW l, pc' = [pc EXCEPT ![w] = l], l \notin AtWork,
         UNCHANGED <<job, submitting, outcome>>
  PROVE  Placed'
<1>1. w \in Running(j) /\ PlaceOf(j)
  BY DEF Running, Placed
<1>2. Running(j) = {w} /\ ~InList(j) /\ outcome[j] = "open" /\ submitting[j] # "new"
  BY <1>1 DEF PlaceOf
<1>3. /\ Sorted' /\ Unique' /\ InList(j)'
      /\ \A k \in Jobs : k # j => (InList(k)' <=> InList(k))
  BY <1>2, Pushed DEF Placed
<1>4. Others(w) /\ pc'[w] \notin AtWork
  BY DEF Others, TypeOK
<1>5. Running(j)' = {}
  BY <1>2, <1>4, RunningDoes
<1>6. ASSUME NEW k \in Jobs, k # j
      PROVE  Running(k)' = Running(k)
  <2>1. Running(k)' = Running(k) \ {w} /\ w \notin Running(k)
    BY <1>4, <1>6, RunningDoes
  <2> QED BY <2>1
<1>7. ASSUME NEW k \in Jobs
      PROVE  PlaceOf(k)'
  <2>1. CASE k = j
    BY <1>2, <1>3, <1>5, <2>1 DEF PlaceOf
  <2>2. CASE k # j
    BY <1>3, <1>6, <2>2 DEF Placed, PlaceOf
  <2> QED BY <2>1, <2>2
<1> QED BY <1>3, <1>7 DEF Placed

\* A thread keeps its job, or has none at work.
LEMMA KeptPlace ==
  ASSUME Placed, NEW w \in Workers, Others(w), UNCHANGED <<queue, outcome, submitting>>,
         \/ pc[w] \notin AtWork /\ pc'[w] \notin AtWork
         \/ pc[w] \in AtWork /\ pc'[w] \in AtWork /\ job'[w] = job[w]
  PROVE  Placed'
<1>1. \A j \in Jobs : Running(j)' = Running(j)
  BY RunningDoes
<1>2. Settling /\ Submitting
  BY <1>1 DEF Settling, Submitting
<1> QED BY <1>2, Settled

\* A thread gives its job up for good.
LEMMA GivenUpPlace ==
  ASSUME Placed, NEW w \in Workers, Others(w), UNCHANGED <<queue, submitting>>,
         pc[w] \in AtWork, pc'[w] \notin AtWork, NEW j \in Jobs, job[w] = j,
         outcome'[j] # "open", \A k \in Jobs : k # j => outcome'[k] = outcome[k]
  PROVE  Placed'
<1>1. Running(j) = {w}
  BY RunningDoes DEF Placed, PlaceOf
<1>2. Running(j)' = {}
  BY <1>1, RunningDoes
<1>3. \A k \in Jobs : k # j => Running(k)' = Running(k)
  BY RunningDoes
<1>4. Settling /\ Submitting
  BY <1>1, <1>2, <1>3 DEF Settling, Submitting
<1> QED BY <1>4, Settled

-----------------------------------------------------------------------------
(***************************************************************************)
(* What the threads hold.                                                  *)
(***************************************************************************)
\* No step changes the backend.
LEMMA BackendKept ==
  ASSUME [Next]_vars
  PROVE  setup' = setup /\ (InMemory' <=> InMemory)
<1>1. setup' = setup
  <2>1. ASSUME NEW j \in setup.jobs, Submit(j) \/ Cancel(j) \/ Expire(j)
        PROVE  setup' = setup
    BY <2>1 DEF Submit, SubmitInMemory, SubmitPushes, SubmitConfirms, SubmitRaises, Cancel,
                CancelReads, CancelWrites, Expire, queueVars
  <2>2. ASSUME NEW w \in Workers, Step(w) \/ RedisError(w)
        PROVE  setup' = setup
    BY <2>2 DEF Step, Leave, Enter, Dequeue, Pop, Fetch, Claim, Poll, WakeUp, Miss, CountOut, Succeed, FailAndRetry,
                FailForGood, Requeue, Confirm, Update, Notify, Finally, RedisError, queueVars
  <2>3. ASSUME StartWorkers \/ StopWorkers \/ Crash
        PROVE  setup' = setup
    BY <2>3 DEF StartWorkers, StopWorkers, Crash, queueVars
  <2>4. ASSUME UNCHANGED vars
        PROVE  setup' = setup
    BY <2>4 DEF vars, queueVars
  <2> QED BY <2>1, <2>2, <2>3, <2>4 DEF Next
<1> QED BY <1>1 DEF InMemory

\* A record and what may be written to it.
LEMMA Records ==
  ASSUME NEW r \in JobRecord, NEW s \in States
  PROVE  /\ r.state \in States /\ r.retries \in Nat
         /\ [r EXCEPT !.state = s] \in JobRecord
         /\ [r EXCEPT !.state = s].state = s /\ [r EXCEPT !.state = s].retries = r.retries
BY DEF JobRecord

LEMMA FreshRecord ==
  /\ Fresh \in JobRecord /\ Fresh.retries = 0
  /\ [Fresh EXCEPT !.state = "queued"] \in JobRecord
  /\ [Fresh EXCEPT !.state = "queued"].retries = 0
BY DEF JobRecord, Fresh, States

\* What a thread sees of its job, and what it saves.
LEMMA MineTyped ==
  ASSUME TypeOK, Held, NEW w \in Workers, pc[w] \in Recorded
  PROVE  /\ job[w] \in Jobs /\ submitting[job[w]] # "new"
         /\ Mine(w) \in JobRecord
         /\ Saved(w) \in [Jobs -> JobRecord \cup {NoJob}]
         /\ Saved(w)[job[w]] \in JobRecord
         /\ \A j \in Jobs : j # job[w] => Saved(w)[j] = store[j]
<1>1. job[w] \in Jobs /\ submitting[job[w]] # "new"
  BY DEF Held, Recorded, Holding
<1>2. /\ InMemory => store[job[w]] \in JobRecord
      /\ ~InMemory => copy[w] \in JobRecord
  BY <1>1 DEF Held, Recorded, Holding
<1> QED BY <1>1, <1>2 DEF Mine, Saved, TypeOK

\* An assignment to a field of the thread's job.
LEMMA Assigned ==
  ASSUME TypeOK, Held, NEW w \in Workers, pc[w] \in Recorded, NEW r \in JobRecord, Assign(w, r)
  PROVE  /\ store' \in [Jobs -> JobRecord \cup {NoJob}]
         /\ copy' \in [Workers -> JobRecord \cup {NoJob}]
         /\ \A j \in Jobs : j # job[w] => store'[j] = store[j]
         /\ \A v \in Workers : v # w => copy'[v] = copy[v]
         /\ InMemory => store'[job[w]] = r /\ copy' = copy
         /\ ~InMemory => copy'[w] = r /\ store' = store
<1>1. store \in [Jobs -> JobRecord \cup {NoJob}] /\ copy \in [Workers -> JobRecord \cup {NoJob}]
  BY DEF TypeOK
<1>2. job[w] \in Jobs
  BY MineTyped
<1> QED BY <1>1, <1>2 DEF Assign

\* The end of an attempt leaves every thread holding what its place in the code needs.
LEMMA EndedHeld ==
  ASSUME TypeOK, Held, InMemory' <=> InMemory, NEW w \in Workers, pc[w] \in Recorded,
         NEW r \in JobRecord, Assign(w, r), NEW p \in {"update", "requeue"},
         pc' = [pc EXCEPT ![w] = p], UNCHANGED <<clientVars, job, scan>>
  PROVE  Held'
<1>1. /\ store' \in [Jobs -> JobRecord \cup {NoJob}]
      /\ copy' \in [Workers -> JobRecord \cup {NoJob}]
      /\ \A j \in Jobs : j # job[w] => store'[j] = store[j]
      /\ \A v \in Workers : v # w => copy'[v] = copy[v]
      /\ InMemory => store'[job[w]] = r /\ copy' = copy
      /\ ~InMemory => copy'[w] = r /\ store' = store
  BY Assigned
<1>2. job[w] \in Jobs /\ submitting[job[w]] # "new"
  BY MineTyped
<1>3. pc'[w] = p /\ \A v \in Workers : v # w => pc'[v] = pc[v]
  BY DEF TypeOK
<1>4. p \in Holding /\ p \notin {"fetch", "claim", "confirm"}
  BY DEF Holding, Recorded
<1>5. job' = job /\ scan' = scan /\ submitting' = submitting /\ cancelling' = cancelling
  BY DEF clientVars
<1>6. ASSUME NEW v \in Workers
      PROVE  /\ pc'[v] \in Holding <=> job'[v] \in Jobs
             /\ pc'[v] \in Holding => submitting'[job'[v]] # "new"
             /\ pc'[v] \in Recorded /\ ~InMemory' => copy'[v] \in JobRecord
             /\ pc'[v] \in {"fetch", "claim", "confirm"} => ~InMemory'
             /\ pc'[v] = "fetch" => scan'[v] \in Ranks
  <2>1. CASE v = w
    BY <2>1, <1>1, <1>2, <1>3, <1>4, <1>5
  <2>2. CASE v # w
    <3>1. pc'[v] = pc[v] /\ copy'[v] = copy[v]
      BY <2>2, <1>1, <1>3
    <3> QED BY <3>1, <1>5 DEF Held
  <2> QED BY <2>1, <2>2
<1>7. ASSUME NEW j \in Jobs
      PROVE  /\ submitting'[j] = "confirm" => ~InMemory'
             /\ submitting'[j] # "new" /\ InMemory' => store'[j] \in JobRecord
             /\ cancelling'[j] # NoJob => submitting'[j] # "new"
  <2>1. submitting[j] # "new" /\ InMemory => store'[j] \in JobRecord
    <3>1. CASE j = job[w]
      BY <3>1, <1>1
    <3>2. CASE j # job[w]
      BY <3>2, <1>1 DEF Held
    <3> QED BY <3>1, <3>2
  <2> QED BY <2>1, <1>5 DEF Held
<1> QED BY <1>6, <1>7 DEF Held

\* A client's step.
LEMMA ClientHeld ==
  ASSUME TypeOK, Held, setup' = setup, InMemory' <=> InMemory, NEW j \in Jobs,
         Submit(j) \/ Cancel(j) \/ Expire(j)
  PROVE  TypeOK' /\ Held'
<1>0. setup.trouble \in Nat
  BY QueueConfigAssumption DEF TypeOK
<1>1. CASE SubmitInMemory(j)
  <2>1. CASE Prio[j] \in Ranks
    <3>1. /\ store' = [store EXCEPT ![j] = [Fresh EXCEPT !.state = "queued"]]
          /\ queue' = [queue EXCEPT ![Prio[j]] = Append(@, j)]
          /\ submitting' = [submitting EXCEPT ![j] = "known"] /\ InMemory
          /\ UNCHANGED <<setup, cancelling, cancelled, threadVars, trouble, history>>
      BY <1>1, <2>1 DEF SubmitInMemory
    <3>2. queue' \in [Lists -> Seq(Jobs)]
      <4>1. Append(queue[Prio[j]], j) \in Seq(Jobs)
        BY QueueEnds DEF TypeOK, Lists
      <4> QED BY <3>1, <4>1 DEF TypeOK
    <3>3. TypeOK'
      BY <3>1, <3>2, FreshRecord DEF TypeOK, threadVars, history
    <3>4. Held'
      BY <3>1, FreshRecord DEF TypeOK, Held, threadVars, history
    <3> QED BY <3>3, <3>4
  <2>2. CASE Prio[j] \notin Ranks
    <3>1. /\ store' = [store EXCEPT ![j] = Fresh]
          /\ submitting' = [submitting EXCEPT ![j] = "raised"] /\ InMemory
          /\ UNCHANGED <<setup, queue, cancelling, cancelled, threadVars, trouble, history>>
      BY <1>1, <2>2 DEF SubmitInMemory
    <3>2. TypeOK'
      BY <3>1, FreshRecord DEF TypeOK, threadVars, history
    <3>3. Held'
      BY <3>1, FreshRecord DEF TypeOK, Held, threadVars, history
    <3> QED BY <3>2, <3>3
  <2> QED BY <2>1, <2>2
<1>2. CASE SubmitPushes(j)
  <2>1. TypeOK'
    BY <1>2, FreshRecord DEF TypeOK, SubmitPushes, Lists, threadVars, history
  <2>2. Held'
    BY <1>2, FreshRecord DEF TypeOK, Held, SubmitPushes, Lists, threadVars, history
  <2> QED BY <2>1, <2>2
<1>3. CASE SubmitConfirms(j)
  <2>1. TypeOK'
    BY <1>3, FreshRecord DEF TypeOK, SubmitConfirms, threadVars, history
  <2>2. Held'
    BY <1>3, FreshRecord DEF TypeOK, Held, SubmitConfirms, threadVars, history
  <2> QED BY <2>1, <2>2
<1>4. CASE SubmitRaises(j)
  <2>1. TypeOK'
    BY <1>4, <1>0 DEF TypeOK, SubmitRaises, Trouble, queueVars, threadVars, history
  <2>2. Held'
    BY <1>4, <1>0 DEF TypeOK, Held, SubmitRaises, Trouble, queueVars, threadVars, history
  <2> QED BY <2>1, <2>2
<1>5. CASE CancelReads(j)
  <2>1. TypeOK'
    BY <1>5, <1>0 DEF TypeOK, CancelReads, Trouble, queueVars, threadVars, history
  <2>2. Held'
    BY <1>5, <1>0 DEF TypeOK, Held, CancelReads, Trouble, queueVars, threadVars, history
  <2> QED BY <2>1, <2>2
<1>6. CASE CancelWrites(j)
  <2> DEFINE r == IF InMemory THEN store[j] ELSE cancelling[j]
             c == [r EXCEPT !.state = "cancelled"]
  <2>1. /\ store' = [store EXCEPT ![j] = c]
        /\ cancelling' = [cancelling EXCEPT ![j] = NoJob]
        /\ cancelled' = cancelled \cup {j}
        /\ UNCHANGED <<setup, queue, submitting, threadVars, trouble, history>>
        /\ cancelling[j] # NoJob
    BY <1>6 DEF CancelWrites
  <2>2. r \in JobRecord
    BY <2>1 DEF TypeOK, Held
  <2>3. c \in JobRecord
    BY <2>2, Records DEF States
  <2> HIDE DEF c
  <2>4. TypeOK'
    BY <2>1, <2>3 DEF TypeOK, threadVars, history
  <2>5. Held'
    BY <2>1, <2>3 DEF TypeOK, Held, threadVars, history
  <2> QED BY <2>4, <2>5
<1>7. CASE Expire(j)
  <2>1. /\ store' = [store EXCEPT ![j] = NoJob] /\ ~InMemory
        /\ trouble < setup.trouble /\ trouble' = trouble + 1
        /\ UNCHANGED <<setup, queue, clientVars, threadVars, history>>
    BY <1>7 DEF Expire, Trouble
  <2>2. TypeOK'
    BY <1>0, <2>1 DEF TypeOK, clientVars, threadVars, history
  <2>3. Held'
    BY <2>1 DEF TypeOK, Held, clientVars, threadVars, history
  <2> QED BY <2>2, <2>3
<1> QED BY <1>1, <1>2, <1>3, <1>4, <1>5, <1>6, <1>7 DEF Submit, Cancel

\* A thread's step, also one that a Redis error ends.
LEMMA ThreadHeld ==
  ASSUME TypeOK, Held, Placed, setup' = setup, InMemory' <=> InMemory, NEW w \in Workers,
         Step(w) \/ RedisError(w)
  PROVE  TypeOK' /\ Held'
<1> USE QueueConfigAssumption
<1>0. setup.trouble \in Nat
  BY QueueConfigAssumption DEF TypeOK
<1>1. CASE Leave(w)
  <2>1. TypeOK'
    BY <1>1 DEF TypeOK, Leave, Goto, Holding, Recorded, queueVars, clientVars, history
  <2>2. Held'
    BY <1>1 DEF TypeOK, Held, Leave, Goto, Holding, Recorded, queueVars, clientVars, history
  <2> QED BY <2>1, <2>2
<1>2. CASE Enter(w)
  <2>1. TypeOK'
    BY <1>2 DEF TypeOK, Enter, Goto, Holding, Recorded, queueVars, clientVars, history
  <2>2. Held'
    BY <1>2 DEF TypeOK, Held, Enter, Goto, Holding, Recorded, queueVars, clientVars, history
  <2> QED BY <2>1, <2>2
<1>3. CASE Dequeue(w)
  <2>1. PICK p \in Ranks :
          /\ queue[p] # <<>>
          /\ queue' = [queue EXCEPT ![p] = Tail(@)]
          /\ job' = [job EXCEPT ![w] = Head(queue[p])]
          /\ store' = [store EXCEPT ![Head(queue[p])].state = "processing"]
    BY <1>3 DEF Dequeue
  <2> DEFINE j == Head(queue[p])
             r == [store[j] EXCEPT !.state = "processing"]
  <2>2. /\ queue' \in [Lists -> Seq(Jobs)] /\ j \in Jobs /\ InList(j)
    BY <2>1, Popped DEF Placed, Lists
  <2>3. submitting[j] # "new"
    BY <2>2 DEF Placed, PlaceOf
  <2> HIDE DEF j
  <2>4. /\ InMemory /\ pc' = [pc EXCEPT ![w] = "run"]
        /\ UNCHANGED <<setup, clientVars, active, stopped, copy, scan, trouble, history>>
        /\ job' = [job EXCEPT ![w] = j] /\ store' = [store EXCEPT ![j] = r]
    BY <1>3, <2>1 DEF Dequeue, Goto, j
  <2>5. r \in JobRecord
    BY <2>2, <2>3, <2>4, Records DEF Held, States
  <2> HIDE DEF r
  <2>6. TypeOK'
    BY <2>2, <2>4, <2>5 DEF TypeOK, clientVars, history
  <2>7. Held'
    BY <2>2, <2>3, <2>4, <2>5 DEF TypeOK, Held, Holding, Recorded, clientVars, history
  <2> QED BY <2>6, <2>7
<1>4. CASE Pop(w)
  <2>1. /\ ~InMemory /\ pc[w] = "dequeue" /\ scan[w] \in Ranks
        /\ UNCHANGED <<setup, store, clientVars, active, stopped, copy, trouble, history>>
    BY <1>4 DEF Pop
  <2>2. CASE queue[scan[w]] = <<>>
    <3>1. scan' = [scan EXCEPT ![w] = @ + 1] /\ UNCHANGED <<queue, job, pc>>
      BY <1>4, <2>2 DEF Pop
    <3>2. TypeOK'
      BY <2>1, <3>1 DEF TypeOK, Ranks, clientVars, history
    <3>3. Held'
      BY <2>1, <3>1 DEF TypeOK, Held, clientVars, history
    <3> QED BY <3>2, <3>3
  <2>3. CASE queue[scan[w]] # <<>>
    <3> DEFINE j == Head(queue[scan[w]])
    <3>1. /\ queue' = [queue EXCEPT ![scan[w]] = Tail(@)] /\ job' = [job EXCEPT ![w] = j]
          /\ pc' = [pc EXCEPT ![w] = "fetch"] /\ UNCHANGED scan
      BY <1>4, <2>3 DEF Pop, Goto
    <3>2. /\ queue' \in [Lists -> Seq(Jobs)] /\ j \in Jobs /\ InList(j)
      BY <2>1, <2>3, <3>1, Popped DEF Placed, Lists
    <3>3. submitting[j] # "new"
      BY <3>2 DEF Placed, PlaceOf
    <3> HIDE DEF j
    <3>4. TypeOK'
      BY <2>1, <3>1, <3>2 DEF TypeOK, clientVars, history
    <3>5. Held'
      BY <2>1, <3>1, <3>2, <3>3 DEF TypeOK, Held, Holding, Recorded, clientVars, history
    <3> QED BY <3>4, <3>5
  <2> QED BY <2>2, <2>3
<1>5. CASE Fetch(w)
  <2>1. /\ pc[w] = "fetch" /\ job[w] \in Jobs /\ ~InMemory /\ scan[w] \in Ranks
        /\ UNCHANGED <<queueVars, clientVars, active, stopped, trouble, attempts, told>>
    BY <1>5 DEF Fetch, Held, Holding
  <2>2. CASE store[job[w]] = NoJob
    <3>1. /\ scan' = [scan EXCEPT ![w] = @ + 1] /\ job' = [job EXCEPT ![w] = NoJob]
          /\ pc' = [pc EXCEPT ![w] = "dequeue"] /\ UNCHANGED copy
          /\ Lost({job[w]})
      BY <1>5, <2>2 DEF Fetch, Goto
    <3>2. outcome' \in [Jobs -> {"open", "succeeded", "exhausted", "lost"}]
      BY <3>1 DEF Lost, TypeOK
    <3>3. TypeOK'
      BY <2>1, <3>1, <3>2 DEF TypeOK, Ranks, queueVars, clientVars
    <3>4. Held'
      BY <2>1, <3>1 DEF TypeOK, Held, Holding, Recorded, queueVars, clientVars
    <3> QED BY <3>3, <3>4
  <2>3. CASE store[job[w]] # NoJob
    <3> DEFINE r == [store[job[w]] EXCEPT !.state = "processing"]
    <3>1. /\ copy' = [copy EXCEPT ![w] = r]
          /\ pc' = [pc EXCEPT ![w] = "claim"] /\ UNCHANGED <<job, scan, outcome>>
      BY <1>5, <2>3 DEF Fetch, Goto
    <3>2. store[job[w]] \in JobRecord
      BY <2>1, <2>3 DEF TypeOK
    <3>3. r \in JobRecord
      BY <3>2, Records DEF States
    <3> HIDE DEF r
    <3>4. TypeOK'
      BY <2>1, <3>1, <3>3 DEF TypeOK, queueVars, clientVars
    <3>5. Held'
      BY <2>1, <3>1, <3>3 DEF TypeOK, Held, Holding, Recorded, queueVars, clientVars
    <3> QED BY <3>4, <3>5
  <2> QED BY <2>2, <2>3
<1>6. CASE Claim(w)
  <2>1. TypeOK'
    BY <1>6, MineTyped DEF TypeOK, Claim, Goto, Holding, Recorded, queueVars, clientVars, history
  <2>2. Held'
    BY <1>6, MineTyped DEF TypeOK, Held, Claim, Goto, Holding, Recorded, queueVars,
                           clientVars, history
  <2> QED BY <2>1, <2>2
<1>7. CASE Poll(w) \/ WakeUp(w) \/ Miss(w)
  <2>1. TypeOK'
    BY <1>7 DEF TypeOK, Poll, WakeUp, Miss, Goto, Holding, Recorded, queueVars, clientVars,
           history
  <2>2. Held'
    BY <1>7 DEF TypeOK, Held, Poll, WakeUp, Miss, Goto, Holding, Recorded, queueVars, clientVars,
           history
  <2> QED BY <2>1, <2>2
<1>17. CASE CountOut(w)
  <2>1. TypeOK'
    BY <1>17 DEF TypeOK, CountOut, EmptyHanded, LetGo, Decremented, Goto, Holding, Recorded,
           queueVars, clientVars, history
  <2>2. Held'
    BY <1>17 DEF TypeOK, Held, CountOut, EmptyHanded, LetGo, Decremented, Goto, Holding, Recorded,
           queueVars, clientVars, history
  <2> QED BY <2>1, <2>2
<1>8. CASE Succeed(w)
  <2> DEFINE r == [Mine(w) EXCEPT !.state = "completed"]
  <2>1. /\ pc[w] \in Recorded /\ Assign(w, r)
        /\ attempts' = [attempts EXCEPT ![job[w]] = @ + 1]
        /\ outcome' = [outcome EXCEPT ![job[w]] = "succeeded"]
        /\ pc' = [pc EXCEPT ![w] = "update"]
        /\ UNCHANGED <<setup, queue, clientVars, active, stopped, job, scan, trouble, told>>
    BY <1>8 DEF Succeed, Goto, Recorded, Holding
  <2>2. job[w] \in Jobs /\ r \in JobRecord
    BY <2>1, MineTyped, Records DEF States, JobRecord
  <2> HIDE DEF r
  <2>3. /\ store' \in [Jobs -> JobRecord \cup {NoJob}]
        /\ copy' \in [Workers -> JobRecord \cup {NoJob}]
        /\ \A j \in Jobs : j # job[w] => store'[j] = store[j]
        /\ \A v \in Workers : v # w => copy'[v] = copy[v]
        /\ InMemory => store'[job[w]] = r /\ copy' = copy
        /\ ~InMemory => copy'[w] = r /\ store' = store
    BY <2>1, <2>2, Assigned
  <2>4. attempts' \in [Jobs -> Nat]
    BY <2>1, <2>2 DEF TypeOK
  <2>5. TypeOK'
    BY <2>1, <2>2, <2>3, <2>4 DEF TypeOK, clientVars
  <2>6. Held'
    BY <2>1, <2>2, EndedHeld
  <2> QED BY <2>5, <2>6
<1>9. CASE FailAndRetry(w)
  <2> DEFINE r == [state |-> "queued", retries |-> Mine(w).retries + 1]
  <2>1. /\ pc[w] \in Recorded /\ Assign(w, r)
        /\ attempts' = [attempts EXCEPT ![job[w]] = @ + 1]
        /\ outcome' = outcome
        /\ pc' = [pc EXCEPT ![w] = "requeue"]
        /\ UNCHANGED <<setup, queue, clientVars, active, stopped, job, scan, trouble, told>>
    BY <1>9 DEF FailAndRetry, Goto, Recorded, Holding
  <2>2. job[w] \in Jobs /\ r \in JobRecord
    <3>1. job[w] \in Jobs /\ Mine(w) \in JobRecord
      BY <2>1, MineTyped
    <3>2. Mine(w).retries + 1 \in Nat
      BY <3>1 DEF JobRecord
    <3> QED BY <3>1, <3>2 DEF JobRecord, States
  <2> HIDE DEF r
  <2>3. /\ store' \in [Jobs -> JobRecord \cup {NoJob}]
        /\ copy' \in [Workers -> JobRecord \cup {NoJob}]
        /\ \A j \in Jobs : j # job[w] => store'[j] = store[j]
        /\ \A v \in Workers : v # w => copy'[v] = copy[v]
        /\ InMemory => store'[job[w]] = r /\ copy' = copy
        /\ ~InMemory => copy'[w] = r /\ store' = store
    BY <2>1, <2>2, Assigned
  <2>4. attempts' \in [Jobs -> Nat]
    BY <2>1, <2>2 DEF TypeOK
  <2>5. TypeOK'
    BY <2>1, <2>2, <2>3, <2>4 DEF TypeOK, clientVars
  <2>6. Held'
    BY <2>1, <2>2, EndedHeld
  <2> QED BY <2>5, <2>6
<1>10. CASE FailForGood(w)
  <2> DEFINE r == [state |-> "failed", retries |-> Mine(w).retries + 1]
  <2>1. /\ pc[w] \in Recorded /\ Assign(w, r)
        /\ attempts' = [attempts EXCEPT ![job[w]] = @ + 1]
        /\ outcome' = [outcome EXCEPT ![job[w]] = "exhausted"]
        /\ pc' = [pc EXCEPT ![w] = "update"]
        /\ UNCHANGED <<setup, queue, clientVars, active, stopped, job, scan, trouble, told>>
    BY <1>10 DEF FailForGood, Goto, Recorded, Holding
  <2>2. job[w] \in Jobs /\ r \in JobRecord
    <3>1. job[w] \in Jobs /\ Mine(w) \in JobRecord
      BY <2>1, MineTyped
    <3>2. Mine(w).retries + 1 \in Nat
      BY <3>1 DEF JobRecord
    <3> QED BY <3>1, <3>2 DEF JobRecord, States
  <2> HIDE DEF r
  <2>3. /\ store' \in [Jobs -> JobRecord \cup {NoJob}]
        /\ copy' \in [Workers -> JobRecord \cup {NoJob}]
        /\ \A j \in Jobs : j # job[w] => store'[j] = store[j]
        /\ \A v \in Workers : v # w => copy'[v] = copy[v]
        /\ InMemory => store'[job[w]] = r /\ copy' = copy
        /\ ~InMemory => copy'[w] = r /\ store' = store
    BY <2>1, <2>2, Assigned
  <2>4. attempts' \in [Jobs -> Nat]
    BY <2>1, <2>2 DEF TypeOK
  <2>5. TypeOK'
    BY <2>1, <2>2, <2>3, <2>4 DEF TypeOK, clientVars
  <2>6. Held'
    BY <2>1, <2>2, EndedHeld
  <2> QED BY <2>5, <2>6
<1>11. CASE Requeue(w)
  <2> DEFINE j == job[w]
             r == IF InMemory THEN [store[j] EXCEPT !.state = "queued"] ELSE copy[w]
  <2>1. /\ pc[w] = "requeue"
        /\ store' = [store EXCEPT ![j] = r]
        /\ queue' = [queue EXCEPT ![Prio[j]] = Append(@, j)]
        /\ pc' = [pc EXCEPT ![w] = IF InMemory THEN "update" ELSE "confirm"]
        /\ UNCHANGED <<setup, clientVars, active, stopped, job, copy, scan, trouble, history>>
    BY <1>11 DEF Requeue, Goto, Saved
  <2>2. j \in Jobs /\ submitting[j] # "new"
    BY <2>1 DEF Held, Holding
  <2>3. r \in JobRecord
    BY <2>1, <2>2, Records DEF Held, Holding, Recorded, States
  <2> HIDE DEF r
  <2>4. queue' \in [Lists -> Seq(Jobs)]
    <3>1. Append(queue[Prio[j]], j) \in Seq(Jobs)
      BY <2>2, QueueEnds DEF TypeOK, Lists
    <3> QED BY <2>1, <3>1 DEF TypeOK
  <2>5. TypeOK'
    BY <2>1, <2>2, <2>3, <2>4 DEF TypeOK, clientVars, history
  <2>6. Held'
    BY <2>1, <2>2, <2>3 DEF TypeOK, Held, Holding, Recorded, clientVars, history
  <2> QED BY <2>5, <2>6
<1>12. CASE Confirm(w)
  <2>1. TypeOK'
    BY <1>12, MineTyped DEF TypeOK, Confirm, Goto, Holding, Recorded, queueVars, clientVars,
                            history
  <2>2. Held'
    BY <1>12, MineTyped DEF TypeOK, Held, Confirm, Goto, Holding, Recorded, queueVars,
                            clientVars, history
  <2> QED BY <2>1, <2>2
<1>13. CASE Update(w)
  <2>1. TypeOK'
    BY <1>13, MineTyped DEF TypeOK, Update, Goto, Holding, Recorded, queueVars, clientVars,
                            history
  <2>2. Held'
    BY <1>13, MineTyped DEF TypeOK, Held, Update, Goto, Holding, Recorded, queueVars,
                            clientVars, history
  <2> QED BY <2>1, <2>2
<1>14. CASE Notify(w)
  <2>1. TypeOK'
    BY <1>14, MineTyped DEF TypeOK, Notify, LetGo, Decremented, Goto, Holding, Recorded,
                            queueVars, clientVars, history
  <2>2. Held'
    BY <1>14, MineTyped DEF TypeOK, Held, Notify, LetGo, Decremented, Goto, Holding,
                            Recorded, queueVars, clientVars, history
  <2> QED BY <2>1, <2>2
<1>15. CASE Finally(w)
  <2>1. TypeOK'
    BY <1>15 DEF TypeOK, Finally, LetGo, Decremented, Goto, Holding, Recorded, queueVars,
           clientVars, history
  <2>2. Held'
    BY <1>15 DEF TypeOK, Held, Finally, LetGo, Decremented, Goto, Holding, Recorded, queueVars,
           clientVars, history
  <2> QED BY <2>1, <2>2
<1>16. CASE RedisError(w)
  <2>1. TypeOK'
    BY <1>16, <1>0 DEF TypeOK, RedisError, LetGo, Decremented, Trouble, Lost, Goto, Holding,
           Recorded, queueVars, clientVars, history
  <2>2. Held'
    BY <1>16, <1>0 DEF TypeOK, Held, RedisError, LetGo, Decremented, Trouble, Lost, Goto,
                       Holding, Recorded, queueVars, clientVars, history
  <2> QED BY <2>1, <2>2
<1> QED BY <1>1, <1>2, <1>3, <1>4, <1>5, <1>6, <1>7, <1>8, <1>9, <1>10, <1>11, <1>12, <1>13,
           <1>14, <1>15, <1>16, <1>17 DEF Step

\* The threads start, are told to stop, or die with their process.
LEMMA PoolHeld ==
  ASSUME TypeOK, Held, setup' = setup, InMemory' <=> InMemory,
         StartWorkers \/ StopWorkers \/ Crash
  PROVE  TypeOK' /\ Held'
<1> USE QueueConfigAssumption
<1>0. setup.trouble \in Nat
  BY QueueConfigAssumption DEF TypeOK
<1>1. CASE StartWorkers
  <2>1. TypeOK'
    BY <1>1 DEF TypeOK, StartWorkers, Goto, Holding, Recorded, queueVars, clientVars, history
  <2>2. Held'
    BY <1>1 DEF TypeOK, Held, StartWorkers, Goto, Holding, Recorded, queueVars, clientVars,
           history
  <2> QED BY <2>1, <2>2
<1>2. CASE StopWorkers
  <2>1. TypeOK'
    BY <1>2, <1>0 DEF TypeOK, StopWorkers, Trouble, Goto, Holding, Recorded, queueVars,
                      clientVars, history
  <2>2. Held'
    BY <1>2, <1>0 DEF TypeOK, Held, StopWorkers, Trouble, Goto, Holding, Recorded, queueVars,
           clientVars, history
  <2> QED BY <2>1, <2>2
<1>3. CASE Crash
  <2>1. /\ active' = 0 /\ stopped' = FALSE
        /\ pc' = [w \in Workers |-> "dead"] /\ job' = [w \in Workers |-> NoJob]
        /\ copy' = [w \in Workers |-> NoJob] /\ scan' = [w \in Workers |-> 0]
        /\ trouble < setup.trouble /\ trouble' = trouble + 1
        /\ UNCHANGED <<queueVars, clientVars, attempts, told>>
        /\ Lost({j \in Jobs : Running(j) # {}})
    BY <1>3 DEF Crash, Trouble
  <2>2. outcome' \in [Jobs -> {"open", "succeeded", "exhausted", "lost"}]
    BY <2>1 DEF Lost, TypeOK
  <2>3. active' \in Floor .. MaxConcurrent /\ trouble' \in 0 .. setup.trouble
    BY <1>0, <2>1 DEF TypeOK
  <2>4. TypeOK'
    <3>1. /\ job' \in [Workers -> Jobs \cup {NoJob}] /\ scan' \in [Workers -> 0 .. Levels]
          /\ copy' \in [Workers -> JobRecord \cup {NoJob}]
      BY <2>1
    <3>2. pc' \in [Workers -> {"dead", "top", "dequeue", "fetch", "claim", "run", "requeue",
                               "confirm", "update", "notify", "finally", "empty", "polling"}]
      BY <2>1
    <3> QED BY <2>1, <2>2, <2>3, <3>1, <3>2 DEF TypeOK, queueVars, clientVars
  <2>5. Held'
    BY <2>1 DEF TypeOK, Held, Holding, Recorded, queueVars, clientVars
  <2> QED BY <2>4, <2>5
<1> QED BY <1>1, <1>2, <1>3

-----------------------------------------------------------------------------
(***************************************************************************)
(* Every action on the places of jobs.                                     *)
(***************************************************************************)
\* Steps that touch no list, no thread and no outcome.
LEMMA PlacesStay ==
  ASSUME Placed, UNCHANGED <<queue, pc, job, outcome>>, Submitting
  PROVE  Placed'
<1>1. Settling
  BY DEF Settling, Running
<1> QED BY <1>1, Settled

LEMMA ClientPlaced ==
  ASSUME TypeOK, Held, Placed, NEW j \in Jobs, Submit(j) \/ Cancel(j) \/ Expire(j)
  PROVE  Placed'
<1>1. CASE SubmitInMemory(j)
  <2>1. CASE Prio[j] \in Ranks
    <3>1. /\ queue' = [queue EXCEPT ![Prio[j]] = Append(@, j)]
          /\ submitting' = [submitting EXCEPT ![j] = "known"] /\ submitting[j] = "new"
          /\ UNCHANGED <<pc, job, outcome>>
      BY <1>1, <2>1 DEF SubmitInMemory, threadVars, history
    <3> QED BY <3>1, SubmittedPlace
  <2>2. CASE Prio[j] \notin Ranks
    <3>1. Submitting /\ UNCHANGED <<queue, pc, job, outcome>>
      BY <1>1, <2>2 DEF SubmitInMemory, Submitting, TypeOK, threadVars, history
    <3> QED BY <3>1, PlacesStay
  <2> QED BY <2>1, <2>2
<1>2. CASE SubmitPushes(j)
  BY <1>2, SubmittedPlace DEF SubmitPushes, threadVars, history
<1>3. CASE SubmitConfirms(j) \/ SubmitRaises(j) \/ Cancel(j) \/ Expire(j)
  <2>1. Submitting /\ UNCHANGED <<queue, pc, job, outcome>>
    BY <1>3 DEF SubmitConfirms, SubmitRaises, Cancel, CancelReads, CancelWrites, Expire,
                Submitting, TypeOK, queueVars, clientVars, threadVars, history
  <2> QED BY <2>1, PlacesStay
<1> QED BY <1>1, <1>2, <1>3 DEF Submit

LEMMA ThreadPlaced ==
  ASSUME TypeOK, Held, Placed, NEW w \in Workers, Step(w) \/ RedisError(w)
  PROVE  Placed'
<1>0. /\ pc \in [Workers -> {"dead", "top", "dequeue", "fetch", "claim", "run", "requeue",
                            "confirm", "update", "notify", "finally", "empty", "polling"}]
      /\ job \in [Workers -> Jobs \cup {NoJob}]
  BY DEF TypeOK
<1>1. CASE Leave(w) \/ Enter(w) \/ Poll(w) \/ WakeUp(w) \/ Claim(w) \/ Miss(w) \/ CountOut(w)
           \/ FailAndRetry(w) \/ Confirm(w) \/ Update(w) \/ Notify(w) \/ Finally(w)
  <2>1. Others(w) /\ UNCHANGED <<queue, outcome, submitting>>
    BY <1>0, <1>1 DEF Leave, Enter, Poll, WakeUp, Claim, Miss, CountOut, EmptyHanded, FailAndRetry,
                      Confirm, Update, Notify, Finally,
                      LetGo, Goto, Others, queueVars, clientVars, history
  <2>2. \/ pc[w] \notin AtWork /\ pc'[w] \notin AtWork
        \/ pc[w] \in AtWork /\ pc'[w] \in AtWork /\ job'[w] = job[w]
    BY <1>0, <1>1 DEF Leave, Enter, Poll, WakeUp, Claim, Miss, CountOut, EmptyHanded, FailAndRetry,
                      Confirm, Update, Notify, Finally,
                      LetGo, Goto, AtWork
  <2> QED BY <2>1, <2>2, KeptPlace
<1>2. CASE Dequeue(w)
  <2>1. PICK p \in Ranks :
          /\ queue[p] # <<>>
          /\ queue' = [queue EXCEPT ![p] = Tail(@)]
          /\ job' = [job EXCEPT ![w] = Head(queue[p])]
    BY <1>2 DEF Dequeue
  <2>2. /\ pc[w] = "dequeue" /\ pc' = [pc EXCEPT ![w] = "run"] /\ p \in Lists
        /\ UNCHANGED <<submitting, outcome>>
    BY <1>2 DEF Dequeue, Goto, Lists, clientVars, history
  <2> QED BY <2>1, <2>2, TakenPlace DEF AtWork
<1>3. CASE Pop(w)
  <2>1. CASE queue[scan[w]] = <<>>
    <3>1. Submitting /\ UNCHANGED <<queue, pc, job, outcome>>
      BY <1>3, <2>1 DEF Pop, Submitting, clientVars, history
    <3> QED BY <3>1, PlacesStay
  <2>2. CASE queue[scan[w]] # <<>>
    <3>1. /\ queue' = [queue EXCEPT ![scan[w]] = Tail(@)]
          /\ job' = [job EXCEPT ![w] = Head(queue[scan[w]])]
          /\ pc[w] = "dequeue" /\ pc' = [pc EXCEPT ![w] = "fetch"] /\ scan[w] \in Lists
          /\ UNCHANGED <<submitting, outcome>>
      BY <1>3, <2>2 DEF Pop, Goto, Lists, clientVars, history
    <3> QED BY <2>2, <3>1, TakenPlace DEF AtWork
  <2> QED BY <2>1, <2>2
<1>4. CASE Fetch(w)
  <2>1. pc[w] = "fetch" /\ job[w] \in Jobs /\ UNCHANGED <<queue, submitting>>
    BY <1>4 DEF Fetch, Held, Holding, queueVars, clientVars
  <2>2. CASE store[job[w]] = NoJob
    <3>1. /\ Others(w) /\ pc'[w] = "dequeue" /\ Lost({job[w]})
      BY <1>0, <1>4, <2>2 DEF Fetch, Goto, Others
    <3>2. /\ outcome'[job[w]] # "open"
          /\ \A k \in Jobs : k # job[w] => outcome'[k] = outcome[k]
      BY <2>1, <3>1 DEF Lost
    <3> QED BY <2>1, <3>1, <3>2, GivenUpPlace DEF AtWork
  <2>3. CASE store[job[w]] # NoJob
    <3>1. Others(w) /\ pc'[w] = "claim" /\ UNCHANGED <<job, outcome>>
      BY <1>0, <1>4, <2>3 DEF Fetch, Goto, Others
    <3> QED BY <2>1, <3>1, KeptPlace DEF AtWork
  <2> QED BY <2>2, <2>3
<1>5. CASE Succeed(w) \/ FailForGood(w)
  <2>1. /\ pc[w] = "run" /\ job[w] \in Jobs /\ Others(w) /\ pc'[w] = "update"
        /\ UNCHANGED <<queue, submitting>>
    BY <1>0, <1>5 DEF Succeed, FailForGood, Held, Holding, Goto, Others, clientVars
  <2>2. /\ outcome'[job[w]] # "open"
        /\ \A k \in Jobs : k # job[w] => outcome'[k] = outcome[k]
    BY <1>5, <2>1 DEF Succeed, FailForGood, TypeOK
  <2> QED BY <2>1, <2>2, GivenUpPlace DEF AtWork
<1>6. CASE Requeue(w)
  <2> DEFINE l == IF InMemory THEN "update" ELSE "confirm"
  <2>1. /\ pc[w] = "requeue" /\ job[w] \in Jobs
        /\ queue' = [queue EXCEPT ![Prio[job[w]]] = Append(@, job[w])]
        /\ pc' = [pc EXCEPT ![w] = l] /\ l \notin AtWork
        /\ UNCHANGED <<job, submitting, outcome>>
    BY <1>6 DEF Requeue, Held, Holding, Goto, AtWork, clientVars, history
  <2> HIDE DEF l
  <2> QED BY <2>1, ReturnedPlace
<1>7. CASE RedisError(w)
  <2>1. /\ Others(w) /\ pc'[w] = "dead" /\ Lost({j \in Jobs : w \in Running(j)})
        /\ UNCHANGED <<queue, submitting>>
    BY <1>0, <1>7 DEF RedisError, LetGo, Goto, Others, queueVars, clientVars
  <2>2. CASE pc[w] \in AtWork
    <3>1. job[w] \in Jobs
      BY <2>2 DEF AtWork, Held, Holding
    <3>2. \A k \in Jobs : w \in Running(k) <=> k = job[w]
      BY <2>2 DEF Running, AtWork
    <3>3. /\ outcome'[job[w]] # "open"
          /\ \A k \in Jobs : k # job[w] => outcome'[k] = outcome[k]
      BY <2>1, <3>1, <3>2 DEF Lost
    <3> QED BY <2>1, <2>2, <3>1, <3>3, GivenUpPlace DEF AtWork
  <2>3. CASE pc[w] \notin AtWork
    <3>1. {j \in Jobs : w \in Running(j)} = {}
      BY <2>3 DEF Running, AtWork
    <3>2. outcome' = outcome
      BY <2>1, <3>1 DEF Lost, TypeOK
    <3> QED BY <2>1, <2>3, <3>2, KeptPlace DEF AtWork
  <2> QED BY <2>2, <2>3
<1> QED BY <1>1, <1>2, <1>3, <1>4, <1>5, <1>6, <1>7 DEF Step

LEMMA PoolPlaced ==
  ASSUME TypeOK, Placed, StartWorkers \/ StopWorkers \/ Crash
  PROVE  Placed'
<1>1. Submitting /\ queue' = queue
  BY DEF StartWorkers, StopWorkers, Crash, Submitting, queueVars, clientVars
<1>2. CASE StartWorkers \/ StopWorkers
  <2>1. outcome' = outcome /\ \A j \in Jobs : Running(j)' = Running(j)
    BY <1>2 DEF StartWorkers, StopWorkers, Running, history
  <2>2. Settling
    BY <2>1 DEF Settling
  <2> QED BY <1>1, <2>2, Settled
<1>3. CASE Crash
  <2>1. /\ \A j \in Jobs : Running(j)' = {}
        /\ Lost({j \in Jobs : Running(j) # {}})
    BY <1>3 DEF Crash, Running
  <2>2. ASSUME NEW j \in Jobs
        PROVE  \/ outcome'[j] = outcome[j] /\ Running(j)' = Running(j)
               \/ Running(j) # {} /\ outcome'[j] # "open" /\ Running(j)' = {}
    BY <2>1 DEF Lost
  <2>3. Settling
    BY <2>2 DEF Settling
  <2> QED BY <1>1, <2>3, Settled
<1> QED BY <1>2, <1>3

-----------------------------------------------------------------------------
(***************************************************************************)
(* Attempts and results.                                                   *)
(***************************************************************************)
Kept == Counted /\ RetriesBounded /\ ResultKept

\* What the records say of one job.
Honest(j) ==
  /\ store[j] # NoJob => store[j].retries <= attempts[j]
  /\ cancelling[j] # NoJob => cancelling[j].retries <= attempts[j]
  /\ submitting[j] = "new" => attempts[j] = 0
  /\ InMemory /\ outcome[j] = "open" /\ submitting[j] # "new" =>
       store[j].retries = attempts[j] /\ attempts[j] < MaxRetries
  /\ outcome[j] = "exhausted" => attempts[j] >= MaxRetries
  /\ InMemory => attempts[j] <= MaxRetries
  /\ InMemory /\ j \notin cancelled =>
       /\ outcome[j] = "succeeded" => store[j].state = "completed"
       /\ outcome[j] = "exhausted" => store[j].state = "failed"

Copied(w) == pc[w] \in Recorded /\ ~InMemory => copy[w].retries <= attempts[job[w]]

LEMMA KeptIs ==
  /\ Kept <=> (\A j \in Jobs : Honest(j)) /\ (\A w \in Workers : Copied(w))
  /\ Kept' <=> (\A j \in Jobs : Honest(j)') /\ (\A w \in Workers : Copied(w)')
BY DEF Kept, Counted, RetriesBounded, ResultKept, Honest, Copied

\* A job whose records nobody writes, though it may be lost.
Alone(j) ==
  /\ store'[j] = store[j] /\ cancelling'[j] = cancelling[j] /\ attempts'[j] = attempts[j]
  /\ submitting'[j] = "new" <=> submitting[j] = "new"
  /\ outcome'[j] \in {outcome[j], "lost"}
  /\ j \in cancelled' <=> j \in cancelled

LEMMA AloneHonest ==
  ASSUME NEW j, Honest(j), Alone(j), InMemory' <=> InMemory
  PROVE  Honest(j)'
BY DEF Honest, Alone

\* A thread that goes on with the record it has.
LEMMA SameCopied ==
  ASSUME TypeOK, NEW w \in Workers, Copied(w), InMemory' <=> InMemory, job[w] \in Jobs,
         pc[w] \in Recorded, copy'[w] = copy[w], job'[w] = job[w],
         attempts'[job[w]] \in Nat, attempts'[job[w]] >= attempts[job[w]],
         ~InMemory => copy[w] \in JobRecord
  PROVE  Copied(w)'
<1>1. CASE InMemory
  BY <1>1 DEF Copied
<1>2. CASE ~InMemory
  <2>1. copy[w].retries \in Nat /\ attempts[job[w]] \in Nat /\ copy[w].retries <= attempts[job[w]]
    BY <1>2 DEF Copied, JobRecord, TypeOK
  <2>2. copy[w].retries <= attempts'[job[w]]
    BY <2>1
  <2> QED BY <2>2 DEF Copied
<1> QED BY <1>1, <1>2

\* The records that a thread works with.
LEMMA MineHonest ==
  ASSUME TypeOK, Held, Kept, NEW w \in Workers, pc[w] \in Recorded,
         InMemory => outcome[job[w]] = "open"
  PROVE  /\ job[w] \in Jobs /\ Honest(job[w]) /\ attempts[job[w]] \in Nat
         /\ Mine(w) \in JobRecord /\ Mine(w).retries \in Nat
         /\ Mine(w).retries <= attempts[job[w]]
         /\ InMemory => /\ Mine(w).retries = attempts[job[w]]
                        /\ attempts[job[w]] < MaxRetries
<1>1. job[w] \in Jobs /\ submitting[job[w]] # "new" /\ Mine(w) \in JobRecord
  BY MineTyped
<1>2. Honest(job[w]) /\ Copied(w)
  BY <1>1, KeptIs
<1>3. attempts[job[w]] \in Nat /\ Mine(w).retries \in Nat
  BY <1>1 DEF TypeOK, JobRecord
<1>4. CASE InMemory
  BY <1>1, <1>2, <1>3, <1>4 DEF Honest, Mine
<1>5. CASE ~InMemory
  BY <1>1, <1>2, <1>3, <1>5 DEF Copied, Mine
<1> QED BY <1>1, <1>2, <1>3, <1>4, <1>5

\* A job whose record is the copy of a thread.
LEMMA SavedHonest ==
  ASSUME TypeOK, Held, Kept, InMemory' <=> InMemory, NEW w \in Workers, pc[w] \in Recorded,
         store' = Saved(w), UNCHANGED <<cancelling, attempts, submitting, outcome, cancelled>>
  PROVE  \A j \in Jobs : Honest(j)'
<1> SUFFICES ASSUME NEW j \in Jobs PROVE Honest(j)'
  OBVIOUS
<1>0. Honest(j)
  BY KeptIs
<1>1. CASE InMemory \/ j # job[w]
  <2>1. store'[j] = store[j]
    BY <1>1, MineTyped DEF Saved
  <2> QED BY <1>0, <2>1, AloneHonest DEF Alone
<1>2. CASE ~InMemory /\ j = job[w]
  <2>1. store'[j] = copy[w] /\ Copied(w)
    BY <1>2, KeptIs DEF Saved, TypeOK
  <2>2. store'[j].retries <= attempts[j]
    BY <1>2, <2>1 DEF Copied
  <2> QED BY <1>0, <1>2, <2>2 DEF Honest
<1> QED BY <1>1, <1>2

\* Copies nobody writes.
LEMMA CopiesStay ==
  ASSUME TypeOK, Held, Kept, InMemory' <=> InMemory, NEW v \in Workers, UNCHANGED attempts,
         copy'[v] = copy[v], job'[v] = job[v], pc'[v] \in Recorded => pc[v] \in Recorded
  PROVE  Copied(v)'
BY KeptIs DEF Copied

LEMMA ClientKept ==
  ASSUME TypeOK, Held, Placed, Kept, InMemory' <=> InMemory, NEW j \in Jobs,
         Submit(j) \/ Cancel(j) \/ Expire(j)
  PROVE  Kept'
<1> USE QueueConfigAssumption
<1>0. Honest(j) /\ PlaceOf(j)
  BY KeptIs DEF Placed
<1>1. \A v \in Workers : Copied(v)'
  <2>1. UNCHANGED <<attempts, copy, job, pc>>
    BY DEF Submit, SubmitInMemory, SubmitPushes, SubmitConfirms, SubmitRaises, Cancel,
           CancelReads, CancelWrites, Expire, threadVars, history
  <2> QED BY <2>1, CopiesStay
<1>2. ASSUME NEW k \in Jobs, k # j
      PROVE  Honest(k)'
  <2>1. Alone(k)
    BY <1>2 DEF Submit, SubmitInMemory, SubmitPushes, SubmitConfirms, SubmitRaises, Cancel,
                CancelReads, CancelWrites, Expire, clientVars, queueVars, threadVars, history,
                Alone, TypeOK
  <2> QED BY <2>1, AloneHonest, KeptIs
<1>3. Honest(j)'
  <2>1. CASE SubmitInMemory(j) \/ SubmitPushes(j)
    <3>1. store'[j] \in JobRecord /\ store'[j].retries = 0 /\ submitting'[j] # "new"
      BY <2>1, FreshRecord DEF SubmitInMemory, SubmitPushes, TypeOK
    <3>2. /\ attempts[j] = 0 /\ outcome[j] = "open"
          /\ UNCHANGED <<attempts, outcome, cancelling>>
      BY <1>0, <2>1 DEF SubmitInMemory, SubmitPushes, Honest, PlaceOf, history
    <3> QED BY <1>0, <3>1, <3>2 DEF Honest
  <2>2. CASE SubmitConfirms(j)
    <3>1. /\ store'[j] \in JobRecord /\ store'[j].retries = 0 /\ submitting'[j] # "new"
          /\ ~InMemory /\ attempts[j] \in Nat
      BY <2>2, FreshRecord DEF SubmitConfirms, Held, TypeOK
    <3>2. UNCHANGED <<attempts, outcome, cancelling>>
      BY <2>2 DEF SubmitConfirms, history
    <3> QED BY <1>0, <3>1, <3>2 DEF Honest
  <2>3. CASE SubmitRaises(j)
    <3>1. Alone(j)
      BY <2>3 DEF SubmitRaises, queueVars, history, Alone, TypeOK
    <3> QED BY <1>0, <3>1, AloneHonest
  <2>4. CASE CancelReads(j)
    <3>1. /\ store[j] # NoJob /\ cancelling'[j] = store[j]
          /\ UNCHANGED <<store, submitting, attempts, outcome, cancelled>>
      BY <2>4 DEF CancelReads, queueVars, history, TypeOK
    <3> QED BY <1>0, <3>1 DEF Honest
  <2>5. CASE CancelWrites(j)
    <3> DEFINE r == IF InMemory THEN store[j] ELSE cancelling[j]
    <3>1. /\ store'[j] = [r EXCEPT !.state = "cancelled"] /\ cancelling'[j] = NoJob
          /\ j \in cancelled' /\ cancelling[j] # NoJob
          /\ UNCHANGED <<submitting, attempts, outcome>>
      BY <2>5 DEF CancelWrites, history, TypeOK
    <3>2. r \in JobRecord
      BY <3>1 DEF TypeOK, Held
    <3>3. store'[j].retries = r.retries
      BY <3>1, <3>2, Records DEF States
    <3>4. InMemory => submitting[j] # "new"
      BY <3>1 DEF Held
    <3>5. r.retries <= attempts[j]
      <4>1. CASE ~InMemory
        BY <1>0, <3>1, <4>1 DEF Honest
      <4>2. CASE InMemory /\ store[j] # NoJob
        BY <1>0, <4>2 DEF Honest
      <4>3. InMemory => store[j] # NoJob
        BY <3>2, NoJobAssumption
      <4> QED BY <4>1, <4>2, <4>3
    <3> QED BY <1>0, <3>1, <3>3, <3>4, <3>5 DEF Honest
  <2>6. CASE Expire(j)
    <3>1. /\ store'[j] = NoJob /\ ~InMemory
          /\ UNCHANGED <<cancelling, submitting, attempts, outcome, cancelled>>
      BY <2>6 DEF Expire, clientVars, history, TypeOK
    <3> QED BY <1>0, <3>1 DEF Honest
  <2> QED BY <2>1, <2>2, <2>3, <2>4, <2>5, <2>6 DEF Submit, Cancel
<1> QED BY <1>1, <1>2, <1>3, KeptIs

\* A thread that goes on to where it has no record; jobs may be lost.
LEMMA LeftKept ==
  ASSUME TypeOK, Held, Kept, InMemory' <=> InMemory, NEW w \in Workers, Others(w),
         \A v \in Workers : v # w => copy'[v] = copy[v], pc'[w] \notin Recorded,
         \A j \in Jobs : Alone(j), attempts' = attempts
  PROVE  Kept'
<1>1. \A j \in Jobs : Honest(j)'
  BY AloneHonest, KeptIs
<1>2. ASSUME NEW v \in Workers
      PROVE  Copied(v)'
  <2>1. CASE v = w
    BY <2>1 DEF Copied
  <2>2. CASE v # w
    BY <2>2, CopiesStay DEF Others
  <2> QED BY <2>1, <2>2
<1> QED BY <1>1, <1>2, KeptIs

\* An attempt ends.
LEMMA AttemptKept ==
  ASSUME TypeOK, Held, Placed, Kept, InMemory' <=> InMemory, NEW w \in Workers, pc[w] = "run",
         NEW r \in JobRecord, Assign(w, r), attempts' = [attempts EXCEPT ![job[w]] = @ + 1],
         UNCHANGED <<submitting, cancelling, cancelled, job>>,
         \A v \in Workers : v # w => pc'[v] = pc[v],
         \A j \in Jobs : j # job[w] => outcome'[j] = outcome[j],
         r.retries <= attempts[job[w]] + 1,
         \/ outcome'[job[w]] = "succeeded" /\ r.state = "completed"
         \/ outcome'[job[w]] = "exhausted" /\ r.state = "failed" /\ r.retries >= MaxRetries
         \/ /\ outcome'[job[w]] = "open" /\ r.retries = Mine(w).retries + 1
            /\ r.retries < MaxRetries
  PROVE  Kept'
<1> USE QueueConfigAssumption
<1> DEFINE j == job[w]
<1>1. /\ j \in Jobs /\ w \in Running(j) /\ submitting[j] # "new"
  BY DEF Held, Holding, Running
<1>2. outcome[j] = "open"
  BY <1>1 DEF Placed, PlaceOf
<1>3. /\ Honest(j) /\ attempts[j] \in Nat /\ Mine(w).retries \in Nat
      /\ InMemory => Mine(w).retries = attempts[j] /\ attempts[j] < MaxRetries
  BY <1>2, MineHonest DEF Recorded, Holding
<1>4. /\ \A k \in Jobs : k # j => store'[k] = store[k]
      /\ \A v \in Workers : v # w => copy'[v] = copy[v]
      /\ InMemory => store'[j] = r /\ copy' = copy
      /\ ~InMemory => copy'[w] = r /\ store' = store
  BY Assigned DEF Recorded, Holding
<1>5. /\ attempts'[j] = attempts[j] + 1 /\ attempts'[j] \in Nat
      /\ \A k \in Jobs : k # j => attempts'[k] = attempts[k]
  BY <1>1, <1>3 DEF TypeOK
<1>6. Honest(j)'
  <2>1. r.retries \in Nat
    BY DEF JobRecord
  <2>2. /\ j \in cancelled' <=> j \in cancelled
        /\ submitting'[j] = submitting[j] /\ cancelling'[j] = cancelling[j]
    OBVIOUS
  <2>3. store'[j] # NoJob => store'[j].retries <= attempts'[j]
    <3>1. CASE InMemory
      BY <1>4, <1>5, <3>1
    <3>2. CASE ~InMemory /\ store[j] # NoJob
      <4>1. store[j].retries \in Nat /\ store[j].retries <= attempts[j]
        BY <1>1, <1>3, <3>2 DEF TypeOK, JobRecord, Honest
      <4> QED BY <1>3, <1>4, <1>5, <3>2, <4>1
    <3> QED BY <1>4, <3>1, <3>2
  <2>4. cancelling[j] # NoJob => cancelling[j].retries <= attempts'[j]
    <3>1. ASSUME cancelling[j] # NoJob
          PROVE  cancelling[j].retries \in Nat /\ cancelling[j].retries <= attempts[j]
      BY <1>1, <1>3, <3>1 DEF TypeOK, JobRecord, Honest
    <3> QED BY <1>3, <1>5, <3>1
  <2>5. InMemory => attempts'[j] <= MaxRetries
    BY <1>3, <1>5
  <2>6. InMemory /\ outcome'[j] = "open" =>
          store'[j].retries = attempts'[j] /\ attempts'[j] < MaxRetries
    BY <1>3, <1>4, <1>5
  <2>7. outcome'[j] = "exhausted" => attempts'[j] >= MaxRetries
    BY <1>3, <1>5, <2>1
  <2>8. InMemory => /\ outcome'[j] = "succeeded" => store'[j].state = "completed"
                    /\ outcome'[j] = "exhausted" => store'[j].state = "failed"
    BY <1>4
  <2> QED BY <1>1, <2>2, <2>3, <2>4, <2>5, <2>6, <2>7, <2>8 DEF Honest
<1>7. ASSUME NEW k \in Jobs, k # j
      PROVE  Honest(k)'
  <2>1. Alone(k)
    BY <1>4, <1>5, <1>7 DEF Alone
  <2> QED BY <2>1, AloneHonest, KeptIs
<1>8. Copied(w)'
  BY <1>3, <1>4, <1>5 DEF Copied
<1>9. ASSUME NEW v \in Workers, v # w
      PROVE  Copied(v)'
  <2>1. CASE pc[v] \notin Recorded
    BY <1>9, <2>1 DEF Copied
  <2>2. CASE pc[v] \in Recorded
    <3>1. job[v] \in Jobs /\ (~InMemory => copy[v] \in JobRecord)
      BY <2>2 DEF Held, Recorded
    <3>2. attempts'[job[v]] \in Nat /\ attempts'[job[v]] >= attempts[job[v]]
      <4>1. CASE job[v] = j
        BY <1>3, <1>5, <4>1
      <4>2. CASE job[v] # j
        BY <1>5, <3>1, <4>2 DEF TypeOK
      <4> QED BY <4>1, <4>2
    <3>3. copy'[v] = copy[v] /\ job'[v] = job[v] /\ Copied(v)
      BY <1>4, <1>9, KeptIs
    <3> QED BY <2>2, <3>1, <3>2, <3>3, SameCopied
  <2> QED BY <2>1, <2>2
<1> QED BY <1>6, <1>7, <1>8, <1>9, KeptIs

LEMMA ThreadKept ==
  ASSUME TypeOK, Held, Placed, Kept, InMemory' <=> InMemory, NEW w \in Workers,
         Step(w) \/ RedisError(w)
  PROVE  Kept'
<1> USE QueueConfigAssumption
<1>0. /\ pc \in [Workers -> {"dead", "top", "dequeue", "fetch", "claim", "run", "requeue",
                             "confirm", "update", "notify", "finally", "empty", "polling"}]
      /\ job \in [Workers -> Jobs \cup {NoJob}] /\ copy \in [Workers -> JobRecord \cup {NoJob}]
  BY DEF TypeOK
<1>1. CASE Leave(w) \/ Enter(w) \/ Poll(w) \/ WakeUp(w) \/ Pop(w) \/ Miss(w) \/ CountOut(w) \/ Notify(w) \/ Finally(w)
           \/ RedisError(w)
  <2>1. /\ Others(w) /\ pc'[w] \notin Recorded /\ attempts' = attempts
        /\ \A v \in Workers : v # w => copy'[v] = copy[v]
    BY <1>0, <1>1 DEF Leave, Enter, Poll, WakeUp, Pop, Miss, CountOut, EmptyHanded, Notify, Finally, RedisError, LetGo, Goto, Others,
                      Recorded, Holding, history
  <2>2. \A j \in Jobs : outcome'[j] \in {outcome[j], "lost"}
    BY <1>1 DEF Leave, Enter, Poll, WakeUp, Pop, Miss, CountOut, EmptyHanded, Notify, Finally, RedisError, Lost, history
  <2>3. UNCHANGED <<store, clientVars>>
    BY <1>1 DEF Leave, Enter, Poll, WakeUp, Pop, Miss, CountOut, EmptyHanded, Notify, Finally, RedisError, queueVars
  <2>4. \A j \in Jobs : Alone(j)
    BY <2>1, <2>2, <2>3 DEF Alone, clientVars
  <2> QED BY <2>1, <2>4, LeftKept
<1>2. CASE Dequeue(w)
  <2>1. PICK p \in Ranks :
          /\ queue[p] # <<>>
          /\ queue' = [queue EXCEPT ![p] = Tail(@)]
          /\ store' = [store EXCEPT ![Head(queue[p])].state = "processing"]
    BY <1>2 DEF Dequeue
  <2> DEFINE j == Head(queue[p])
             r == [store[j] EXCEPT !.state = "processing"]
  <2>2. j \in Jobs /\ InList(j)
    BY <2>1, Popped DEF Placed, Lists
  <2>3. submitting[j] # "new" /\ outcome[j] = "open" /\ InMemory
    BY <1>2, <2>2 DEF Placed, PlaceOf, Dequeue
  <2> HIDE DEF j
  <2>4. store' = [store EXCEPT ![j] = r]
    BY <2>1 DEF j
  <2>5. store[j] \in JobRecord /\ r \in JobRecord /\ r.retries = store[j].retries
    BY <2>2, <2>3, Records DEF Held, States
  <2> HIDE DEF r
  <2>6. /\ UNCHANGED <<attempts, outcome, cancelling, cancelled, submitting>>
        /\ store'[j] = r /\ \A k \in Jobs : k # j => store'[k] = store[k]
    BY <1>2, <2>2, <2>4 DEF Dequeue, clientVars, history, TypeOK
  <2>7. ASSUME NEW k \in Jobs
        PROVE  Honest(k)'
    <3>1. Honest(k)
      BY KeptIs
    <3>2. CASE k = j
      BY <2>3, <2>5, <2>6, <3>1, <3>2, NoJobAssumption DEF Honest
    <3>3. CASE k # j
      BY <2>6, <3>1, <3>3, AloneHonest DEF Alone
    <3> QED BY <3>2, <3>3
  <2>8. \A v \in Workers : Copied(v)'
    BY <2>3 DEF Copied
  <2> QED BY <2>7, <2>8, KeptIs
<1>3. CASE Fetch(w)
  <2>1. /\ pc[w] = "fetch" /\ job[w] \in Jobs
        /\ UNCHANGED <<queueVars, clientVars, attempts, told>>
    BY <1>3 DEF Fetch, Held, Holding
  <2>2. CASE store[job[w]] = NoJob
    <3>1. /\ Others(w) /\ pc'[w] = "dequeue" /\ Lost({job[w]}) /\ copy' = copy
      BY <1>0, <1>3, <2>2 DEF Fetch, Goto, Others
    <3>2. \A j \in Jobs : outcome'[j] \in {outcome[j], "lost"}
      BY <3>1 DEF Lost
    <3>3. \A j \in Jobs : Alone(j)
      BY <2>1, <3>2 DEF Alone, queueVars, clientVars
    <3> QED BY <2>1, <3>1, <3>3, LeftKept DEF Recorded, Holding
  <2>3. CASE store[job[w]] # NoJob
    <3>1. /\ copy' = [copy EXCEPT ![w] = [store[job[w]] EXCEPT !.state = "processing"]]
          /\ pc' = [pc EXCEPT ![w] = "claim"] /\ UNCHANGED <<job, scan, outcome>>
      BY <1>3, <2>3 DEF Fetch, Goto
    <3>2. store[job[w]] \in JobRecord
      BY <2>1, <2>3 DEF TypeOK
    <3>3. copy'[w].retries = store[job[w]].retries
      BY <1>0, <3>1, <3>2, Records DEF States
    <3>4. store[job[w]].retries <= attempts[job[w]]
      BY <2>1, <2>3, KeptIs DEF Honest
    <3>5. ASSUME NEW v \in Workers
          PROVE  Copied(v)'
      <4>1. CASE v = w
        BY <2>1, <3>1, <3>3, <3>4, <4>1 DEF Copied
      <4>2. CASE v # w
        BY <1>0, <2>1, <3>1, <4>2, CopiesStay
      <4> QED BY <4>1, <4>2
    <3>6. ASSUME NEW j \in Jobs
          PROVE  Honest(j)'
      <4>1. Alone(j)
        BY <2>1, <3>1 DEF Alone, queueVars, clientVars
      <4> QED BY <4>1, AloneHonest, KeptIs
    <3> QED BY <3>5, <3>6, KeptIs
  <2> QED BY <2>2, <2>3
<1>4. CASE Claim(w) \/ Confirm(w) \/ Update(w)
  <2>1. /\ pc[w] \in Recorded /\ store' = Saved(w) /\ Others(w)
        /\ UNCHANGED <<cancelling, attempts, submitting, outcome, cancelled, copy, job>>
    BY <1>0, <1>4 DEF Claim, Confirm, Update, Recorded, Holding, Goto, Others, clientVars, history
  <2>2. \A j \in Jobs : Honest(j)'
    BY <2>1, SavedHonest
  <2>3. \A v \in Workers : Copied(v)'
    BY <2>1, CopiesStay DEF Others
  <2> QED BY <2>2, <2>3, KeptIs
<1>5. CASE Succeed(w)
  <2> DEFINE r == [Mine(w) EXCEPT !.state = "completed"]
  <2>1. /\ pc[w] = "run" /\ Assign(w, r) /\ attempts' = [attempts EXCEPT ![job[w]] = @ + 1]
        /\ outcome' = [outcome EXCEPT ![job[w]] = "succeeded"]
        /\ pc' = [pc EXCEPT ![w] = "update"]
        /\ UNCHANGED <<submitting, cancelling, cancelled, job>>
    BY <1>5 DEF Succeed, Goto, clientVars
  <2>2. pc[w] \in Recorded /\ job[w] \in Jobs /\ w \in Running(job[w])
    BY <2>1 DEF Recorded, Holding, Held, Running
  <2>3. outcome[job[w]] = "open"
    BY <2>2 DEF Placed, PlaceOf
  <2>4. Mine(w) \in JobRecord /\ Mine(w).retries \in Nat
        /\ Mine(w).retries <= attempts[job[w]] /\ attempts[job[w]] \in Nat
    BY <2>2, <2>3, MineHonest
  <2>5. r \in JobRecord /\ r.state = "completed" /\ r.retries = Mine(w).retries
    BY <2>4, Records DEF States
  <2> HIDE DEF r
  <2>6. r.retries <= attempts[job[w]] + 1
    BY <2>4, <2>5
  <2>7. /\ outcome'[job[w]] = "succeeded"
        /\ \A j \in Jobs : j # job[w] => outcome'[j] = outcome[j]
        /\ \A v \in Workers : v # w => pc'[v] = pc[v]
    BY <1>0, <2>1, <2>2 DEF TypeOK
  <2> QED BY <2>1, <2>5, <2>6, <2>7, AttemptKept
<1>6. CASE FailAndRetry(w)
  <2> DEFINE r == [state |-> "queued", retries |-> Mine(w).retries + 1]
  <2>1. /\ pc[w] = "run" /\ Assign(w, r) /\ attempts' = [attempts EXCEPT ![job[w]] = @ + 1]
        /\ outcome' = outcome /\ Mine(w).retries + 1 < MaxRetries
        /\ pc' = [pc EXCEPT ![w] = "requeue"]
        /\ UNCHANGED <<submitting, cancelling, cancelled, job>>
    BY <1>6 DEF FailAndRetry, Goto, clientVars
  <2>2. pc[w] \in Recorded /\ job[w] \in Jobs /\ w \in Running(job[w])
    BY <2>1 DEF Recorded, Holding, Held, Running
  <2>3. outcome[job[w]] = "open"
    BY <2>2 DEF Placed, PlaceOf
  <2>4. Mine(w) \in JobRecord /\ Mine(w).retries \in Nat
        /\ Mine(w).retries <= attempts[job[w]] /\ attempts[job[w]] \in Nat
    BY <2>2, <2>3, MineHonest
  <2>5. r \in JobRecord /\ r.retries = Mine(w).retries + 1
    BY <2>4 DEF JobRecord, States
  <2> HIDE DEF r
  <2>6. r.retries <= attempts[job[w]] + 1 /\ r.retries < MaxRetries
    BY <2>1, <2>4, <2>5
  <2>7. \A v \in Workers : v # w => pc'[v] = pc[v]
    BY <1>0, <2>1
  <2> QED BY <2>1, <2>3, <2>5, <2>6, <2>7, AttemptKept
<1>7. CASE FailForGood(w)
  <2> DEFINE r == [state |-> "failed", retries |-> Mine(w).retries + 1]
  <2>1. /\ pc[w] = "run" /\ Assign(w, r) /\ attempts' = [attempts EXCEPT ![job[w]] = @ + 1]
        /\ outcome' = [outcome EXCEPT ![job[w]] = "exhausted"]
        /\ Mine(w).retries + 1 >= MaxRetries
        /\ pc' = [pc EXCEPT ![w] = "update"]
        /\ UNCHANGED <<submitting, cancelling, cancelled, job>>
    BY <1>7 DEF FailForGood, Goto, clientVars
  <2>2. pc[w] \in Recorded /\ job[w] \in Jobs /\ w \in Running(job[w])
    BY <2>1 DEF Recorded, Holding, Held, Running
  <2>3. outcome[job[w]] = "open"
    BY <2>2 DEF Placed, PlaceOf
  <2>4. Mine(w) \in JobRecord /\ Mine(w).retries \in Nat
        /\ Mine(w).retries <= attempts[job[w]] /\ attempts[job[w]] \in Nat
    BY <2>2, <2>3, MineHonest
  <2>5. r \in JobRecord /\ r.state = "failed" /\ r.retries = Mine(w).retries + 1
    BY <2>4 DEF JobRecord, States
  <2> HIDE DEF r
  <2>6. r.retries <= attempts[job[w]] + 1 /\ r.retries >= MaxRetries
    BY <2>1, <2>4, <2>5
  <2>7. /\ outcome'[job[w]] = "exhausted"
        /\ \A j \in Jobs : j # job[w] => outcome'[j] = outcome[j]
        /\ \A v \in Workers : v # w => pc'[v] = pc[v]
    BY <1>0, <2>1, <2>2 DEF TypeOK
  <2> QED BY <2>1, <2>5, <2>6, <2>7, AttemptKept
<1>8. CASE Requeue(w)
  <2>1. /\ pc[w] = "requeue" /\ Others(w)
        /\ store' = IF InMemory THEN [store EXCEPT ![job[w]].state = "queued"] ELSE Saved(w)
        /\ UNCHANGED <<cancelling, attempts, submitting, outcome, cancelled, copy, job>>
    BY <1>0, <1>8 DEF Requeue, Goto, Others, clientVars, history
  <2>2. pc[w] \in Recorded /\ job[w] \in Jobs /\ w \in Running(job[w])
    BY <2>1 DEF Recorded, Holding, Held, Running
  <2>3. outcome[job[w]] = "open" /\ submitting[job[w]] # "new"
    BY <2>2 DEF Placed, PlaceOf
  <2>4. \A v \in Workers : Copied(v)'
    BY <2>1, <2>2, CopiesStay DEF Others
  <2>5. CASE ~InMemory
    <3>1. \A j \in Jobs : Honest(j)'
      BY <2>1, <2>2, <2>5, SavedHonest
    <3> QED BY <2>4, <3>1, KeptIs
  <2>6. CASE InMemory
    <3> DEFINE r == [store[job[w]] EXCEPT !.state = "queued"]
    <3>1. store[job[w]] \in JobRecord /\ r.retries = store[job[w]].retries
      BY <2>2, <2>3, <2>6, Records DEF Held, States
    <3> HIDE DEF r
    <3>2. /\ store'[job[w]] = r /\ \A k \in Jobs : k # job[w] => store'[k] = store[k]
      BY <2>1, <2>2, <2>6 DEF TypeOK, r
    <3>3. ASSUME NEW k \in Jobs
          PROVE  Honest(k)'
      <4>1. Honest(k)
        BY KeptIs
      <4>2. CASE k = job[w]
        BY <2>1, <2>3, <2>6, <3>1, <3>2, <4>1, <4>2, NoJobAssumption DEF Honest
      <4>3. CASE k # job[w]
        BY <2>1, <3>2, <4>1, <4>3, AloneHonest DEF Alone
      <4> QED BY <4>2, <4>3
    <3> QED BY <2>4, <3>3, KeptIs
  <2> QED BY <2>5, <2>6
<1> QED BY <1>1, <1>2, <1>3, <1>4, <1>5, <1>6, <1>7, <1>8 DEF Step

LEMMA PoolKept ==
  ASSUME TypeOK, Held, Placed, Kept, InMemory' <=> InMemory, StartWorkers \/ StopWorkers \/ Crash
  PROVE  Kept'
<1>1. UNCHANGED <<store, clientVars, attempts>>
  BY DEF StartWorkers, StopWorkers, Crash, queueVars, history
<1>2. \A j \in Jobs : outcome'[j] \in {outcome[j], "lost"}
  BY DEF StartWorkers, StopWorkers, Crash, Lost, history
<1>3. ASSUME NEW j \in Jobs
      PROVE  Honest(j)'
  <2>1. Alone(j)
    BY <1>1, <1>2 DEF Alone, clientVars
  <2> QED BY <2>1, AloneHonest, KeptIs
<1>4. ASSUME NEW v \in Workers
      PROVE  Copied(v)'
  <2>1. CASE StartWorkers \/ StopWorkers
    <3>1. copy'[v] = copy[v] /\ job'[v] = job[v] /\ (pc'[v] \in Recorded => pc[v] \in Recorded)
      BY <2>1 DEF StartWorkers, StopWorkers, Recorded, Holding
    <3> QED BY <1>1, <3>1, CopiesStay
  <2>2. CASE Crash
    BY <2>2 DEF Crash, Copied, Recorded, Holding
  <2> QED BY <2>1, <2>2
<1> QED BY <1>3, <1>4, KeptIs

-----------------------------------------------------------------------------
(***************************************************************************)
(* The counter.                                                            *)
(***************************************************************************)
\* Cardinalities of sets of threads.
LEMMA ThreadSets ==
  ASSUME NEW S \in SUBSET Workers
  PROVE  /\ Cardinality(S) \in Nat
         /\ \A w \in Workers \ S : Cardinality(S \cup {w}) = Cardinality(S) + 1
         /\ \A w \in S : Cardinality(S \ {w}) = Cardinality(S) - 1
<1>1. IsFiniteSet(S) /\ Cardinality(S) \in Nat
  BY QueueConfigAssumption, FS_Subset, FS_CardinalityType
<1>2. \A w \in Workers \ S : Cardinality(S \cup {w}) = Cardinality(S) + 1
  BY <1>1, FS_AddElement
<1>3. \A w \in S : Cardinality(S \ {w}) = Cardinality(S) - 1
  BY <1>1, FS_RemoveElement
<1> QED BY <1>1, <1>2, <1>3

LEMMA BusyDoes ==
  /\ Busy \in SUBSET Workers
  /\ \A w \in Workers : (\A v \in Workers : v # w => pc'[v] = pc[v]) =>
       /\ pc'[w] \notin {"dead", "top", "polling"} => Busy' = Busy \cup {w}
       /\ pc'[w] \in {"dead", "top", "polling"} => Busy' = Busy \ {w}
BY DEF Busy

LEMMA ThreadCounted ==
  ASSUME TypeOK, ActiveNeverOverstates, NEW w \in Workers, Step(w) \/ RedisError(w)
  PROVE  ActiveNeverOverstates'
<1> USE QueueConfigAssumption
<1>0. /\ pc \in [Workers -> {"dead", "top", "dequeue", "fetch", "claim", "run", "requeue",
                             "confirm", "update", "notify", "finally", "empty", "polling"}]
      /\ active \in Int /\ Floor <= active /\ active <= Cardinality(Busy)
      /\ Cardinality(Busy) \in Nat
  BY BusyDoes, ThreadSets DEF TypeOK, ActiveNeverOverstates
<1>1. \A v \in Workers : v # w => pc'[v] = pc[v]
  BY <1>0 DEF Step, Leave, Enter, Dequeue, Pop, Fetch, Claim, Poll, WakeUp, Miss, CountOut, Succeed, FailAndRetry,
              FailForGood, Requeue, Confirm, Update, Notify, Finally, RedisError, Goto
<1>2. CASE Enter(w)
  <2>1. active' = active + 1 /\ w \notin Busy /\ pc'[w] = "dequeue"
    BY <1>0, <1>2 DEF Enter, Goto, Busy
  <2>2. Busy' = Busy \cup {w}
    BY <1>1, <2>1, BusyDoes
  <2>3. Cardinality(Busy') = Cardinality(Busy) + 1
    BY <2>1, <2>2, BusyDoes, ThreadSets
  <2> QED BY <1>0, <2>1, <2>3 DEF ActiveNeverOverstates
<1>3. CASE Finally(w) \/ RedisError(w)
  <2>1. active' = Decremented /\ w \in Busy /\ pc'[w] \in {"top", "dead"}
    BY <1>0, <1>3 DEF Finally, RedisError, LetGo, Goto, Busy
  <2>2. Busy' = Busy \ {w}
    BY <1>1, <2>1, BusyDoes
  <2>3. Cardinality(Busy') = Cardinality(Busy) - 1 /\ Cardinality(Busy') \in Nat
    BY <2>1, <2>2, BusyDoes, ThreadSets
  <2> QED BY <1>0, <2>1, <2>3 DEF ActiveNeverOverstates, Decremented
<1>4. CASE CountOut(w)
  <2>1. active' = Decremented /\ w \in Busy /\ pc'[w] = "finally"
    BY <1>0, <1>4 DEF CountOut, EmptyHanded, Goto, Busy
  <2>2. Busy' = Busy \cup {w}
    BY <1>1, <2>1, BusyDoes
  <2>3. Busy' = Busy
    BY <2>1, <2>2
  <2> QED BY <1>0, <2>1, <2>3 DEF ActiveNeverOverstates, Decremented
<1>5. CASE Leave(w) \/ Poll(w) \/ WakeUp(w)
  <2>1. active' = active /\ w \notin Busy /\ pc'[w] \in {"dead", "top", "polling"}
    BY <1>0, <1>5 DEF Leave, Poll, WakeUp, Goto, Busy
  <2>2. Busy' = Busy \ {w}
    BY <1>1, <2>1, BusyDoes
  <2>3. Busy' = Busy
    BY <2>1, <2>2
  <2> QED BY <1>0, <2>1, <2>3 DEF ActiveNeverOverstates
<1>6. CASE Dequeue(w) \/ Pop(w) \/ Fetch(w) \/ Claim(w) \/ Succeed(w) \/ FailAndRetry(w)
           \/ FailForGood(w) \/ Requeue(w) \/ Confirm(w) \/ Update(w) \/ Miss(w) \/ Notify(w)
  <2>1. active' = active /\ w \in Busy /\ pc'[w] \notin {"dead", "top", "polling"}
    BY <1>0, <1>6 DEF Dequeue, Pop, Fetch, Claim, Succeed, FailAndRetry, FailForGood, Requeue,
                      Confirm, Update, Miss, Notify, Goto, Busy
  <2>2. Busy' = Busy
    BY <1>1, <2>1, BusyDoes
  <2> QED BY <1>0, <2>1, <2>2 DEF ActiveNeverOverstates
<1> QED BY <1>2, <1>3, <1>4, <1>5, <1>6 DEF Step

LEMMA PoolCounted ==
  ASSUME TypeOK, ActiveNeverOverstates, StartWorkers \/ StopWorkers \/ Crash
  PROVE  ActiveNeverOverstates'
<1>1. CASE StartWorkers \/ StopWorkers
  <2>1. Busy' = Busy /\ active' = active
    BY <1>1 DEF StartWorkers, StopWorkers, Busy
  <2> QED BY <2>1 DEF ActiveNeverOverstates
<1>2. CASE Crash
  <2>1. Busy' = {} /\ active' = 0
    BY <1>2 DEF Crash, Busy
  <2> QED BY <2>1, FS_EmptySet DEF ActiveNeverOverstates
<1> QED BY <1>1, <1>2

-----------------------------------------------------------------------------
LEMMA InitQueueInv == Init => QueueInv
<1> SUFFICES ASSUME Init PROVE QueueInv
  OBVIOUS
<1> USE QueueConfigAssumption
<1>1. <<>> \in Seq(Jobs) /\ DOMAIN <<>> = {}
  OBVIOUS
<1>2. setup.trouble \in Nat
  BY DEF Init
<1>3. TypeOK
  <2>1. queue \in [Lists -> Seq(Jobs)]
    BY <1>1 DEF Init
  <2>2. active \in Floor .. MaxConcurrent /\ trouble \in 0 .. setup.trouble
    BY <1>2 DEF Init
  <2>3. /\ pc \in [Workers -> {"dead", "top", "dequeue", "fetch", "claim", "run", "requeue",
                             "confirm", "update", "notify", "finally", "empty", "polling"}]
        /\ job \in [Workers -> Jobs \cup {NoJob}] /\ scan \in [Workers -> 0 .. Levels]
        /\ copy \in [Workers -> JobRecord \cup {NoJob}]
    BY DEF Init
  <2>4. /\ setup \in Setups /\ store \in [Jobs -> JobRecord \cup {NoJob}]
        /\ submitting \in [Jobs -> {"new", "confirm", "known", "raised"}]
        /\ cancelling \in [Jobs -> JobRecord \cup {NoJob}]
        /\ attempts \in [Jobs -> Nat]
        /\ outcome \in [Jobs -> {"open", "succeeded", "exhausted", "lost"}]
        /\ told \subseteq Jobs /\ cancelled \subseteq Jobs /\ stopped \in BOOLEAN
    BY DEF Init
  <2> QED BY <2>1, <2>2, <2>3, <2>4 DEF TypeOK
<1>4. Held
  BY DEF Init, Held, Holding, Recorded
<1>5. Placed
  <2>1. \A p \in Lists : DOMAIN queue[p] = {}
    BY <1>1 DEF Init
  <2>2. ASSUME NEW j \in Jobs
        PROVE  PlaceOf(j)
    <3>1. Running(j) = {} /\ ~InList(j)
      BY <2>1 DEF Init, Running, InList, Lists
    <3> QED BY <3>1 DEF Init, PlaceOf
  <2> QED BY <2>1, <2>2 DEF Placed, Sorted, Unique
<1>6. Counted /\ RetriesBounded /\ ResultKept
  BY DEF Init, Counted, RetriesBounded, ResultKept, Recorded, Holding
<1>7. ActiveNeverOverstates
  <2>1. Busy = {} /\ active = 0
    BY DEF Init, Busy
  <2> QED BY <2>1, FS_EmptySet DEF ActiveNeverOverstates
<1> QED BY <1>3, <1>4, <1>5, <1>6, <1>7 DEF QueueInv

LEMMA NextQueueInv == QueueInv /\ [Next]_vars => QueueInv'
<1> SUFFICES ASSUME QueueInv, [Next]_vars PROVE QueueInv'
  OBVIOUS
<1>0. setup' = setup /\ (InMemory' <=> InMemory)
  BY BackendKept
<1>1. TypeOK /\ Held /\ Placed /\ Kept /\ ActiveNeverOverstates
  BY DEF QueueInv, Kept
<1>2. ASSUME NEW j \in setup.jobs, Submit(j) \/ Cancel(j) \/ Expire(j)
      PROVE  QueueInv'
  <2>1. j \in Jobs
    BY <1>1, QueueConfigAssumption DEF TypeOK
  <2>2. active' = active /\ pc' = pc
    BY <1>2 DEF Submit, SubmitInMemory, SubmitPushes, SubmitConfirms, SubmitRaises, Cancel,
                CancelReads, CancelWrites, Expire, threadVars
  <2>3. ActiveNeverOverstates'
    BY <1>1, <2>2 DEF ActiveNeverOverstates, Busy
  <2>4. TypeOK' /\ Held'
    BY <1>0, <1>1, <1>2, <2>1, ClientHeld
  <2>5. Placed'
    BY <1>0, <1>1, <1>2, <2>1, ClientPlaced
  <2>6. Kept'
    BY <1>0, <1>1, <1>2, <2>1, ClientKept
  <2> QED BY <2>3, <2>4, <2>5, <2>6 DEF QueueInv, Kept
<1>3. ASSUME NEW w \in Workers, Step(w) \/ RedisError(w)
      PROVE  QueueInv'
  <2>1. TypeOK' /\ Held'
    BY <1>0, <1>1, <1>3, ThreadHeld
  <2>2. Placed'
    BY <1>0, <1>1, <1>3, ThreadPlaced
  <2>3. Kept'
    BY <1>0, <1>1, <1>3, ThreadKept
  <2>4. ActiveNeverOverstates'
    BY <1>1, <1>3, ThreadCounted
  <2> QED BY <2>1, <2>2, <2>3, <2>4 DEF QueueInv, Kept
<1>4. CASE StartWorkers \/ StopWorkers \/ Crash
  <2>1. TypeOK' /\ Held'
    BY <1>0, <1>1, <1>4, PoolHeld
  <2>2. Placed' /\ Kept' /\ ActiveNeverOverstates'
    BY <1>0, <1>1, <1>4, PoolPlaced, PoolKept, PoolCounted
  <2> QED BY <2>1, <2>2 DEF QueueInv, Kept
<1>5. CASE UNCHANGED vars
  <2>1. UNCHANGED <<queueVars, clientVars, threadVars, trouble, history>>
    BY <1>5 DEF vars
  <2>2. TypeOK' /\ Held'
    BY <1>0, <1>1, <2>1 DEF TypeOK, Held, queueVars, clientVars, threadVars, history
  <2>3. Placed'
    BY <1>1, <2>1, PlacesStay DEF Submitting, queueVars, clientVars, threadVars, history
  <2>4. \A j \in Jobs : Alone(j)
    BY <2>1 DEF Alone, queueVars, clientVars, history
  <2>5. Kept'
    <3>1. \A j \in Jobs : Honest(j)'
      BY <1>0, <1>1, <2>4, AloneHonest, KeptIs
    <3>2. \A w \in Workers : Copied(w)'
      BY <1>0, <1>1, <2>1, CopiesStay DEF threadVars, history
    <3> QED BY <3>1, <3>2, KeptIs
  <2>6. ActiveNeverOverstates'
    BY <1>1, <2>1 DEF ActiveNeverOverstates, Busy, threadVars
  <2> QED BY <2>2, <2>3, <2>5, <2>6 DEF QueueInv, Kept
<1> QED BY <1>2, <1>3, <1>4, <1>5 DEF Next

LEMMA QueueInvKept == Spec => []QueueInv
BY InitQueueInv, NextQueueInv, PTL DEF Spec

-----------------------------------------------------------------------------
(***************************************************************************)
(* What the queue promises.                                                *)
(***************************************************************************)
\* The types of the queue's variables, with the counter between its bounds.
THEOREM QueueTypesKept == Spec => []TypeOK
<1>1. QueueInv => TypeOK
  BY DEF QueueInv
<1> QED BY <1>1, QueueInvKept, PTL

\* The places of a job, counted: what PlaceOf says with sets.
LEMMA PlacesCounted == TypeOK /\ Placed => OnePlace
<1> SUFFICES ASSUME TypeOK, Placed, NEW j \in Jobs
             PROVE  Places(j) <= 1 /\ (submitting[j] = "known" => Places(j) = 1)
  BY DEF OnePlace
<1> DEFINE settled == IF outcome[j] = "open" THEN 0 ELSE 1
<1>0. PlaceOf(j) /\ Prio[j] \in Lists
  BY DEF Placed, Lists
<1>1. /\ InList(j) => Cardinality(Waiting(j)) = 1
      /\ ~InList(j) => Cardinality(Waiting(j)) = 0
  <2>1. CASE InList(j)
    <3>1. PICK i \in DOMAIN queue[Prio[j]] : queue[Prio[j]][i] = j
      BY <2>1 DEF InList
    <3>2. \A p \in Lists : \A k \in DOMAIN queue[p] :
            queue[p][k] = j => p = Prio[j] /\ k = i
      BY <3>1 DEF Placed, Sorted, Unique
    <3>3. Waiting(j) = {<<Prio[j], i>>}
      BY <1>0, <3>1, <3>2 DEF Waiting
    <3> QED BY <2>1, <3>3, FS_Singleton
  <2>2. CASE ~InList(j)
    <3>1. \A p \in Lists : \A k \in DOMAIN queue[p] : queue[p][k] # j
      BY <2>2 DEF Placed, Sorted, InList
    <3>2. Waiting(j) = {}
      BY <3>1 DEF Waiting
    <3> QED BY <2>2, <3>2, FS_EmptySet
  <2> QED BY <2>1, <2>2
<1>2. /\ Running(j) # {} => Cardinality(Running(j)) = 1
      /\ Running(j) = {} => Cardinality(Running(j)) = 0
  <2>1. CASE Running(j) # {}
    <3>1. PICK w \in Running(j) : Running(j) = {w}
      BY <1>0, <2>1 DEF PlaceOf
    <3> QED BY <2>1, <3>1, FS_Singleton
  <2> QED BY <2>1, FS_EmptySet
<1>3. Places(j) = Cardinality(Waiting(j)) + Cardinality(Running(j)) + settled
  BY DEF Places
<1> HIDE DEF settled
<1>4. (outcome[j] = "open" => settled = 0) /\ (outcome[j] # "open" => settled = 1)
  BY DEF settled
<1>5. CASE InList(j)
  <2>1. Running(j) = {} /\ outcome[j] = "open"
    BY <1>0, <1>5 DEF PlaceOf
  <2> QED BY <1>1, <1>2, <1>3, <1>4, <1>5, <2>1
<1>6. CASE ~InList(j) /\ Running(j) # {}
  <2>1. outcome[j] = "open"
    BY <1>0, <1>6 DEF PlaceOf
  <2> QED BY <1>1, <1>2, <1>3, <1>4, <1>6, <2>1
<1>7. CASE ~InList(j) /\ Running(j) = {}
  <2>1. submitting[j] = "known" => outcome[j] # "open"
    BY <1>0, <1>7 DEF PlaceOf
  <2>2. Places(j) = settled
    BY <1>1, <1>2, <1>3, <1>4, <1>7
  <2> QED BY <1>4, <2>1, <2>2
<1> QED BY <1>5, <1>6, <1>7

\* No job is lost silently, queued twice or run by two threads; none is given up before
\* its last attempt, in memory none has one too many and no late update_job changes a
\* result; the counter of the limit claims no thread that has left.
THEOREM JobsKept == Spec => []JobsAccounted
<1>1. QueueInv => JobsAccounted
  BY PlacesCounted DEF QueueInv, JobsAccounted
<1> QED BY <1>1, QueueInvKept, PTL

\* In memory a thread takes no job while one of higher priority waits.
THEOREM HighestTaken == Spec => HighestFirst
<1> DEFINE Ordered == \A w \in Workers : InMemory /\ job[w] = NoJob /\ job'[w] # NoJob =>
                        \A p \in Ranks : queue[p] # <<>> => Prio[job'[w]] <= p
<1>1. QueueInv /\ [Next]_vars => [Ordered]_vars
  <2> SUFFICES ASSUME QueueInv, Next, NEW w \in Workers, InMemory, job[w] = NoJob,
                      job'[w] # NoJob, NEW p \in Ranks, queue[p] # <<>>
               PROVE  Prio[job'[w]] <= p
    OBVIOUS
  <2> USE QueueConfigAssumption
  <2>0. TypeOK /\ Placed
    BY DEF QueueInv
  <2>1. Dequeue(w)
    <3>1. CASE \E j \in setup.jobs : Submit(j) \/ Cancel(j) \/ Expire(j)
      BY <3>1 DEF Submit, SubmitInMemory, SubmitPushes, SubmitConfirms, SubmitRaises, Cancel,
                  CancelReads, CancelWrites, Expire, threadVars
    <3>2. ASSUME NEW v \in Workers, Step(v) \/ RedisError(v)
          PROVE  Dequeue(w)
      <4>1. CASE Dequeue(v)
        <5>1. v = w
          BY <2>0, <4>1 DEF Dequeue, TypeOK
        <5> QED BY <4>1, <5>1
      <4>2. CASE Leave(v) \/ Enter(v) \/ Poll(v) \/ WakeUp(v) \/ Pop(v) \/ Claim(v) \/ Miss(v) \/ Succeed(v)
                 \/ FailAndRetry(v) \/ FailForGood(v) \/ Requeue(v) \/ Confirm(v) \/ Update(v) \/ Finally(v)
        BY <4>2 DEF Leave, Enter, Poll, WakeUp, Finally, Pop, Claim, Miss, Succeed, FailAndRetry, FailForGood, Requeue,
                    Confirm, Update
      <4>3. CASE Fetch(v) \/ Notify(v) \/ CountOut(v) \/ RedisError(v)
        BY <2>0, <4>3 DEF Fetch, Notify, CountOut, RedisError, LetGo, TypeOK
      <4> QED BY <3>2, <4>1, <4>2, <4>3 DEF Step
    <3>3. CASE StartWorkers \/ StopWorkers \/ Crash
      BY <3>3 DEF StartWorkers, StopWorkers, Crash
    <3> QED BY <3>1, <3>2, <3>3 DEF Next
  <2>2. PICK q \in Ranks :
          /\ queue[q] # <<>> /\ \A k \in 0 .. (q - 1) : queue[k] = <<>>
          /\ queue' = [queue EXCEPT ![q] = Tail(@)]
          /\ job' = [job EXCEPT ![w] = Head(queue[q])]
    BY <2>1 DEF Dequeue
  <2>3. Prio[Head(queue[q])] = q
    BY <2>0, <2>2, Popped DEF Placed, Lists
  <2>4. job'[w] = Head(queue[q])
    BY <2>0, <2>2 DEF TypeOK
  <2>5. q <= p
    BY <2>2 DEF Ranks
  <2> QED BY <2>3, <2>4, <2>5
<1>2. Spec => [][Ordered]_vars
  BY <1>1, QueueInvKept, PTL DEF Spec
<1> QED BY <1>2 DEF HighestFirst
=============================================================================
