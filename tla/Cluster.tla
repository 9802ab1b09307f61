------------------------------ MODULE Cluster ------------------------------
(***************************************************************************)
(* Client-side load balancing over synthesis nodes                         *)
(* (voice_soundboard/distributed/cluster.py): threads that call            *)
(* synthesize(), the health-check thread, and a host that adds and removes *)
(* nodes.                                                                  *)
(*                                                                         *)
(* A step is one bytecode-atomic access of the shared node list and node   *)
(* counters, or one reply from the network.                                *)
(***************************************************************************)
EXTENDS Naturals, Sequences, SequencesExt, FiniteSets, Functions,
        SequenceTheorems, FiniteSetTheorems, TLAPS

CONSTANTS
  Calls,               \* synthesize() calls, one thread each (batch_synthesize)
  FirstNodes, Spare,   \* nodes at the start; nodes the host may add
  Strategy,            \* "round_robin", "least_connections" or "random"
  MaxRetries,          \* max_retries
  Failover,            \* failover_enabled
  Unhealthy, Healthy,  \* unhealthy_threshold, healthy_threshold
  Wrap                 \* bound of the round-robin index: it is only read modulo the
                       \* number of candidates, of which Wrap is a multiple

VARIABLES
  nodes,        \* _nodes
  status,       \* ClusterNode.status
  failures,     \* consecutive_failures, up to the threshold, or NoKey
  successes,    \* consecutive_successes, up to the threshold, or NoKey
  checking,     \* the health-check thread is alive
  rrIndex,      \* _round_robin_index, modulo Wrap
  connections,  \* ClusterNode.active_connections
  task          \* the calls: [pc, node, tried, retries]

clusterVars == <<nodes, status, failures, successes, checking, rrIndex, connections, task>>

Nodes == Range(FirstNodes) \cup Spare
None == "none"
NoKey == 1000  \* no entry in the thread's dictionary
Cap(n, limit) == IF n > limit THEN limit ELSE n

-----------------------------------------------------------------------------
(***************************************************************************)
(* _select_node.                                                           *)
(***************************************************************************)
\* The healthy nodes, or all of them when there is none.
Candidates ==
  LET healthy == SelectSeq(nodes, LAMBDA n : status[n] = "healthy")
  IN IF healthy # <<>> THEN healthy ELSE nodes

\* What the strategy may pick (least_latency and weighted: any, like random).
Selected(n) ==
  CASE Strategy = "round_robin" -> n = Candidates[1 + (rrIndex % Len(Candidates))]
    [] Strategy = "least_connections" ->
         /\ n \in Range(Candidates)
         /\ \A m \in Range(Candidates) : connections[n] <= connections[m]
    [] OTHER -> n \in Range(Candidates)

Advance == rrIndex' = IF Strategy = "round_robin" THEN (rrIndex + 1) % Wrap ELSE rrIndex

-----------------------------------------------------------------------------
(***************************************************************************)
(* synthesize.                                                             *)
(***************************************************************************)
Begin(c) ==
  /\ task[c].pc = "idle"
  /\ task' = [task EXCEPT ![c].pc = "choosing"]
  /\ UNCHANGED <<nodes, status, failures, successes, checking, rrIndex, connections>>

NoNode(c) ==
  /\ task[c].pc = "choosing" /\ nodes = <<>>
  /\ task' = [task EXCEPT ![c].pc = "failed"]
  /\ UNCHANGED <<nodes, status, failures, successes, checking, rrIndex, connections>>

\* The node was tried before, and not all have been: choose again, at once.
Skip(c) ==
  /\ task[c].pc = "choosing" /\ nodes # <<>>
  /\ \E n \in task[c].tried : Selected(n)
  /\ Cardinality(task[c].tried) < Len(nodes)
  /\ Advance
  /\ UNCHANGED <<nodes, status, failures, successes, checking, connections, task>>

Send(c) ==
  /\ task[c].pc = "choosing" /\ nodes # <<>>
  /\ \E n \in Nodes :
       /\ Selected(n)
       /\ n \notin task[c].tried \/ Cardinality(task[c].tried) >= Len(nodes)
       /\ task' = [task EXCEPT ![c].pc = "sending", ![c].node = n, ![c].tried = @ \cup {n}]
       /\ connections' = [connections EXCEPT ![n] = @ + 1]
  /\ Advance
  /\ UNCHANGED <<nodes, status, failures, successes, checking>>

Reply(c) ==
  /\ task[c].pc = "sending"
  /\ task' = [task EXCEPT ![c].pc = "done", ![c].node = None]
  /\ connections' = [connections EXCEPT ![task[c].node] = @ - 1]
  /\ UNCHANGED <<nodes, status, failures, successes, checking, rrIndex>>

\* Mutant: the connection is given back only when the call ends.
Fail_KeepsConnection(c) ==
  LET retry == Failover /\ task[c].retries < MaxRetries IN
  /\ task[c].pc = "sending"
  /\ task' = [task EXCEPT ![c].pc = IF retry THEN "choosing" ELSE "failed", ![c].node = None,
                          ![c].retries = IF Failover THEN @ + 1 ELSE @]
  /\ connections' = IF retry THEN connections
                    ELSE [connections EXCEPT ![task[c].node] = @ - 1]
  /\ UNCHANGED <<nodes, status, failures, successes, checking, rrIndex>>

\* An error of any kind: another try, as long as there are some left.
Fail(c) ==
  LET retry == Failover /\ task[c].retries < MaxRetries IN
  /\ task[c].pc = "sending"
  /\ task' = [task EXCEPT ![c].pc = IF retry THEN "choosing" ELSE "failed", ![c].node = None,
                          ![c].retries = IF Failover THEN @ + 1 ELSE @]
  /\ connections' = [connections EXCEPT ![task[c].node] = @ - 1]
  /\ UNCHANGED <<nodes, status, failures, successes, checking, rrIndex>>

-----------------------------------------------------------------------------
(***************************************************************************)
(* The health-check thread: one check of one node of the list.             *)
(***************************************************************************)
Check(n) == checking /\ n \in Range(nodes)
Verdict(f) == IF f >= Unhealthy THEN "unhealthy" ELSE "degraded"

\* A node without a key in successes (one that was added) raises, after the
\* reset of its failures: the except branch counts a failure.
CheckHealthy(n) ==
  /\ Check(n)
  /\ IF successes[n] = NoKey
     THEN /\ failures' = [failures EXCEPT ![n] = 1]
          /\ status' = [status EXCEPT ![n] = IF 1 >= Unhealthy THEN "unhealthy" ELSE @]
          /\ UNCHANGED successes
     ELSE /\ failures' = [failures EXCEPT ![n] = 0]
          /\ successes' = [successes EXCEPT ![n] = Cap(@ + 1, Healthy)]
          /\ status' = [status EXCEPT ![n] = IF successes[n] + 1 >= Healthy THEN "healthy" ELSE @]
  /\ UNCHANGED <<nodes, checking, rrIndex, connections, task>>

\* No, or not in time.  Without a key in failures the except branch raises too,
\* and the thread ends.
CheckFailed(n) ==
  /\ Check(n)
  /\ successes' = [successes EXCEPT ![n] = 0]
  /\ IF failures[n] = NoKey
     THEN checking' = FALSE /\ UNCHANGED <<failures, status>>
     ELSE /\ failures' = [failures EXCEPT ![n] = Cap(@ + 1, Unhealthy)]
          /\ status' = [status EXCEPT ![n] = Verdict(failures[n] + 1)]
          /\ UNCHANGED checking
  /\ UNCHANGED <<nodes, rrIndex, connections, task>>

\* Any other exception of the check: a failure, but the successes stay.
CheckRaised(n) ==
  /\ Check(n)
  /\ IF failures[n] = NoKey
     THEN checking' = FALSE /\ UNCHANGED <<failures, status>>
     ELSE /\ failures' = [failures EXCEPT ![n] = Cap(@ + 1, Unhealthy)]
          /\ status' = [status EXCEPT ![n] = IF failures[n] + 1 >= Unhealthy THEN "unhealthy" ELSE @]
          /\ UNCHANGED checking
  /\ UNCHANGED <<nodes, successes, rrIndex, connections, task>>

Shutdown ==
  /\ checking /\ checking' = FALSE
  /\ UNCHANGED <<nodes, status, failures, successes, rrIndex, connections, task>>

-----------------------------------------------------------------------------
AddNode ==
  /\ \E n \in Spare : /\ n \notin Range(nodes)
                      /\ connections[n] = 0 /\ status[n] = "unknown" /\ failures[n] = NoKey
                      /\ nodes' = Append(nodes, n)
  /\ UNCHANGED <<status, failures, successes, checking, rrIndex, connections, task>>

RemoveNode ==
  /\ \E i \in DOMAIN nodes : nodes' = RemoveAt(nodes, i)
  /\ UNCHANGED <<status, failures, successes, checking, rrIndex, connections, task>>

Init ==
  /\ nodes = FirstNodes
  /\ status = [n \in Nodes |-> "unknown"]
  /\ failures = [n \in Nodes |-> IF n \in Spare THEN NoKey ELSE 0]
  /\ successes = failures
  /\ checking = TRUE
  /\ rrIndex = 0
  /\ connections = [n \in Nodes |-> 0]
  /\ task = [c \in Calls |-> [pc |-> "idle", node |-> None, tried |-> {}, retries |-> 0]]

CallStep(c) == NoNode(c) \/ Skip(c) \/ Send(c) \/ Reply(c) \/ Fail(c)
HealthStep == \E n \in Nodes : CheckHealthy(n) \/ CheckFailed(n) \/ CheckRaised(n)

Next ==
  \/ \E c \in Calls : Begin(c) \/ CallStep(c)
  \/ HealthStep \/ Shutdown \/ AddNode \/ RemoveNode

Spec == Init /\ [][Next]_clusterVars

-----------------------------------------------------------------------------
\* Type invariant.
TypeOK ==
  /\ nodes \in Seq(Nodes) /\ IsInjective(nodes)
  /\ status \in [Nodes -> {"unknown", "healthy", "degraded", "unhealthy"}]
  /\ failures \in [Nodes -> 0..Unhealthy \cup {NoKey}]
  /\ successes \in [Nodes -> 0..Healthy \cup {NoKey}]
  /\ checking \in BOOLEAN /\ rrIndex \in 0..(Wrap - 1)
  /\ connections \in [Nodes -> 0..Cardinality(Calls)]
  /\ task \in [Calls -> [pc : {"idle", "choosing", "sending", "done", "failed"},
                         node : Nodes \cup {None}, tried : SUBSET Nodes,
                         retries : 0..(MaxRetries + 1)]]

\* A connection is counted exactly while a call is at the node: errors, retries
\* and the removal of the node included.
ConnectionsCounted ==
  \A n \in Nodes :
    connections[n] = Cardinality({c \in Calls : task[c].pc = "sending" /\ task[c].node = n})

-----------------------------------------------------------------------------
(***************************************************************************)
(* The proofs, for every number of calls and nodes and every strategy.     *)
(***************************************************************************)
ClusterConfig ==
  /\ IsFiniteSet(Calls)
  /\ FirstNodes \in Seq(Range(FirstNodes)) /\ IsInjective(FirstNodes)
  /\ MaxRetries \in Nat /\ Healthy \in Nat
  /\ Unhealthy \in Nat \ {0} /\ Wrap \in Nat \ {0}

\* The calls that are at node n.
AtNode(n) == {c \in Calls : task[c].pc = "sending" /\ task[c].node = n}

\* A call that is at a node knows which, and one that is not over has retries left.
CallsPlaced ==
  \A c \in Calls : /\ task[c].pc = "sending" => task[c].node \in Nodes
                   /\ task[c].pc \notin {"done", "failed"} => task[c].retries <= MaxRetries

\* The inductive invariant.
ClusterInv == TypeOK /\ CallsPlaced /\ ConnectionsCounted

Task == [pc : {"idle", "choosing", "sending", "done", "failed"}, node : Nodes \cup {None},
         tried : SUBSET Nodes, retries : 0..(MaxRetries + 1)]

\* There are no more calls at a node than calls.
LEMMA CountType ==
  ASSUME ClusterConfig, NEW S \in SUBSET Calls
  PROVE  Cardinality(S) \in 0..Cardinality(Calls)
<1>1. Cardinality(S) \in Nat /\ Cardinality(Calls) \in Nat /\ Cardinality(S) <= Cardinality(Calls)
  BY FS_Subset, FS_CardinalityType DEF ClusterConfig
<1> QED
  BY <1>1

\* A call whose record changes leaves the others where they are.
LEMMA OthersStay ==
  ASSUME NEW c \in Calls, \A d \in Calls \ {c} : task'[d] = task[d]
  PROVE  \A n : AtNode(n)' \ {c} = AtNode(n) \ {c}
BY DEF AtNode

\* It is counted where it arrives, ...
LEMMA ArrivalCounted ==
  ASSUME ClusterConfig, ClusterInv, NEW c \in Calls, NEW n \in Nodes,
         task[c].pc # "sending",
         \A d \in Calls \ {c} : task'[d] = task[d],
         task'[c].pc = "sending", task'[c].node = n,
         connections' = [connections EXCEPT ![n] = @ + 1]
  PROVE  ConnectionsCounted'
<1> SUFFICES ASSUME NEW m \in Nodes PROVE connections'[m] = Cardinality(AtNode(m)')
  BY DEF ConnectionsCounted, AtNode
<1>1. connections[m] = Cardinality(AtNode(m)) /\ connections \in [Nodes -> 0..Cardinality(Calls)]
  BY DEF ClusterInv, TypeOK, ConnectionsCounted, AtNode
<1>2. IsFiniteSet(AtNode(m)) /\ c \notin AtNode(m)
  BY FS_Subset DEF AtNode, ClusterConfig
<1>3. AtNode(m)' \ {c} = AtNode(m)
  BY <1>2, OthersStay
<1>4. CASE m = n
  <2>1. AtNode(m)' = AtNode(m) \cup {c}
    BY <1>3, <1>4 DEF AtNode
  <2>2. Cardinality(AtNode(m)') = Cardinality(AtNode(m)) + 1
    BY <1>2, <2>1, FS_AddElement
  <2> QED
    BY <1>1, <1>4, <2>2
<1>5. CASE m # n
  <2>1. AtNode(m)' = AtNode(m)
    BY <1>3, <1>5 DEF AtNode
  <2> QED
    BY <1>1, <1>5, <2>1
<1> QED
  BY <1>4, <1>5

\* ... and no longer where it leaves.
LEMMA DepartureCounted ==
  ASSUME ClusterConfig, ClusterInv, NEW c \in Calls,
         task[c].pc = "sending",
         \A d \in Calls \ {c} : task'[d] = task[d],
         task'[c].pc # "sending",
         connections' = [connections EXCEPT ![task[c].node] = @ - 1]
  PROVE  ConnectionsCounted'
<1> SUFFICES ASSUME NEW m \in Nodes PROVE connections'[m] = Cardinality(AtNode(m)')
  BY DEF ConnectionsCounted, AtNode
<1>1. connections[m] = Cardinality(AtNode(m)) /\ connections \in [Nodes -> 0..Cardinality(Calls)]
  BY DEF ClusterInv, TypeOK, ConnectionsCounted, AtNode
<1>2. IsFiniteSet(AtNode(m))
  BY FS_Subset DEF AtNode, ClusterConfig
<1>3. AtNode(m)' = AtNode(m) \ {c}
  <2>1. c \notin AtNode(m)'
    BY DEF AtNode
  <2> QED
    BY <2>1, OthersStay
<1>4. CASE m = task[c].node
  <2>1. c \in AtNode(m)
    BY <1>4 DEF AtNode
  <2>2. Cardinality(AtNode(m)') = Cardinality(AtNode(m)) - 1
    BY <1>2, <1>3, <2>1, FS_RemoveElement
  <2> QED
    BY <1>1, <1>4, <2>2
<1>5. CASE m # task[c].node
  <2>1. AtNode(m)' = AtNode(m)
    BY <1>3, <1>5 DEF AtNode
  <2> QED
    BY <1>1, <1>5, <2>1
<1> QED
  BY <1>4, <1>5

\* A call that neither arrives nor leaves, or no call, changes no count.
LEMMA NothingCounted ==
  ASSUME ConnectionsCounted, UNCHANGED connections,
         \A c \in Calls : \/ task'[c] = task[c]
                          \/ task[c].pc # "sending" /\ task'[c].pc # "sending"
  PROVE  ConnectionsCounted'
<1>1. \A n \in Nodes : AtNode(n)' = AtNode(n)
  BY DEF AtNode
<1> QED
  BY <1>1 DEF ConnectionsCounted, AtNode

LEMMA ClusterInit == ClusterConfig /\ Init => ClusterInv
<1> SUFFICES ASSUME ClusterConfig, Init PROVE ClusterInv
  OBVIOUS
<1> USE DEF Init
<1>1. ConnectionsCounted
  <2>1. \A n \in Nodes : AtNode(n) = {}
    BY DEF AtNode
  <2>2. \A n \in Nodes : connections[n] = 0 /\ Cardinality(AtNode(n)) = 0
    BY <2>1, FS_EmptySet
  <2> QED
    BY <2>2 DEF ConnectionsCounted, AtNode
<1>2. connections \in [Nodes -> 0..Cardinality(Calls)]
  BY FS_CardinalityType DEF ClusterConfig
<1>3. nodes \in Seq(Nodes) /\ IsInjective(nodes)
  BY DEF ClusterConfig, Nodes
<1>4. failures \in [Nodes -> 0..Unhealthy \cup {NoKey}]
  BY DEF ClusterConfig
<1>5. successes \in [Nodes -> 0..Healthy \cup {NoKey}]
  BY DEF ClusterConfig
<1>6. task \in [Calls -> Task] /\ CallsPlaced
  BY DEF ClusterConfig, Task, CallsPlaced
<1>7. /\ status \in [Nodes -> {"unknown", "healthy", "degraded", "unhealthy"}]
      /\ checking \in BOOLEAN /\ rrIndex \in 0..(Wrap - 1)
  BY DEF ClusterConfig
<1> QED
  BY <1>1, <1>2, <1>3, <1>4, <1>5, <1>6, <1>7 DEF ClusterInv, TypeOK, Task

\* The round-robin index stays below its bound.
LEMMA AdvanceType ==
  ASSUME ClusterConfig, rrIndex \in 0..(Wrap - 1), Advance
  PROVE  rrIndex' \in 0..(Wrap - 1)
<1>1. (rrIndex + 1) % Wrap \in 0..(Wrap - 1)
  BY DEF ClusterConfig
<1> QED
  BY <1>1 DEF Advance

\* What one call's step has to keep of the other calls' records.
LEMMA TaskKept ==
  ASSUME ClusterInv, NEW c \in Calls, NEW t \in Task, task' = [task EXCEPT ![c] = t],
         t.pc = "sending" => t.node \in Nodes,
         t.pc \notin {"done", "failed"} => t.retries <= MaxRetries
  PROVE  /\ task' \in [Calls -> Task] /\ CallsPlaced'
         /\ task'[c] = t /\ \A d \in Calls \ {c} : task'[d] = task[d]
<1>1. task \in [Calls -> Task]
  BY DEF ClusterInv, TypeOK, Task
<1> QED
  BY <1>1 DEF ClusterInv, CallsPlaced

\* The parts of the invariant a call's step leaves alone.
Served ==
  /\ nodes \in Seq(Nodes) /\ IsInjective(nodes)
  /\ status \in [Nodes -> {"unknown", "healthy", "degraded", "unhealthy"}]
  /\ failures \in [Nodes -> 0..Unhealthy \cup {NoKey}]
  /\ successes \in [Nodes -> 0..Healthy \cup {NoKey}]
  /\ checking \in BOOLEAN

\* A step keeps the invariant if it keeps the counts and the types of what it writes.
LEMMA Assembled ==
  ASSUME ClusterConfig, ConnectionsCounted', Served', CallsPlaced',
         rrIndex' \in 0..(Wrap - 1), task' \in [Calls -> Task],
         connections' = [n \in Nodes |-> connections'[n]]
  PROVE  ClusterInv'
<1>1. \A n \in Nodes : connections'[n] \in 0..Cardinality(Calls)
  <2>1. \A n \in Nodes : AtNode(n)' \in SUBSET Calls /\ connections'[n] = Cardinality(AtNode(n)')
    BY DEF AtNode, ConnectionsCounted
  <2> QED
    BY <2>1, CountType
<1>2. connections' \in [Nodes -> 0..Cardinality(Calls)]
  BY <1>1
<1> QED
  BY <1>2 DEF ClusterInv, TypeOK, Task, Served

LEMMA CallStepKeeps ==
  ASSUME ClusterConfig, ClusterInv, NEW c \in Calls, Begin(c) \/ CallStep(c)
  PROVE  ClusterInv'
<1> DEFINE old == task[c]
<1>1. old \in Task /\ task \in [Calls -> Task]
  BY DEF ClusterInv, TypeOK, Task
<1>2. /\ connections \in [Nodes -> 0..Cardinality(Calls)] /\ rrIndex \in 0..(Wrap - 1)
      /\ Served /\ ConnectionsCounted /\ CallsPlaced
  BY DEF ClusterInv, TypeOK, Served
<1>3. /\ old.pc = "sending" => old.node \in Nodes
      /\ old.pc \notin {"done", "failed"} => old.retries <= MaxRetries
  BY <1>2 DEF CallsPlaced
<1>4. Served'
  BY <1>2 DEF Begin, CallStep, NoNode, Skip, Send, Reply, Fail, Served
<1>5. rrIndex' \in 0..(Wrap - 1)
  BY <1>2, AdvanceType DEF Begin, CallStep, NoNode, Skip, Send, Reply, Fail
<1>6. connections' = [n \in Nodes |-> connections'[n]]
  BY <1>2 DEF Begin, CallStep, NoNode, Skip, Send, Reply, Fail
<1>7. CASE Begin(c) \/ NoNode(c)
  <2> DEFINE t == [old EXCEPT !.pc = IF Begin(c) THEN "choosing" ELSE "failed"]
  <2>1. t \in Task /\ t.pc \in {"choosing", "failed"} /\ t.retries = old.retries
    BY <1>1 DEF Task
  <2>2. task' = [task EXCEPT ![c] = t] /\ old.pc # "sending"
    BY <1>1, <1>7 DEF Begin, NoNode
  <2>3. old.pc \notin {"done", "failed"}
    BY <1>7 DEF Begin, NoNode
  <2> HIDE DEF t
  <2>4. /\ task' \in [Calls -> Task] /\ CallsPlaced'
        /\ task'[c] = t /\ \A d \in Calls \ {c} : task'[d] = task[d]
    BY <1>3, <2>1, <2>2, <2>3, TaskKept
  <2>5. UNCHANGED connections
    BY <1>7 DEF Begin, NoNode
  <2>6. ConnectionsCounted'
    BY <1>2, <2>1, <2>2, <2>4, <2>5, NothingCounted
  <2> QED
    BY <1>4, <1>5, <1>6, <2>4, <2>6, Assembled
<1>8. CASE Skip(c)
  <2>1. UNCHANGED <<task, connections>>
    BY <1>8 DEF Skip
  <2>2. ConnectionsCounted' /\ CallsPlaced'
    BY <1>2, <2>1 DEF ConnectionsCounted, CallsPlaced
  <2> QED
    BY <1>1, <1>4, <1>5, <1>6, <2>1, <2>2, Assembled
<1>9. CASE Send(c)
  <2>1. PICK n \in Nodes :
          /\ task' = [task EXCEPT ![c].pc = "sending", ![c].node = n, ![c].tried = @ \cup {n}]
          /\ connections' = [connections EXCEPT ![n] = @ + 1]
    BY <1>9 DEF Send
  <2> DEFINE t == [old EXCEPT !.pc = "sending", !.node = n, !.tried = @ \cup {n}]
  <2>2. t \in Task /\ t.pc = "sending" /\ t.node = n /\ t.retries = old.retries
    BY <1>1 DEF Task
  <2>3. task' = [task EXCEPT ![c] = t] /\ old.pc = "choosing"
    BY <1>1, <1>9, <2>1 DEF Send
  <2> HIDE DEF t
  <2>4. /\ task' \in [Calls -> Task] /\ CallsPlaced'
        /\ task'[c] = t /\ \A d \in Calls \ {c} : task'[d] = task[d]
    BY <1>3, <2>2, <2>3, TaskKept
  <2>5. ConnectionsCounted'
    BY <2>1, <2>2, <2>3, <2>4, ArrivalCounted
  <2> QED
    BY <1>4, <1>5, <1>6, <2>4, <2>5, Assembled
<1>10. CASE Reply(c)
  <2> DEFINE t == [old EXCEPT !.pc = "done", !.node = None]
  <2>1. t \in Task /\ t.pc = "done"
    BY <1>1 DEF Task
  <2>2. task' = [task EXCEPT ![c] = t] /\ old.pc = "sending"
    BY <1>1, <1>10 DEF Reply
  <2> HIDE DEF t
  <2>3. /\ task' \in [Calls -> Task] /\ CallsPlaced'
        /\ task'[c] = t /\ \A d \in Calls \ {c} : task'[d] = task[d]
    BY <2>1, <2>2, TaskKept
  <2>4. connections' = [connections EXCEPT ![old.node] = @ - 1]
    BY <1>10 DEF Reply
  <2>5. ConnectionsCounted'
    BY <2>1, <2>2, <2>3, <2>4, DepartureCounted
  <2> QED
    BY <1>4, <1>5, <1>6, <2>3, <2>5, Assembled
<1>11. CASE Fail(c)
  <2> DEFINE retry == Failover /\ old.retries < MaxRetries
             t == [old EXCEPT !.pc = IF retry THEN "choosing" ELSE "failed", !.node = None,
                              !.retries = IF Failover THEN @ + 1 ELSE @]
  <2>1. task' = [task EXCEPT ![c] = t] /\ old.pc = "sending"
    BY <1>1, <1>11 DEF Fail
  <2>2. old.retries \in 0..MaxRetries
    BY <1>1, <1>3, <2>1 DEF Task, ClusterConfig
  <2>3. /\ t.pc = IF retry THEN "choosing" ELSE "failed"
        /\ t.retries = IF Failover THEN old.retries + 1 ELSE old.retries
    BY <1>1 DEF Task
  <2>4. t.retries \in 0..(MaxRetries + 1) /\ (retry => t.retries <= MaxRetries)
    BY <2>2, <2>3 DEF ClusterConfig
  <2>5. t \in Task
    BY <1>1, <2>3, <2>4 DEF Task
  <2> HIDE DEF t
  <2>6. t.pc # "sending" /\ (t.pc \notin {"done", "failed"} => t.retries <= MaxRetries)
    BY <2>3, <2>4
  <2>7. /\ task' \in [Calls -> Task] /\ CallsPlaced'
        /\ task'[c] = t /\ \A d \in Calls \ {c} : task'[d] = task[d]
    BY <2>1, <2>5, <2>6, TaskKept
  <2>8. connections' = [connections EXCEPT ![old.node] = @ - 1]
    BY <1>11 DEF Fail
  <2>9. ConnectionsCounted'
    BY <2>1, <2>6, <2>7, <2>8, DepartureCounted
  <2> QED
    BY <1>4, <1>5, <1>6, <2>7, <2>9, Assembled
<1> QED
  BY <1>7, <1>8, <1>9, <1>10, <1>11 DEF CallStep

\* A node removed from the list leaves the others in it once.
LEMMA RemovedStays ==
  ASSUME nodes \in Seq(Nodes), IsInjective(nodes), NEW i \in DOMAIN nodes
  PROVE  RemoveAt(nodes, i) \in Seq(Nodes) /\ IsInjective(RemoveAt(nodes, i))
<1> DEFINE front == SubSeq(nodes, 1, i - 1)
           back == SubSeq(nodes, i + 1, Len(nodes))
           rest == front \o back
<1>1. i \in 1..Len(nodes) /\ Len(nodes) \in Nat /\ \A k \in 1..Len(nodes) : nodes[k] \in Nodes
  OBVIOUS
<1>2. /\ front \in Seq(Nodes) /\ Len(front) = i - 1
      /\ \A k \in 1..(i - 1) : front[k] = nodes[k]
  BY <1>1, SubSeqProperties
<1>3. /\ back \in Seq(Nodes) /\ Len(back) = Len(nodes) - i
      /\ \A k \in 1..(Len(nodes) - i) : back[k] = nodes[i + k]
  BY <1>1, SubSeqProperties
<1> HIDE DEF front, back
<1>4. rest \in Seq(Nodes) /\ Len(rest) = Len(nodes) - 1
  BY <1>1, <1>2, <1>3, ConcatProperties
<1>5. \A k \in 1..Len(rest) : rest[k] = nodes[IF k < i THEN k ELSE k + 1]
  <2> SUFFICES ASSUME NEW k \in 1..Len(rest)
               PROVE  rest[k] = nodes[IF k < i THEN k ELSE k + 1]
    OBVIOUS
  <2>1. CASE k < i
    BY <1>1, <1>2, <1>3, <1>4, <2>1, ConcatProperties
  <2>2. CASE k >= i
    <3> DEFINE j == k - (i - 1)
    <3>1. rest[k] = back[j]
      <4>1. k \in 1..(Len(front) + Len(back)) /\ ~(k <= Len(front))
        BY <1>1, <1>2, <1>3, <1>4, <2>2
      <4>2. rest[k] = back[k - Len(front)]
        BY <1>2, <1>3, <4>1, ConcatProperties
      <4> QED
        BY <1>2, <4>2
    <3>2. j \in 1..(Len(nodes) - i) /\ i + j = k + 1 /\ ~(k < i)
      BY <1>1, <1>4, <2>2
    <3> HIDE DEF j
    <3>3. back[j] = nodes[i + j]
      BY <1>3, <3>2
    <3>4. back[j] = nodes[k + 1]
      BY <3>2, <3>3
    <3> QED
      BY <3>1, <3>2, <3>4
  <2> QED
    BY <1>1, <2>1, <2>2
<1> HIDE DEF rest
<1>6. ASSUME NEW a \in 1..Len(rest), NEW b \in 1..Len(rest), rest[a] = rest[b]
      PROVE  a = b
  <2> DEFINE from(k) == IF k < i THEN k ELSE k + 1
  <2>1. from(a) \in DOMAIN nodes /\ from(b) \in DOMAIN nodes
    BY <1>1, <1>4
  <2>2. from(a) = from(b)
    BY <1>5, <1>6, <2>1 DEF IsInjective
  <2> QED
    BY <1>1, <2>2
<1>7. IsInjective(rest)
  BY <1>4, <1>6 DEF IsInjective
<1> QED
  BY <1>4, <1>7 DEF RemoveAt, rest, front, back

\* The health checks, the end of their thread and the host's changes of the list.
LEMMA HostStepKeeps ==
  ASSUME ClusterConfig, ClusterInv, HealthStep \/ Shutdown \/ AddNode \/ RemoveNode
  PROVE  ClusterInv'
<1>1. UNCHANGED <<connections, task, rrIndex>>
  BY DEF HealthStep, CheckHealthy, CheckFailed, CheckRaised, Shutdown, AddNode, RemoveNode
<1>2. ConnectionsCounted' /\ CallsPlaced'
  BY <1>1 DEF ClusterInv, ConnectionsCounted, CallsPlaced
<1>3. Served
  BY DEF ClusterInv, TypeOK, Served
<1>4. ASSUME NEW n \in Nodes, CheckHealthy(n) PROVE Served'
  <2>1. \E x \in 0..Unhealthy : failures' = [failures EXCEPT ![n] = x]
    BY <1>4 DEF CheckHealthy, ClusterConfig
  <2>2. successes' = successes \/ \E x \in 0..Healthy : successes' = [successes EXCEPT ![n] = x]
    <3>1. CASE successes[n] = NoKey
      BY <1>4, <3>1 DEF CheckHealthy
    <3>2. CASE successes[n] # NoKey
      <4>1. successes[n] \in 0..Healthy
        BY <1>3, <3>2 DEF Served
      <4>2. Cap(successes[n] + 1, Healthy) \in 0..Healthy
        BY <4>1 DEF Cap, ClusterConfig
      <4> QED
        BY <1>4, <3>2, <4>2 DEF CheckHealthy
    <3> QED
      BY <3>1, <3>2
  <2>3. \E x : status' = [status EXCEPT ![n] = x] /\ x \in {"unhealthy", "healthy", status[n]}
    BY <1>4 DEF CheckHealthy
  <2>4. UNCHANGED <<nodes, checking>>
    BY <1>4 DEF CheckHealthy
  <2> QED
    BY <1>3, <2>1, <2>2, <2>3, <2>4 DEF Served
<1>5. ASSUME NEW n \in Nodes, CheckFailed(n) \/ CheckRaised(n) PROVE Served'
  <2>1. failures' = failures \/ \E x \in 0..Unhealthy : failures' = [failures EXCEPT ![n] = x]
    <3>1. CASE failures[n] = NoKey
      BY <1>5, <3>1 DEF CheckFailed, CheckRaised
    <3>2. CASE failures[n] # NoKey
      <4>1. failures[n] \in 0..Unhealthy
        BY <1>3, <3>2 DEF Served
      <4>2. Cap(failures[n] + 1, Unhealthy) \in 0..Unhealthy
        BY <4>1 DEF Cap, ClusterConfig
      <4> QED
        BY <1>5, <3>2, <4>2 DEF CheckFailed, CheckRaised
    <3> QED
      BY <3>1, <3>2
  <2>2. successes' = successes \/ successes' = [successes EXCEPT ![n] = 0]
    BY <1>5 DEF CheckFailed, CheckRaised
  <2>3. \/ status' = status
        \/ \E x : status' = [status EXCEPT ![n] = x] /\ x \in {"unhealthy", "degraded", status[n]}
    BY <1>5 DEF CheckFailed, CheckRaised, Verdict
  <2>4. nodes' = nodes /\ (checking' = checking \/ checking' = FALSE)
    BY <1>5 DEF CheckFailed, CheckRaised
  <2>5. 0 \in 0..Healthy
    BY DEF ClusterConfig
  <2> QED
    BY <1>3, <2>1, <2>2, <2>3, <2>4, <2>5 DEF Served
<1>6. ASSUME Shutdown PROVE Served'
  BY <1>3, <1>6 DEF Shutdown, Served
<1>7. ASSUME AddNode PROVE Served'
  <2>1. PICK n \in Spare : n \notin Range(nodes) /\ nodes' = Append(nodes, n)
    BY <1>7 DEF AddNode
  <2>2. nodes \in Seq(Nodes) /\ IsInjective(nodes) /\ n \in Nodes
    BY <1>3 DEF Served, Nodes
  <2>3. /\ nodes' \in Seq(Nodes) /\ DOMAIN nodes' = 1..(Len(nodes) + 1)
        /\ \A k \in 1..Len(nodes) : nodes'[k] = nodes[k]
        /\ nodes'[Len(nodes) + 1] = n
    BY <2>1, <2>2, AppendProperties
  <2>4. \A k \in 1..Len(nodes) : nodes[k] # n
    BY <2>1, <2>2 DEF Range
  <2>5. IsInjective(nodes')
    <3> SUFFICES ASSUME NEW a \in DOMAIN nodes', NEW b \in DOMAIN nodes', nodes'[a] = nodes'[b]
                 PROVE  a = b
      BY DEF IsInjective
    <3>1. CASE a \in 1..Len(nodes) /\ b \in 1..Len(nodes)
      BY <2>2, <2>3, <3>1 DEF IsInjective
    <3>2. CASE a = Len(nodes) + 1 \/ b = Len(nodes) + 1
      BY <2>2, <2>3, <2>4, <3>2
    <3> QED
      BY <2>2, <2>3, <3>1, <3>2
  <2> QED
    BY <1>3, <1>7, <2>3, <2>5 DEF AddNode, Served
<1>8. ASSUME RemoveNode PROVE Served'
  BY <1>3, <1>8, RemovedStays DEF RemoveNode, Served
<1>9. Served'
  BY <1>4, <1>5, <1>6, <1>7, <1>8 DEF HealthStep
<1>10. /\ rrIndex' \in 0..(Wrap - 1) /\ task' \in [Calls -> Task]
       /\ connections' = [n \in Nodes |-> connections'[n]]
  BY <1>1 DEF ClusterInv, TypeOK, Task
<1> QED
  BY <1>2, <1>9, <1>10, Assembled

LEMMA ClusterStep == ClusterConfig /\ ClusterInv /\ [Next]_clusterVars => ClusterInv'
<1> SUFFICES ASSUME ClusterConfig, ClusterInv, [Next]_clusterVars PROVE ClusterInv'
  OBVIOUS
<1>1. CASE UNCHANGED clusterVars
  BY <1>1 DEF clusterVars, ClusterInv, TypeOK, CallsPlaced, ConnectionsCounted
<1>2. CASE Next
  BY <1>2, CallStepKeeps, HostStepKeeps DEF Next
<1> QED
  BY <1>1, <1>2

\* The node list, the health of the nodes, their connections and the calls are well
\* formed in every reachable state, for every configuration.
THEOREM ClusterTypesKept == ASSUME ClusterConfig PROVE Spec => []TypeOK
<1>1. Init => ClusterInv
  BY ClusterInit
<1>2. ClusterInv /\ [Next]_clusterVars => ClusterInv'
  BY ClusterStep
<1>3. ClusterInv => TypeOK
  BY DEF ClusterInv
<1> QED
  BY <1>1, <1>2, <1>3, PTL DEF Spec

\* synthesize() leaks no connection: a node's active_connections is the number of calls
\* at it, after errors, retries and the removal of the node too.
THEOREM ConnectionsKept == ASSUME ClusterConfig PROVE Spec => []ConnectionsCounted
<1>1. Init => ClusterInv
  BY ClusterInit
<1>2. ClusterInv /\ [Next]_clusterVars => ClusterInv'
  BY ClusterStep
<1>3. ClusterInv => ConnectionsCounted
  BY DEF ClusterInv
<1> QED
  BY <1>1, <1>2, <1>3, PTL DEF Spec
=============================================================================
