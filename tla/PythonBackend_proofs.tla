------------------------ MODULE PythonBackend_proofs ------------------------
(***************************************************************************)
(* What the Python backend promises, for every number of calls, of spawned *)
(* processes and of faults; and, after it, what the HTTP backend and the   *)
(* speech engine do.                                                       *)
(*                                                                         *)
(* Neither promise is inductive alone.  That a call that starts a process  *)
(* waits on an armed timer needs that no two calls start the same process, *)
(* that timers are armed only while this.proc is the process they time,    *)
(* and that the reply to a health check comes from the process it was sent *)
(* to; that ready means a started process needs that, until a start is     *)
(* given up, only the process in use can have a start to be answered.      *)
(*                                                                         *)
(* The pipes are treated apart from the object's fields: PipeEffects says  *)
(* where a request or a line may come from, Control is kept by each kind   *)
(* of step.                                                                *)
(***************************************************************************)
EXTENDS PythonBackend, VoiceEngine, SequenceTheorems, TLAPS

\* What a process has not been spawned for: nothing.
Unspawned ==
  \A p \in Procs :
    /\ p > spawned <=> life[p] = "none"
    /\ p > spawned => StartOf(p) \notin pending
    /\ life[p] \in {"none", "absent"} => stdin[p] = <<>> /\ stdout[p] = <<>>

\* A start timer is armed for the process in use only, while its entry is pending.
StartIsPending == \A p \in starting : proc = p /\ StartOf(p) \in pending

\* A call spawns at most one process.
StarterDistinct ==
  /\ \A p \in 1..spawned : stage[starter[p]] # "idle"
  /\ \A p, q \in 1..spawned : starter[p] = starter[q] => p = q

\* The health check of a start is in the pipes of its own process only.
OwnStart ==
  \A p, q \in Procs :
    /\ \A i \in DOMAIN stdin[p] : stdin[p][i] = StartOf(q) => p = q
    /\ \A i \in DOMAIN stdout[p] : stdout[p][i].key = StartOf(q) => p = q

\* Until a start is given up: the process that has not exited is the one in use, and
\* only its start, or one that failed, is pending.
OneProcess ==
  killed = {} =>
    \A p \in Procs :
      /\ life[p] \in {"up", "dead"} => proc = p
      /\ StartOf(p) \in pending => life[p] \in {"up", "dead", "absent"}

BackendInv ==
  /\ TypeOK /\ Unspawned /\ StartIsPending /\ StarterDistinct /\ OwnStart /\ OneProcess
  /\ AwaitedIsPending /\ ReadyMeansStarted

-----------------------------------------------------------------------------
\* A line of output.
Line == [key : Key \cup {TornLine.key}, ok : BOOLEAN]

\* TypeOK in four parts.
CallsTyped ==
  /\ \A c \in Calls : stage[c] = "done" <=> answer[c] # "none"
  /\ stage \in [Calls -> {"idle", "starting", "sent", "done"}]
  /\ answer \in [Calls -> {"none", "not_ready", "unreachable", "not_running", "exited",
                           "timeout", "start_timeout", "ok", "failed"}]

ProcsTyped ==
  /\ spawned \in 0..MaxSpawns /\ proc \in 0..spawned
  /\ life \in [Procs -> {"none", "absent", "up", "dead", "gone"}]
  /\ killed \subseteq Procs /\ starting \subseteq Procs /\ pending \subseteq Key
  /\ starter \in [Procs -> Calls]

FlagsTyped == torn \in BOOLEAN /\ ready \in BOOLEAN

PipesTyped == stdin \in [Procs -> Seq(Key)] /\ stdout \in [Procs -> Seq(Line)]

-----------------------------------------------------------------------------
\* The keys of starts and calls are apart, and none is that of a torn line.
LEMMA Keys ==
  /\ \A p, q : StartOf(p) = StartOf(q) => p = q
  /\ \A c, d : CallOf(c) = CallOf(d) => c = d
  /\ \A p, c : StartOf(p) # CallOf(c)
  /\ \A p : StartOf(p) # TornLine.key
  /\ \A c : CallOf(c) # TornLine.key
  /\ \A p \in Procs : StartOf(p) \in Key
  /\ \A c \in Calls : CallOf(c) \in Key
BY DEF StartOf, CallOf, TornLine, Key

LEMMA TypeParts ==
  /\ TypeOK <=> CallsTyped /\ ProcsTyped /\ FlagsTyped /\ PipesTyped
  /\ TypeOK' <=> CallsTyped' /\ ProcsTyped' /\ FlagsTyped' /\ PipesTyped'
BY DEF TypeOK, CallsTyped, ProcsTyped, FlagsTyped, PipesTyped, Line

\* What is appended to and taken from a sequence.
LEMMA Lines ==
  ASSUME NEW S, NEW s \in Seq(S)
  PROVE  /\ \A x \in S : Append(s, x) \in Seq(S) /\ <<x>> \in Seq(S)
         /\ \A x \in S : \A i \in DOMAIN Append(s, x) :
              Append(s, x)[i] = x \/ (i \in DOMAIN s /\ Append(s, x)[i] = s[i])
         /\ s # <<>> => /\ Head(s) \in S /\ Tail(s) \in Seq(S)
                        /\ 1 \in DOMAIN s /\ Head(s) = s[1]
                        /\ \A i \in DOMAIN Tail(s) : i + 1 \in DOMAIN s /\ Tail(s)[i] = s[i + 1]
         /\ <<>> \in Seq(S) /\ DOMAIN <<>> = {}
<1>1. \A x \in S : Append(s, x) \in Seq(S) /\ <<x>> \in Seq(S)
  BY AppendProperties
<1>2. \A x \in S : \A i \in DOMAIN Append(s, x) :
        Append(s, x)[i] = x \/ (i \in DOMAIN s /\ Append(s, x)[i] = s[i])
  BY AppendProperties, LenProperties
<1>3. s # <<>> => /\ Head(s) \in S /\ Tail(s) \in Seq(S)
                  /\ 1 \in DOMAIN s /\ Head(s) = s[1]
                  /\ \A i \in DOMAIN Tail(s) : i + 1 \in DOMAIN s /\ Tail(s)[i] = s[i + 1]
  <2> SUFFICES ASSUME s # <<>>
               PROVE  /\ Head(s) \in S /\ Tail(s) \in Seq(S)
                      /\ 1 \in DOMAIN s /\ Head(s) = s[1]
                      /\ \A i \in DOMAIN Tail(s) : i + 1 \in DOMAIN s /\ Tail(s)[i] = s[i + 1]
    OBVIOUS
  <2>1. Len(s) \in Nat /\ Len(s) # 0 /\ DOMAIN s = 1..Len(s)
    BY LenProperties, EmptySeq
  <2>2. Head(s) = s[1] /\ s[1] \in S /\ Tail(s) \in Seq(S)
        /\ Len(Tail(s)) = Len(s) - 1 /\ \A i \in 1..Len(Tail(s)) : Tail(s)[i] = s[i + 1]
    BY <2>1, HeadTailProperties, ElementOfSeq
  <2>3. DOMAIN Tail(s) = 1..Len(Tail(s))
    BY <2>2, LenProperties
  <2> QED BY <2>1, <2>2, <2>3
<1>4. <<>> \in Seq(S) /\ DOMAIN <<>> = {}
  OBVIOUS
<1> QED BY <1>1, <1>2, <1>3, <1>4

\* send() keeps the types.
LEMMA SendTyped ==
  ASSUME TypeOK, NEW rest \in SUBSET Key, NEW c \in Calls, stage[c] # "done", SendWith(rest, c)
  PROVE  CallsTyped' /\ pending' \subseteq Key /\ stdin' \in [Procs -> Seq(Key)]
<1>1. CallsTyped /\ ProcsTyped /\ FlagsTyped /\ PipesTyped
  BY TypeParts
<1>2. CASE proc = 0
  <2>1. CallsTyped'
    BY <1>1, <1>2 DEF SendWith, Fail, CallsTyped
  <2> QED BY <2>1, <1>1, <1>2 DEF SendWith, PipesTyped
<1>3. CASE proc # 0
  <2>1. CallsTyped'
    BY <1>1, <1>3 DEF SendWith, CallsTyped
  <2>2. proc \in Procs /\ stdin[proc] \in Seq(Key) /\ CallOf(c) \in Key
    BY <1>1, <1>3, Keys, MaxSpawnsAssumption DEF ProcsTyped, PipesTyped, Procs
  <2>3. Append(stdin[proc], CallOf(c)) \in Seq(Key)
    BY <2>2, Lines
  <2> QED BY <2>1, <2>2, <2>3, <1>1, <1>3 DEF SendWith, PipesTyped
<1> QED BY <1>2, <1>3

\* Every step keeps the types.
LEMMA TypeStep ==
  ASSUME TypeOK, [Next]_vars
  PROVE  TypeOK'
<1>0. CallsTyped /\ ProcsTyped /\ FlagsTyped /\ PipesTyped
  BY TypeParts
<1> USE MaxSpawnsAssumption DEF Procs
<1>1. ASSUME NEW c \in Calls, CallWithProcess(c)
      PROVE  TypeOK'
  <2>1. CallsTyped' /\ pending' \subseteq Key /\ stdin' \in [Procs -> Seq(Key)]
    BY <1>0, <1>1, SendTyped DEF CallWithProcess, ProcsTyped
  <2>2. ProcsTyped'
    BY <1>0, <1>1, <2>1 DEF CallWithProcess, ProcsTyped
  <2>3. FlagsTyped'
    BY <1>0, <1>1 DEF CallWithProcess, FlagsTyped
  <2>4. PipesTyped'
    BY <1>0, <1>1, <2>1 DEF CallWithProcess, PipesTyped
  <2> QED BY <2>1, <2>2, <2>3, <2>4, TypeParts
<1>2. ASSUME NEW c \in Calls, CallSpawns(c) \/ CallSpawnFails(c)
      PROVE  TypeOK'
  <2>1. Spawn(c) /\ proc' = spawned + 1 /\ proc' \in Procs /\ StartOf(proc') \in Key
    BY <1>0, <1>2, Keys DEF CallSpawns, CallSpawnFails, Spawn, ProcsTyped
  <2>2. CallsTyped'
    BY <1>0, <1>2, <2>1 DEF CallSpawns, CallSpawnFails, Fail, CallsTyped, Spawn
  <2>3. /\ spawned' \in 0..MaxSpawns /\ proc' \in 0..spawned' /\ pending' \subseteq Key
        /\ starter' \in [Procs -> Calls] /\ killed' = killed
    BY <1>0, <2>1 DEF Spawn, ProcsTyped
  <2>4. life' \in [Procs -> {"none", "absent", "up", "dead", "gone"}] /\ starting' \subseteq Procs
    BY <1>0, <1>2, <2>1 DEF CallSpawns, CallSpawnFails, ProcsTyped
  <2>5. FlagsTyped'
    BY <1>0, <1>2 DEF CallSpawns, CallSpawnFails, Spawn, FlagsTyped
  <2>6. ProcsTyped'
    BY <1>0, <2>3, <2>4 DEF ProcsTyped
  <2>7. <<StartOf(proc')>> \in Seq(Key)
    BY <2>1
  <2>8. stdin' \in [Procs -> Seq(Key)]
    BY <1>0, <1>2, <2>1, <2>7 DEF CallSpawns, CallSpawnFails, PipesTyped
  <2>9. PipesTyped'
    BY <1>0, <2>1, <2>8 DEF Spawn, PipesTyped
  <2> QED BY <2>2, <2>5, <2>6, <2>9, TypeParts
<1>3. ASSUME NEW c \in Calls, SpeakNotReady(c) \/ RequestTimeout(c)
      PROVE  TypeOK'
  <2>1. CallsTyped'
    BY <1>0, <1>3 DEF SpeakNotReady, RequestTimeout, Fail, CallsTyped
  <2>2. ProcsTyped'
    BY <1>0, <1>3 DEF SpeakNotReady, RequestTimeout, ProcsTyped
  <2>3. FlagsTyped' /\ PipesTyped'
    BY <1>0, <1>3 DEF SpeakNotReady, RequestTimeout, FlagsTyped, PipesTyped, pipes
  <2> QED BY <2>1, <2>2, <2>3, TypeParts
<1>4. ASSUME NEW p \in Procs, Serve(p)
      PROVE  TypeOK'
  <2>1. CallsTyped' /\ ProcsTyped' /\ FlagsTyped'
    BY <1>0, <1>4 DEF Serve, CallsTyped, ProcsTyped, FlagsTyped, calls
  <2>2. PICK ok \in BOOLEAN :
          stdout' = [stdout EXCEPT ![p] = Append(@, [key |-> Head(stdin[p]), ok |-> ok])]
    BY <1>4 DEF Serve
  <2>3. /\ Head(stdin[p]) \in Key /\ Tail(stdin[p]) \in Seq(Key)
        /\ [key |-> Head(stdin[p]), ok |-> ok] \in Line
    BY <1>0, <1>4, <2>2, Lines DEF Serve, PipesTyped, Line
  <2>4. Append(stdout[p], [key |-> Head(stdin[p]), ok |-> ok]) \in Seq(Line)
    BY <1>0, <2>3, Lines DEF PipesTyped
  <2>5. stdin' = [stdin EXCEPT ![p] = Tail(@)]
    BY <1>4 DEF Serve
  <2>6. PipesTyped'
    BY <1>0, <2>2, <2>3, <2>4, <2>5 DEF PipesTyped
  <2> QED BY <2>1, <2>6, TypeParts
<1>5. ASSUME NEW p \in Procs, Die(p)
      PROVE  TypeOK'
  <2>1. CallsTyped' /\ ProcsTyped' /\ FlagsTyped'
    BY <1>0, <1>5 DEF Die, CallsTyped, ProcsTyped, FlagsTyped, calls
  <2>2. TornLine \in Line
    BY DEF Line, TornLine
  <2>3. Append(stdout[p], TornLine) \in Seq(Line)
    BY <1>0, <2>2, Lines DEF PipesTyped
  <2>4. stdin' \in [Procs -> Seq(Key)] /\ stdout' \in [Procs -> Seq(Line)]
    <3>1. stdin' = [stdin EXCEPT ![p] = <<>>]
          /\ (stdout' = stdout \/ stdout' = [stdout EXCEPT ![p] = Append(@, TornLine)])
      BY <1>5 DEF Die
    <3>2. <<>> \in Seq(Key)
      OBVIOUS
    <3> QED BY <1>0, <2>3, <3>1, <3>2 DEF PipesTyped
  <2> QED BY <2>1, <2>4, TypeParts DEF PipesTyped
<1>6. ASSUME NEW p \in Procs, ReadTorn(p) \/ ReadSkipped(p) \/ ReadReply(p)
      PROVE  TypeOK'
  <2>1. stdout[p] # <<>> /\ stdout' = [stdout EXCEPT ![p] = Tail(@)] /\ stdin' = stdin
    BY <1>6 DEF ReadTorn, ReadSkipped, ReadReply, NextLine, Consume
  <2>2. Tail(stdout[p]) \in Seq(Line)
    BY <1>0, <2>1, Lines DEF PipesTyped
  <2>3. PipesTyped'
    BY <1>0, <2>1, <2>2 DEF PipesTyped
  <2>4. CallsTyped'
    BY <1>0, <1>6 DEF ReadTorn, ReadSkipped, ReadReply, Fail, CallsTyped, calls
  <2>5. ProcsTyped'
    BY <1>0, <1>6 DEF ReadTorn, ReadSkipped, ReadReply, ProcsTyped
  <2>6. FlagsTyped'
    BY <1>0, <1>6 DEF ReadTorn, ReadSkipped, ReadReply, FlagsTyped
  <2> QED BY <2>3, <2>4, <2>5, <2>6, TypeParts
<1>7. ASSUME NEW p \in Procs, ReadStarted(p)
      PROVE  TypeOK'
  <2>1. PICK q \in Procs :
          /\ stdout[p] # <<>> /\ stdout' = [stdout EXCEPT ![p] = Tail(@)]
          /\ starting' = starting \ {q} /\ ready' = TRUE
          /\ IF stage[starter[q]] = "starting"
             THEN SendWith(pending \ {StartOf(q)}, starter[q])
             ELSE pending' = pending \ {StartOf(q)} /\ UNCHANGED <<stdin, calls>>
          /\ UNCHANGED <<proc, spawned, life, killed, torn, starter>>
    BY <1>7 DEF ReadStarted, NextLine, Consume
  <2>2. pending \ {StartOf(q)} \in SUBSET Key /\ starter[q] \in Calls
    BY <1>0 DEF ProcsTyped
  <2>3. CallsTyped' /\ pending' \subseteq Key /\ stdin' \in [Procs -> Seq(Key)]
    <3>1. CASE stage[starter[q]] = "starting"
      BY <2>1, <2>2, <3>1, SendTyped
    <3>2. CASE stage[starter[q]] # "starting"
      BY <1>0, <2>1, <2>2, <3>2 DEF CallsTyped, PipesTyped, calls
    <3> QED BY <3>1, <3>2
  <2>4. Tail(stdout[p]) \in Seq(Line)
    BY <1>0, <2>1, Lines DEF PipesTyped
  <2>5. PipesTyped'
    BY <1>0, <2>1, <2>3, <2>4 DEF PipesTyped
  <2>6. ProcsTyped' /\ FlagsTyped'
    BY <1>0, <2>1, <2>3 DEF ProcsTyped, FlagsTyped
  <2> QED BY <2>3, <2>5, <2>6, TypeParts
<1>8. ASSUME NEW p \in Procs, Exit(p)
      PROVE  TypeOK'
  <2>1. CallsTyped'
    BY <1>0, <1>8 DEF Exit, CallsTyped
  <2>2. ProcsTyped'
    <3>1. /\ life' = [life EXCEPT ![p] = "gone"] /\ starting' \subseteq starting
          /\ pending' = {} /\ proc' = 0 /\ UNCHANGED <<spawned, killed, starter>>
      BY <1>8 DEF Exit
    <3> QED BY <1>0, <3>1 DEF ProcsTyped
  <2>3. FlagsTyped' /\ PipesTyped'
    BY <1>0, <1>8 DEF Exit, FlagsTyped, PipesTyped, pipes
  <2> QED BY <2>1, <2>2, <2>3, TypeParts
<1>9. ASSUME NEW p \in Procs, StartTimeout(p)
      PROVE  TypeOK'
  <2>1. CallsTyped'
    BY <1>0, <1>9 DEF StartTimeout, Fail, CallsTyped, ProcsTyped
  <2>2. ProcsTyped'
    BY <1>0, <1>9 DEF StartTimeout, ProcsTyped
  <2>3. FlagsTyped' /\ PipesTyped'
    BY <1>0, <1>9 DEF StartTimeout, FlagsTyped, PipesTyped, pipes
  <2> QED BY <2>1, <2>2, <2>3, TypeParts
<1>10. CASE UNCHANGED vars
  BY <1>10 DEF vars, pipes, calls, TypeOK
<1> QED BY <1>1, <1>2, <1>3, <1>4, <1>5, <1>6, <1>7, <1>8, <1>9, <1>10
        DEF Next, Call, Bridge, Read


-----------------------------------------------------------------------------
\* What each step does to the process, the starts and the pipes, as far as the
\* invariants read it.
LEMMA CallSpawnsDoes ==
  ASSUME TypeOK, NEW c \in Calls, CallSpawns(c) \/ CallSpawnFails(c)
  PROVE  /\ proc' = spawned + 1 /\ spawned' = spawned + 1 /\ proc' \in Procs
         /\ stage[c] = "idle" /\ proc = 0
         /\ pending' = pending \cup {StartOf(proc')}
         /\ starter' = [starter EXCEPT ![proc'] = c]
         /\ UNCHANGED <<killed, stdout>>
         /\ \/ /\ life' = [life EXCEPT ![proc'] = "up"]
               /\ stdin' = [stdin EXCEPT ![proc'] = <<StartOf(proc')>>]
               /\ starting' = starting \cup {proc'}
               /\ stage' = [stage EXCEPT ![c] = "starting"]
               /\ UNCHANGED ready
            \/ /\ life' = [life EXCEPT ![proc'] = "absent"]
               /\ UNCHANGED <<stdin, starting>>
               /\ stage' = [stage EXCEPT ![c] = "done"]
               /\ ready' = FALSE
BY TypeParts, MaxSpawnsAssumption
   DEF CallSpawns, CallSpawnFails, Spawn, Fail, ProcsTyped, Procs

\* send() to a process in use that runs adds the request to its input, and to
\* no other; the call waits exactly when an entry for it is pending.
LEMMA SendDoes ==
  ASSUME TypeOK, NEW rest \in SUBSET Key, NEW c \in Calls, SendWith(rest, c)
  PROVE  /\ \/ proc = 0 /\ pending' = rest /\ stage' = [stage EXCEPT ![c] = "done"]
               /\ stdin' = stdin
            \/ /\ proc # 0 /\ pending' = rest \cup {CallOf(c)}
               /\ stage' = [stage EXCEPT ![c] = "sent"]
         /\ \A p \in Procs : stdin'[p] = stdin[p]
                             \/ (life[p] = "up" /\ stdin'[p] = Append(stdin[p], CallOf(c)))
BY TypeParts, MaxSpawnsAssumption DEF SendWith, Fail, PipesTyped, ProcsTyped, Procs

LEMMA ReadStartedDoes ==
  ASSUME TypeOK, NEW p \in Procs, ReadStarted(p)
  PROVE  \E q \in Procs :
           /\ stdout[p] # <<>> /\ Head(stdout[p]).key = StartOf(q) /\ StartOf(q) \in pending
           /\ stdout' = [stdout EXCEPT ![p] = Tail(@)]
           /\ starting' = starting \ {q} /\ ready' = TRUE
           /\ UNCHANGED <<proc, spawned, life, killed, starter>>
           /\ \/ /\ stage[starter[q]] = "starting"
                 /\ SendWith(pending \ {StartOf(q)}, starter[q])
              \/ /\ stage[starter[q]] # "starting"
                 /\ pending' = pending \ {StartOf(q)} /\ UNCHANGED <<stdin, stage>>
BY DEF ReadStarted, NextLine, Consume, calls


-----------------------------------------------------------------------------
\* What was not spawned has no entry and no pipes.  A step that spawns nothing keeps
\* that if it adds no entry for a start and fills no pipe of a process that is not there.
LEMMA UnspawnedKept ==
  ASSUME Unspawned, ProcsTyped, spawned' = spawned,
         \A p \in Procs :
           /\ life'[p] = "none" <=> life[p] = "none"
           /\ life'[p] = "absent" => life[p] = "absent"
           /\ StartOf(p) \in pending' => StartOf(p) \in pending
           /\ life[p] \in {"none", "absent"} => stdin'[p] = stdin[p] /\ stdout'[p] = stdout[p]
  PROVE  Unspawned'
<1> SUFFICES ASSUME NEW p \in Procs
             PROVE  /\ p > spawned' <=> life'[p] = "none"
                    /\ p > spawned' => StartOf(p) \notin pending'
                    /\ life'[p] \in {"none", "absent"} => stdin'[p] = <<>> /\ stdout'[p] = <<>>
  BY DEF Unspawned
<1>1. p > spawned' <=> life'[p] = "none"
  BY DEF Unspawned
<1>2. p > spawned' => StartOf(p) \notin pending'
  BY DEF Unspawned
<1>3. ASSUME life'[p] \in {"none", "absent"} 
      PROVE stdin'[p] = <<>> /\ stdout'[p] = <<>>
  <2>1. life[p] \in {"none", "absent"}
    BY <1>3
  <2> QED BY <2>1 DEF Unspawned
<1> QED BY <1>1, <1>2, <1>3


-----------------------------------------------------------------------------
\* The request and the lines a step leaves in the pipes of a process were there, or
\* are a call's, its own start's, or a torn line's.
LEMMA PipeEffects ==
  ASSUME TypeOK, [Next]_vars
  PROVE  \A p \in Procs :
           /\ \A i \in DOMAIN stdin'[p] :
                \/ \E j \in DOMAIN stdin[p] : stdin'[p][i] = stdin[p][j]
                \/ \E c \in Calls : stdin'[p][i] = CallOf(c)
                \/ stdin'[p][i] = StartOf(p)
           /\ \A i \in DOMAIN stdout'[p] :
                \/ \E j \in DOMAIN stdout[p] : stdout'[p][i].key = stdout[p][j].key
                \/ \E j \in DOMAIN stdin[p] : stdout'[p][i].key = stdin[p][j]
                \/ stdout'[p][i].key = TornLine.key
<1> DEFINE In(p, s) ==
             \A i \in DOMAIN s : \/ \E j \in DOMAIN stdin[p] : s[i] = stdin[p][j]
                                 \/ \E c \in Calls : s[i] = CallOf(c)
                                 \/ s[i] = StartOf(p)
           Out(p, s) ==
             \A i \in DOMAIN s : \/ \E j \in DOMAIN stdout[p] : s[i].key = stdout[p][j].key
                                 \/ \E j \in DOMAIN stdin[p] : s[i].key = stdin[p][j]
                                 \/ s[i].key = TornLine.key
<1>0. CallsTyped /\ ProcsTyped /\ PipesTyped
  BY TypeParts
<1> SUFFICES ASSUME NEW p \in Procs
             PROVE  In(p, stdin'[p]) /\ Out(p, stdout'[p])
  OBVIOUS
<1>1. stdin[p] \in Seq(Key) /\ stdout[p] \in Seq(Line)
  BY <1>0 DEF PipesTyped
<1>2. In(p, stdin[p]) /\ Out(p, stdout[p]) /\ In(p, <<>>) /\ In(p, <<StartOf(p)>>)
  OBVIOUS
<1>3. stdin[p] # <<>> => In(p, Tail(stdin[p]))
  <2> SUFFICES ASSUME stdin[p] # <<>>, NEW i \in DOMAIN Tail(stdin[p])
               PROVE  \E j \in DOMAIN stdin[p] : Tail(stdin[p])[i] = stdin[p][j]
    OBVIOUS
  <2> QED BY <1>1, Lines
<1>4. stdout[p] # <<>> => Out(p, Tail(stdout[p]))
  <2> SUFFICES ASSUME stdout[p] # <<>>, NEW i \in DOMAIN Tail(stdout[p])
               PROVE  \E j \in DOMAIN stdout[p] : Tail(stdout[p])[i] = stdout[p][j]
    OBVIOUS
  <2> QED BY <1>1, Lines
<1>5. ASSUME NEW c \in Calls
      PROVE  In(p, Append(stdin[p], CallOf(c)))
  <2> SUFFICES ASSUME NEW i \in DOMAIN Append(stdin[p], CallOf(c))
               PROVE  \/ \E j \in DOMAIN stdin[p] : Append(stdin[p], CallOf(c))[i] = stdin[p][j]
                      \/ Append(stdin[p], CallOf(c))[i] = CallOf(c)
    OBVIOUS
  <2> QED BY <1>1, Lines, Keys
<1>6. ASSUME NEW x \in Line, x.key = TornLine.key \/ (stdin[p] # <<>> /\ x.key = Head(stdin[p]))
      PROVE  Out(p, Append(stdout[p], x))
  <2> SUFFICES ASSUME NEW i \in DOMAIN Append(stdout[p], x)
               PROVE  \/ \E j \in DOMAIN stdout[p] :
                           Append(stdout[p], x)[i].key = stdout[p][j].key
                      \/ \E j \in DOMAIN stdin[p] : Append(stdout[p], x)[i].key = stdin[p][j]
                      \/ Append(stdout[p], x)[i].key = TornLine.key
    OBVIOUS
  <2>1. Append(stdout[p], x)[i] = x
        \/ (i \in DOMAIN stdout[p] /\ Append(stdout[p], x)[i] = stdout[p][i])
    BY <1>1, Lines
  <2>2. stdin[p] # <<>> => 1 \in DOMAIN stdin[p] /\ Head(stdin[p]) = stdin[p][1]
    BY <1>1, Lines
  <2> QED BY <1>6, <2>1, <2>2
<1>7. ASSUME NEW rest \in SUBSET Key, NEW c \in Calls, SendWith(rest, c)
      PROVE  In(p, stdin'[p])
  <2>1. stdin'[p] = stdin[p] \/ stdin'[p] = Append(stdin[p], CallOf(c))
    BY <1>7, SendDoes
  <2> QED BY <1>2, <1>5, <2>1
<1> HIDE DEF In, Out
<1>8. CASE \E c \in Calls : CallWithProcess(c)
  <2>1. PICK c \in Calls : SendWith(pending, c) /\ stdout' = stdout
    BY <1>8 DEF CallWithProcess
  <2> QED BY <2>1, <1>0, <1>2, <1>7 DEF ProcsTyped
<1>9. CASE \E c \in Calls : CallSpawns(c) \/ CallSpawnFails(c)
  <2>1. PICK q \in Procs : stdout' = stdout
          /\ (stdin' = stdin \/ stdin' = [stdin EXCEPT ![q] = <<StartOf(q)>>])
    BY <1>9, CallSpawnsDoes
  <2>2. stdin'[p] = stdin[p] \/ stdin'[p] = <<StartOf(p)>>
    BY <1>0, <2>1 DEF PipesTyped
  <2> QED BY <1>2, <2>1, <2>2
<1>10. CASE \E c \in Calls : SpeakNotReady(c) \/ RequestTimeout(c)
  BY <1>2, <1>10 DEF SpeakNotReady, RequestTimeout, pipes
<1>11. CASE \E q \in Procs : Serve(q)
  <2>1. PICK q \in Procs, ok \in BOOLEAN :
          /\ stdin[q] # <<>> /\ stdin' = [stdin EXCEPT ![q] = Tail(@)]
          /\ stdout' = [stdout EXCEPT ![q] = Append(@, [key |-> Head(stdin[q]), ok |-> ok])]
    BY <1>11 DEF Serve
  <2>2. CASE p # q
    BY <1>0, <1>2, <2>1, <2>2 DEF PipesTyped
  <2>3. CASE p = q
    <3>1. stdin'[p] = Tail(stdin[p])
          /\ stdout'[p] = Append(stdout[p], [key |-> Head(stdin[p]), ok |-> ok])
      BY <1>0, <2>1, <2>3 DEF PipesTyped
    <3>2. [key |-> Head(stdin[p]), ok |-> ok] \in Line
      BY <1>1, <2>1, <2>3, Lines DEF Line
    <3>3. In(p, Tail(stdin[p]))
      BY <1>3, <2>1, <2>3
    <3>4. Out(p, Append(stdout[p], [key |-> Head(stdin[p]), ok |-> ok]))
      BY <1>6, <2>1, <2>3, <3>2
    <3> QED BY <3>1, <3>3, <3>4
  <2> QED BY <2>2, <2>3
<1>12. CASE \E q \in Procs : Die(q)
  <2>1. PICK q \in Procs : /\ stdin' = [stdin EXCEPT ![q] = <<>>]
                           /\ stdout' = stdout \/ stdout' = [stdout EXCEPT ![q] = Append(@, TornLine)]
    BY <1>12 DEF Die
  <2>2. TornLine \in Line
    BY DEF Line, TornLine
  <2>3. stdin'[p] \in {stdin[p], <<>>} /\ stdout'[p] \in {stdout[p], Append(stdout[p], TornLine)}
    BY <1>0, <2>1 DEF PipesTyped
  <2> QED BY <1>2, <1>6, <2>2, <2>3
<1>13. CASE \E q \in Procs : ReadTorn(q) \/ ReadSkipped(q) \/ ReadReply(q)
  <2>1. PICK q \in Procs : stdout[q] # <<>> /\ stdout' = [stdout EXCEPT ![q] = Tail(@)]
                           /\ stdin' = stdin
    BY <1>13 DEF ReadTorn, ReadSkipped, ReadReply, NextLine, Consume
  <2>2. stdout'[p] = stdout[p] \/ (stdout[p] # <<>> /\ stdout'[p] = Tail(stdout[p]))
    BY <1>0, <2>1 DEF PipesTyped
  <2> QED BY <1>2, <1>4, <2>1, <2>2
<1>14. CASE \E q \in Procs : ReadStarted(q)
  <2>1. PICK q \in Procs, r \in Procs :
          /\ stdout[q] # <<>> /\ stdout' = [stdout EXCEPT ![q] = Tail(@)]
          /\ SendWith(pending \ {StartOf(r)}, starter[r]) \/ stdin' = stdin
    BY <1>14, ReadStartedDoes
  <2>2. stdout'[p] = stdout[p] \/ (stdout[p] # <<>> /\ stdout'[p] = Tail(stdout[p]))
    BY <1>0, <2>1 DEF PipesTyped
  <2>3. pending \ {StartOf(r)} \in SUBSET Key /\ starter[r] \in Calls
    BY <1>0 DEF ProcsTyped
  <2>4. In(p, stdin'[p])
    BY <1>2, <1>7, <2>1, <2>3
  <2> QED BY <1>2, <1>4, <2>2, <2>4
<1>15. CASE (\E q \in Procs : Exit(q) \/ StartTimeout(q)) \/ UNCHANGED vars
  <2>1. stdin' = stdin /\ stdout' = stdout
    BY <1>15 DEF Exit, StartTimeout, vars, pipes
  <2> QED BY <1>2, <2>1
<1> QED BY <1>8, <1>9, <1>10, <1>11, <1>12, <1>13, <1>14, <1>15
        DEF Next, Call, Bridge, Read

LEMMA OwnStartStep ==
  ASSUME TypeOK, OwnStart, [Next]_vars
  PROVE  OwnStart'
<1> SUFFICES ASSUME NEW p \in Procs, NEW q \in Procs
             PROVE  /\ \A i \in DOMAIN stdin'[p] : stdin'[p][i] = StartOf(q) => p = q
                    /\ \A i \in DOMAIN stdout'[p] : stdout'[p][i].key = StartOf(q) => p = q
  BY DEF OwnStart
<1>1. /\ \A i \in DOMAIN stdin[p] : stdin[p][i] = StartOf(q) => p = q
      /\ \A i \in DOMAIN stdout[p] : stdout[p][i].key = StartOf(q) => p = q
  BY DEF OwnStart
<1> QED BY <1>1, PipeEffects, Keys


-----------------------------------------------------------------------------
\* What the invariant says of the process in use, the starts and the calls, apart from
\* types and pipes.
Control == Unspawned /\ StartIsPending /\ StarterDistinct /\ OneProcess
           /\ AwaitedIsPending /\ ReadyMeansStarted

\* A step that leaves them alone: the bridge reads and answers, Node skips a line.
LEMMA QuietStep ==
  ASSUME BackendInv, NEW p \in Procs, Serve(p) \/ ReadTorn(p) \/ ReadSkipped(p)
  PROVE  Control'
<1>0. TypeOK /\ Control /\ ProcsTyped /\ PipesTyped
  BY TypeParts DEF BackendInv, Control
<1>1. UNCHANGED <<proc, spawned, life, killed, ready, pending, starting, starter, stage>>
  BY DEF Serve, ReadTorn, ReadSkipped, calls
<1>2. /\ \A q \in Procs : q # p => stdin'[q] = stdin[q] /\ stdout'[q] = stdout[q]
      /\ life[p] = "up" \/ (stdin' = stdin /\ stdout[p] # <<>>)
  BY <1>0 DEF Serve, ReadTorn, ReadSkipped, NextLine, Consume, PipesTyped
<1>3. life[p] \notin {"none", "absent"}
  BY <1>0, <1>2 DEF Unspawned, Control, Serve, ReadTorn, ReadSkipped, NextLine
<1>4. Unspawned'
  BY <1>0, <1>1, <1>2, <1>3, UnspawnedKept DEF Control
<1> QED BY <1>0, <1>1, <1>4 DEF Control, StartIsPending, StarterDistinct, OneProcess,
           AwaitedIsPending, ReadyMeansStarted

LEMMA DieStep ==
  ASSUME BackendInv, NEW p \in Procs, Die(p)
  PROVE  Control'
<1>0. TypeOK /\ Control /\ ProcsTyped /\ PipesTyped
  BY TypeParts DEF BackendInv, Control
<1>1. life[p] = "up" /\ life' = [life EXCEPT ![p] = "dead"]
      /\ UNCHANGED <<proc, spawned, killed, ready, pending, starting, starter, stage>>
  BY DEF Die, calls
<1>2. \A q \in Procs : q # p => life'[q] = life[q] /\ stdin'[q] = stdin[q] /\ stdout'[q] = stdout[q]
  BY <1>0 DEF Die, ProcsTyped, PipesTyped
<1>3. life'[p] = "dead"
  BY <1>0, <1>1 DEF ProcsTyped
<1>4. Unspawned'
  BY <1>0, <1>1, <1>2, <1>3, UnspawnedKept DEF Control
<1>5. StartIsPending' /\ StarterDistinct' /\ AwaitedIsPending'
  BY <1>0, <1>1 DEF Control, StartIsPending, StarterDistinct, AwaitedIsPending
<1>6. OneProcess'
  BY <1>0, <1>1, <1>2, <1>3 DEF Control, OneProcess
<1>7. ReadyMeansStarted'
  <2>1. proc # 0 => proc \in Procs
    BY <1>0, MaxSpawnsAssumption DEF ProcsTyped, Procs
  <2>2. proc # 0 => (life'[proc] = "absent" <=> life[proc] = "absent")
    BY <1>1, <1>2, <1>3, <2>1
  <2> QED BY <1>0, <1>1, <2>2 DEF Control, ReadyMeansStarted
<1> QED BY <1>4, <1>5, <1>6, <1>7 DEF Control

-----------------------------------------------------------------------------
\* A call is settled: its reply arrives, its timer fires, or it is refused.
LEMMA SettleStep ==
  ASSUME BackendInv, \/ \E c \in Calls : SpeakNotReady(c) \/ RequestTimeout(c)
                     \/ \E p \in Procs : ReadReply(p)
  PROVE  Control'
<1>0. TypeOK /\ Control /\ CallsTyped /\ ProcsTyped /\ PipesTyped
  BY TypeParts DEF BackendInv, Control
<1>1. PICK c \in Calls :
        /\ stage[c] = "idle" \/ CallOf(c) \in pending
        /\ pending' = pending \ {CallOf(c)}
        /\ stage' = [stage EXCEPT ![c] = "done"]
        /\ UNCHANGED <<proc, spawned, life, killed, ready, starting, starter, stdin>>
        /\ \/ stdout' = stdout
           \/ \E p \in Procs : stdout[p] # <<>> /\ stdout' = [stdout EXCEPT ![p] = Tail(@)]
  <2>1. ASSUME NEW c \in Calls, SpeakNotReady(c)
        PROVE  pending' = pending \ {CallOf(c)}
    BY <1>0, <2>1 DEF SpeakNotReady, Control, AwaitedIsPending
  <2> QED BY <2>1 DEF SpeakNotReady, RequestTimeout, ReadReply, Fail, NextLine, Consume, pipes
<1>2. \A p \in Procs : StartOf(p) \in pending' <=> StartOf(p) \in pending
  BY <1>1, Keys
<1>3. \A d \in Calls : d # c => stage'[d] = stage[d]
                                /\ (CallOf(d) \in pending' <=> CallOf(d) \in pending)
  BY <1>0, <1>1, Keys DEF CallsTyped
<1>4. stage'[c] = "done" /\ CallOf(c) \notin pending' /\ stage[c] # "starting"
  BY <1>0, <1>1 DEF CallsTyped, Control, AwaitedIsPending
<1>5. Unspawned'
  <2>1. \A p \in Procs : life[p] \in {"none", "absent"} => stdout'[p] = stdout[p]
    BY <1>0, <1>1 DEF PipesTyped, Control, Unspawned
  <2> QED BY <1>0, <1>1, <1>2, <2>1, UnspawnedKept DEF Control
<1>6. StartIsPending'
  BY <1>0, <1>1, <1>2 DEF Control, StartIsPending, ProcsTyped
<1>7. StarterDistinct'
  <2>1. \A p \in 1..spawned : starter[p] \in Calls
    BY <1>0, MaxSpawnsAssumption DEF ProcsTyped, Procs
  <2>2. \A d \in Calls : stage[d] # "idle" => stage'[d] # "idle"
    BY <1>3, <1>4
  <2> QED BY <1>0, <1>1, <2>1, <2>2 DEF Control, StarterDistinct
<1>8. OneProcess' /\ ReadyMeansStarted'
  BY <1>0, <1>1, <1>2 DEF Control, OneProcess, ReadyMeansStarted
<1>9. AwaitedIsPending'
  <2>1. \A p \in starting : StartOf(p) \in pending' <=> StartOf(p) \in pending
    BY <1>0, <1>2 DEF ProcsTyped
  <2>2. ASSUME NEW d \in Calls
        PROVE  /\ stage'[d] = "sent" <=> CallOf(d) \in pending'
               /\ stage'[d] = "starting" <=>
                    \E p \in starting' : starter'[p] = d /\ StartOf(p) \in pending'
    <3>1. /\ stage[d] = "sent" <=> CallOf(d) \in pending
          /\ stage[d] = "starting" <=>
               \E p \in starting : starter[p] = d /\ StartOf(p) \in pending
      BY <1>0 DEF Control, AwaitedIsPending
    <3>2. CASE d = c
      BY <1>1, <1>4, <2>1, <3>1, <3>2
    <3>3. CASE d # c
      BY <1>1, <1>3, <2>1, <3>1, <3>3
    <3> QED BY <3>2, <3>3
  <2> QED BY <2>2 DEF AwaitedIsPending
<1> QED BY <1>5, <1>6, <1>7, <1>8, <1>9 DEF Control

\* A call is sent to the process in use.
LEMMA SentStep ==
  ASSUME BackendInv, NEW c \in Calls, CallWithProcess(c)
  PROVE  Control'
<1>0. TypeOK /\ Control /\ CallsTyped /\ ProcsTyped /\ PipesTyped
  BY TypeParts DEF BackendInv, Control
<1>1. SendWith(pending, c) /\ stage[c] = "idle" /\ proc # 0 /\ pending \in SUBSET Key
      /\ UNCHANGED <<proc, spawned, life, killed, ready, starting, starter, stdout>>
  BY <1>0 DEF CallWithProcess, ProcsTyped
<1>2. pending' = pending \cup {CallOf(c)} /\ stage' = [stage EXCEPT ![c] = "sent"]
  BY <1>0, <1>1, SendDoes
<1>3. \A p \in Procs : StartOf(p) \in pending' <=> StartOf(p) \in pending
  BY <1>2, Keys
<1>4. \A d \in Calls : d # c => stage'[d] = stage[d]
                                /\ (CallOf(d) \in pending' <=> CallOf(d) \in pending)
  BY <1>0, <1>2, Keys DEF CallsTyped
<1>5. stage'[c] = "sent" /\ CallOf(c) \in pending' /\ stage[c] # "starting"
  BY <1>0, <1>1, <1>2 DEF CallsTyped
<1>6. Unspawned'
  <2>1. \A p \in Procs : stdin'[p] = stdin[p] \/ life[p] = "up"
    BY <1>0, <1>1, SendDoes
  <2> QED BY <1>0, <1>1, <1>3, <2>1, UnspawnedKept DEF Control
<1>7. StartIsPending'
  BY <1>0, <1>1, <1>3 DEF Control, StartIsPending, ProcsTyped
<1>8. StarterDistinct'
  <2>1. \A p \in 1..spawned : starter[p] \in Calls
    BY <1>0, MaxSpawnsAssumption DEF ProcsTyped, Procs
  <2>2. \A d \in Calls : stage[d] # "idle" => stage'[d] # "idle"
    BY <1>4, <1>5
  <2> QED BY <1>0, <1>1, <2>1, <2>2 DEF Control, StarterDistinct
<1>9. OneProcess' /\ ReadyMeansStarted'
  BY <1>0, <1>1, <1>3 DEF Control, OneProcess, ReadyMeansStarted
<1>10. AwaitedIsPending'
  <2>1. \A p \in starting : StartOf(p) \in pending' <=> StartOf(p) \in pending
    BY <1>0, <1>3 DEF ProcsTyped
  <2>2. ASSUME NEW d \in Calls
        PROVE  /\ stage'[d] = "sent" <=> CallOf(d) \in pending'
               /\ stage'[d] = "starting" <=>
                    \E p \in starting' : starter'[p] = d /\ StartOf(p) \in pending'
    <3>1. /\ stage[d] = "sent" <=> CallOf(d) \in pending
          /\ stage[d] = "starting" <=>
               \E p \in starting : starter[p] = d /\ StartOf(p) \in pending
      BY <1>0 DEF Control, AwaitedIsPending
    <3>2. CASE d = c
      BY <1>1, <1>5, <2>1, <3>1, <3>2
    <3>3. CASE d # c
      BY <1>1, <1>4, <2>1, <3>1, <3>3
    <3> QED BY <3>2, <3>3
  <2> QED BY <2>2 DEF AwaitedIsPending
<1> QED BY <1>6, <1>7, <1>8, <1>9, <1>10 DEF Control


-----------------------------------------------------------------------------
\* A call spawns a process, or tries to: no process was in use, hence none was starting
\* and, unless a start was given up, none had not exited.
LEMMA SpawnStep ==
  ASSUME BackendInv, NEW c \in Calls, CallSpawns(c) \/ CallSpawnFails(c)
  PROVE  Control'
<1>0. TypeOK /\ Control /\ CallsTyped /\ ProcsTyped /\ PipesTyped
  BY TypeParts DEF BackendInv, Control
<1>1. /\ proc' = spawned + 1 /\ spawned' = spawned + 1 /\ proc' \in Procs /\ proc' # 0
      /\ stage[c] = "idle" /\ proc = 0 /\ killed' = killed /\ stdout' = stdout
      /\ pending' = pending \cup {StartOf(proc')}
      /\ starter' = [starter EXCEPT ![proc'] = c]
      /\ spawned \in Nat /\ proc' > spawned
  <2>1. spawned \in Nat
    BY <1>0, MaxSpawnsAssumption DEF ProcsTyped
  <2>2. proc' = spawned + 1 /\ spawned' = spawned + 1
    BY <1>0, CallSpawnsDoes
  <2>3. proc' # 0 /\ proc' > spawned
    BY <2>1, <2>2
  <2> QED BY <1>0, <2>1, <2>2, <2>3, CallSpawnsDoes
<1>2. starting = {} /\ stage[c] # "starting" /\ CallOf(c) \notin pending
  BY <1>0, <1>1 DEF Control, StartIsPending, AwaitedIsPending, ProcsTyped, Procs
<1>3. \A p \in Procs : p # proc' => /\ life'[p] = life[p] /\ stdin'[p] = stdin[p]
                                    /\ starter'[p] = starter[p]
                                    /\ (StartOf(p) \in pending' <=> StartOf(p) \in pending)
  <2>1. \A p \in Procs : p # proc' => StartOf(p) # StartOf(proc')
    BY Keys
  <2>2. life' = [life EXCEPT ![proc'] = "up"] \/ life' = [life EXCEPT ![proc'] = "absent"]
    BY <1>0, CallSpawnsDoes
  <2>3. stdin' = [stdin EXCEPT ![proc'] = <<StartOf(proc')>>] \/ stdin' = stdin
    BY <1>0, CallSpawnsDoes
  <2> QED BY <1>0, <1>1, <2>1, <2>2, <2>3 DEF ProcsTyped, PipesTyped
<1>4. starter'[proc'] = c /\ StartOf(proc') \in pending'
  BY <1>0, <1>1 DEF ProcsTyped
<1>5. \/ life'[proc'] = "up" /\ starting' = {proc'} /\ stage'[c] = "starting" /\ ready' = ready
      \/ /\ life'[proc'] = "absent" /\ starting' = {} /\ stage'[c] = "done" /\ ready' = FALSE
         /\ stdin' = stdin
  BY <1>0, <1>1, <1>2, CallSpawnsDoes DEF ProcsTyped, CallsTyped
<1>6. \A d \in Calls : d # c => stage'[d] = stage[d]
  BY <1>0, CallSpawnsDoes DEF CallsTyped
<1>7. \A d \in Calls : CallOf(d) \in pending' <=> CallOf(d) \in pending
  BY <1>1, Keys
<1>8. Unspawned'
  <2>1. life[proc'] = "none" /\ stdin[proc'] = <<>> /\ stdout[proc'] = <<>>
    BY <1>0, <1>1 DEF Control, Unspawned
  <2>2. ASSUME NEW p \in Procs
        PROVE  /\ p > spawned' <=> life'[p] = "none"
               /\ p > spawned' => StartOf(p) \notin pending'
               /\ life'[p] \in {"none", "absent"} => stdin'[p] = <<>> /\ stdout'[p] = <<>>
    <3>1. CASE p = proc'
      BY <1>1, <1>5, <2>1, <3>1
    <3>2. CASE p # proc'
      <4>1. /\ p > spawned <=> life[p] = "none"
            /\ p > spawned => StartOf(p) \notin pending
            /\ life[p] \in {"none", "absent"} => stdin[p] = <<>> /\ stdout[p] = <<>>
        BY <1>0 DEF Control, Unspawned
      <4>2. p > spawned' <=> p > spawned
        BY <1>1, <3>2 DEF Procs
      <4> QED BY <1>1, <1>3, <3>2, <4>1, <4>2
    <3> QED BY <3>1, <3>2
  <2> QED BY <2>2 DEF Unspawned
<1>9. StartIsPending'
  BY <1>4, <1>5 DEF StartIsPending
<1>10. StarterDistinct'
  <2>1. 1..spawned' = 1..spawned \cup {proc'} /\ proc' \notin 1..spawned
        /\ 1..spawned \subseteq Procs
    BY <1>0, <1>1, MaxSpawnsAssumption DEF ProcsTyped, Procs
  <2>2. \A p \in 1..spawned : /\ starter'[p] = starter[p] /\ starter[p] \in Calls
                              /\ starter[p] # c /\ stage[starter[p]] # "idle"
    BY <1>0, <1>1, <1>3, <2>1 DEF Control, StarterDistinct, ProcsTyped
  <2>3. \A p \in 1..spawned : stage'[starter'[p]] # "idle"
    BY <1>6, <2>2
  <2>4. stage'[starter'[proc']] # "idle"
    BY <1>4, <1>5
  <2>5. \A p, q \in 1..spawned : starter'[p] = starter'[q] => p = q
    BY <1>0, <2>2 DEF Control, StarterDistinct
  <2>6. \A p \in 1..spawned : starter'[p] # starter'[proc']
    BY <1>4, <2>2
  <2> QED BY <2>1, <2>3, <2>4, <2>5, <2>6 DEF StarterDistinct
<1>11. OneProcess'
  BY <1>0, <1>1, <1>3, <1>5 DEF Control, OneProcess, Procs
<1>12. ReadyMeansStarted'
  BY <1>0, <1>1, <1>5 DEF Control, ReadyMeansStarted
<1>13. AwaitedIsPending'
  <2>1. ASSUME NEW d \in Calls
        PROVE  /\ stage'[d] = "sent" <=> CallOf(d) \in pending'
               /\ stage'[d] = "starting" <=>
                    \E p \in starting' : starter'[p] = d /\ StartOf(p) \in pending'
    <3>1. /\ stage[d] = "sent" <=> CallOf(d) \in pending
          /\ stage[d] # "starting"
      BY <1>0, <1>2 DEF Control, AwaitedIsPending
    <3>2. CASE d = c
      BY <1>1, <1>2, <1>4, <1>5, <1>7, <3>2
    <3>3. CASE d # c
      BY <1>4, <1>5, <1>6, <1>7, <3>1, <3>3
    <3> QED BY <3>2, <3>3
  <2> QED BY <2>1 DEF AwaitedIsPending
<1> QED BY <1>8, <1>9, <1>10, <1>11, <1>12, <1>13 DEF Control

-----------------------------------------------------------------------------
\* The reply to the health check of a start: it comes from the process itself, and the
\* call that spawned it still waits exactly if its timer is armed.
LEMMA StartedStep ==
  ASSUME BackendInv, NEW p \in Procs, ReadStarted(p)
  PROVE  Control'
<1>0. TypeOK /\ Control /\ OwnStart /\ CallsTyped /\ ProcsTyped /\ PipesTyped
  BY TypeParts DEF BackendInv, Control
<1>1. PICK q \in Procs :
        /\ stdout[p] # <<>> /\ Head(stdout[p]).key = StartOf(q) /\ StartOf(q) \in pending
        /\ stdout' = [stdout EXCEPT ![p] = Tail(@)]
        /\ starting' = starting \ {q} /\ ready' = TRUE
        /\ UNCHANGED <<proc, spawned, life, killed, starter>>
        /\ \/ /\ stage[starter[q]] = "starting"
              /\ SendWith(pending \ {StartOf(q)}, starter[q])
           \/ /\ stage[starter[q]] # "starting"
              /\ pending' = pending \ {StartOf(q)} /\ UNCHANGED <<stdin, stage>>
  BY <1>0, ReadStartedDoes
<1>2. p = q
  <2>1. 1 \in DOMAIN stdout[p] /\ Head(stdout[p]) = stdout[p][1]
    BY <1>0, <1>1, Lines DEF PipesTyped
  <2> QED BY <1>0, <1>1, <2>1 DEF OwnStart
<1>3. life[q] \notin {"none", "absent"} /\ q \in 1..spawned /\ starter[q] \in Calls
  <2>1. life[q] \notin {"none", "absent"} /\ ~(q > spawned)
    BY <1>0, <1>1, <1>2 DEF Control, Unspawned
  <2> QED BY <1>0, <2>1, MaxSpawnsAssumption DEF ProcsTyped, Procs
<1>4. \A r \in Procs : r # q => StartOf(r) # StartOf(q)
  BY Keys
<1>5. ASSUME stage[starter[q]] = "starting"
      PROVE  q \in starting /\ proc = q /\ proc # 0
             /\ pending' = (pending \ {StartOf(q)}) \cup {CallOf(starter[q])}
             /\ stage' = [stage EXCEPT ![starter[q]] = "sent"]
  <2>1. PICK r \in starting : starter[r] = starter[q] /\ StartOf(r) \in pending
    BY <1>0, <1>3, <1>5 DEF Control, AwaitedIsPending
  <2>2. r \in Procs /\ ~(r > spawned)
    BY <1>0, <2>1 DEF ProcsTyped, Control, Unspawned
  <2>3. r \in 1..spawned
    BY <1>0, <2>2, MaxSpawnsAssumption DEF ProcsTyped, Procs
  <2>4. r = q
    BY <1>0, <1>3, <2>1, <2>3 DEF Control, StarterDistinct
  <2>5. q \in starting /\ proc = q /\ proc # 0
    BY <1>0, <2>1, <2>4 DEF Control, StartIsPending, Procs
  <2>6. pending \ {StartOf(q)} \in SUBSET Key
    BY <1>0 DEF ProcsTyped
  <2>7. SendWith(pending \ {StartOf(q)}, starter[q])
    BY <1>1, <1>5
  <2> QED BY <1>0, <1>3, <2>5, <2>6, <2>7, SendDoes
<1>6. \A r \in Procs : r # q => (StartOf(r) \in pending' <=> StartOf(r) \in pending)
  BY <1>1, <1>4, <1>5, Keys
<1>7. StartOf(q) \notin pending'
  BY <1>1, <1>5, Keys
<1>8. \A d \in Calls : d # starter[q] => stage'[d] = stage[d]
                                         /\ (CallOf(d) \in pending' <=> CallOf(d) \in pending)
  BY <1>0, <1>1, <1>5, Keys DEF CallsTyped
<1>9. \/ /\ stage[starter[q]] = "starting" /\ stage'[starter[q]] = "sent"
         /\ CallOf(starter[q]) \in pending'
      \/ /\ stage[starter[q]] # "starting" /\ stage'[starter[q]] = stage[starter[q]]
         /\ CallOf(starter[q]) \in pending' <=> CallOf(starter[q]) \in pending
  BY <1>0, <1>1, <1>3, <1>5, Keys DEF CallsTyped
<1>10. Unspawned'
  <2>1. \A r \in Procs : stdin'[r] = stdin[r] \/ life[r] = "up"
    <3>1. pending \ {StartOf(q)} \in SUBSET Key
      BY <1>0 DEF ProcsTyped
    <3> QED BY <1>0, <1>1, <1>3, <3>1, SendDoes
  <2>2. \A r \in Procs : r # q => stdout'[r] = stdout[r]
    BY <1>0, <1>1, <1>2 DEF PipesTyped
  <2>3. \A r \in Procs : StartOf(r) \in pending' => StartOf(r) \in pending
    BY <1>1, <1>6
  <2> QED BY <1>0, <1>1, <1>3, <2>1, <2>2, <2>3, UnspawnedKept DEF Control
<1>11. StartIsPending'
  BY <1>0, <1>1, <1>6 DEF Control, StartIsPending, ProcsTyped
<1>12. StarterDistinct'
  <2>1. \A r \in 1..spawned : starter[r] \in Calls
    BY <1>0, MaxSpawnsAssumption DEF ProcsTyped, Procs
  <2>2. \A d \in Calls : stage[d] # "idle" => stage'[d] # "idle"
    BY <1>8, <1>9
  <2> QED BY <1>0, <1>1, <2>1, <2>2 DEF Control, StarterDistinct
<1>13. OneProcess'
  <2>1. \A r \in Procs : StartOf(r) \in pending' => StartOf(r) \in pending
    BY <1>1, <1>6
  <2> QED BY <1>0, <1>1, <2>1 DEF Control, OneProcess
<1>14. ReadyMeansStarted'
  <2>1. killed = {} => proc = q
    BY <1>0, <1>1, <1>3 DEF Control, OneProcess
  <2> QED BY <1>1, <2>1 DEF ReadyMeansStarted, Procs
<1>15. AwaitedIsPending'
  <2>1. ASSUME NEW d \in Calls
        PROVE  /\ stage'[d] = "sent" <=> CallOf(d) \in pending'
               /\ stage'[d] = "starting" <=>
                    \E r \in starting' : starter'[r] = d /\ StartOf(r) \in pending'
    <3>1. /\ stage[d] = "sent" <=> CallOf(d) \in pending
          /\ stage[d] = "starting" <=>
               \E r \in starting : starter[r] = d /\ StartOf(r) \in pending
      BY <1>0 DEF Control, AwaitedIsPending
    <3>2. \A r \in starting' : /\ r \in starting /\ r # q /\ starter'[r] = starter[r]
                               /\ StartOf(r) \in pending' <=> StartOf(r) \in pending
      BY <1>0, <1>1, <1>6 DEF ProcsTyped
    <3>3. starting = starting' \/ (q \in starting /\ starting = starting' \cup {q})
      BY <1>1
    <3>4. CASE d # starter[q]
      BY <1>1, <1>8, <3>1, <3>2, <3>3, <3>4
    <3>5. CASE d = starter[q] /\ stage[starter[q]] # "starting"
      BY <1>1, <1>9, <3>1, <3>2, <3>5
    <3>6. CASE d = starter[q] /\ stage[starter[q]] = "starting"
      <4>1. stage'[d] = "sent" /\ CallOf(d) \in pending'
        BY <1>9, <3>6
      <4>2. ASSUME NEW r \in starting', starter[r] = d, StartOf(r) \in pending'
            PROVE  FALSE
        <5>1. r \in Procs /\ StartOf(r) \in pending /\ r # q
          BY <1>0, <3>2, <4>2 DEF ProcsTyped
        <5>2. ~(r > spawned)
          BY <1>0, <5>1 DEF Control, Unspawned
        <5>3. r \in 1..spawned
          BY <1>0, <5>1, <5>2, MaxSpawnsAssumption DEF ProcsTyped, Procs
        <5> QED BY <1>0, <1>3, <3>6, <4>2, <5>1, <5>3 DEF Control, StarterDistinct
      <4> QED BY <3>2, <4>1, <4>2
    <3> QED BY <3>4, <3>5, <3>6
  <2> QED BY <2>1 DEF AwaitedIsPending
<1> QED BY <1>10, <1>11, <1>12, <1>13, <1>14, <1>15 DEF Control


-----------------------------------------------------------------------------
\* A process exits: whoever waited is rejected, and no process is in use.
LEMMA ExitStep ==
  ASSUME BackendInv, NEW p \in Procs, Exit(p)
  PROVE  Control'
<1>0. TypeOK /\ Control /\ CallsTyped /\ ProcsTyped /\ PipesTyped
  BY TypeParts DEF BackendInv, Control
<1>1. /\ life[p] = "dead" /\ life' = [life EXCEPT ![p] = "gone"] /\ ready' = FALSE
      /\ stage' = [c \in Calls |-> IF c \in Rejected THEN "done" ELSE stage[c]]
      /\ pending' = {} /\ proc' = 0
      /\ UNCHANGED <<spawned, killed, starter, stdin, stdout>>
  BY DEF Exit, pipes
<1>2. starting' = {}
  BY <1>0 DEF Exit, Control, StartIsPending
<1>3. life'[p] = "gone" /\ \A q \in Procs : q # p => life'[q] = life[q]
  BY <1>0, <1>1 DEF ProcsTyped
<1>4. \A c \in Calls : stage'[c] \in {"idle", "done"} /\ (stage[c] # "idle" => stage'[c] # "idle")
  <2> SUFFICES ASSUME NEW c \in Calls
               PROVE  stage'[c] \in {"idle", "done"} /\ (stage[c] # "idle" => stage'[c] # "idle")
    OBVIOUS
  <2>1. CASE c \in Rejected
    BY <1>1, <2>1
  <2>2. CASE c \notin Rejected
    <3>1. stage[c] # "sent"
      BY <1>0, <2>2 DEF Rejected, Control, AwaitedIsPending
    <3>2. stage[c] # "starting"
      BY <1>0, <2>2 DEF Rejected, Control, AwaitedIsPending, ProcsTyped
    <3> QED BY <1>0, <1>1, <2>2, <3>1, <3>2 DEF CallsTyped
  <2> QED BY <2>1, <2>2
<1>5. Unspawned'
  BY <1>0, <1>1, <1>3, UnspawnedKept DEF Control
<1>6. StartIsPending'
  BY <1>2 DEF StartIsPending
<1>7. StarterDistinct'
  <2>1. \A r \in 1..spawned : starter[r] \in Calls
    BY <1>0, MaxSpawnsAssumption DEF ProcsTyped, Procs
  <2> QED BY <1>0, <1>1, <1>4, <2>1 DEF Control, StarterDistinct
<1>8. OneProcess'
  BY <1>0, <1>1, <1>3 DEF Control, OneProcess
<1>9. AwaitedIsPending'
  BY <1>1, <1>2, <1>4 DEF AwaitedIsPending
<1>10. ReadyMeansStarted'
  BY <1>1 DEF ReadyMeansStarted
<1> QED BY <1>5, <1>6, <1>7, <1>8, <1>9, <1>10 DEF Control

\* A start is given up: the process it timed is the one in use, and is killed.
LEMMA StartTimeoutStep ==
  ASSUME BackendInv, NEW p \in Procs, StartTimeout(p)
  PROVE  Control'
<1>0. TypeOK /\ Control /\ CallsTyped /\ ProcsTyped /\ PipesTyped
  BY TypeParts DEF BackendInv, Control
<1>1. /\ p \in starting /\ starting' = starting \ {p} /\ proc' = 0 /\ ready' = FALSE
      /\ stage' = [stage EXCEPT ![starter[p]] = "done"]
      /\ killed' = killed \cup ({proc} \ {0})
      /\ UNCHANGED <<spawned, life, pending, starter, stdin, stdout>>
  BY DEF StartTimeout, Fail, pipes
<1>2. starting = {p} /\ proc = p /\ StartOf(p) \in pending /\ starter[p] \in Calls
  BY <1>0, <1>1 DEF Control, StartIsPending, ProcsTyped
<1>3. stage[starter[p]] = "starting"
  BY <1>0, <1>1, <1>2 DEF Control, AwaitedIsPending
<1>4. stage'[starter[p]] = "done" /\ \A c \in Calls : c # starter[p] => stage'[c] = stage[c]
  BY <1>0, <1>1, <1>2 DEF CallsTyped
<1>5. starting' = {} /\ killed' # {}
  BY <1>1, <1>2 DEF Procs
<1>6. Unspawned'
  BY <1>0, <1>1, UnspawnedKept DEF Control
<1>7. StartIsPending'
  BY <1>5 DEF StartIsPending
<1>8. StarterDistinct'
  <2>1. \A r \in 1..spawned : starter[r] \in Calls
    BY <1>0, MaxSpawnsAssumption DEF ProcsTyped, Procs
  <2>2. \A d \in Calls : stage[d] # "idle" => stage'[d] # "idle"
    BY <1>4
  <2> QED BY <1>0, <1>1, <2>1, <2>2 DEF Control, StarterDistinct
<1>9. OneProcess' /\ ReadyMeansStarted'
  BY <1>5 DEF OneProcess, ReadyMeansStarted
<1>10. AwaitedIsPending'
  BY <1>0, <1>1, <1>2, <1>3, <1>4, <1>5 DEF Control, AwaitedIsPending
<1> QED BY <1>6, <1>7, <1>8, <1>9, <1>10 DEF Control

-----------------------------------------------------------------------------
LEMMA BackendInvInit == Init => BackendInv
<1> SUFFICES ASSUME Init
             PROVE  BackendInv
  OBVIOUS
<1> USE MaxSpawnsAssumption DEF Procs, Init
<1>1. TypeOK
  <2>1. CallsTyped
    BY DEF CallsTyped
  <2>2. ProcsTyped
    BY CallsAssumption DEF ProcsTyped
  <2>3. FlagsTyped
    BY DEF FlagsTyped
  <2>4. PipesTyped
    <3>1. <<>> \in Seq(Key) /\ <<>> \in Seq(Line)
      OBVIOUS
    <3> QED BY <3>1 DEF PipesTyped
  <2> QED BY <2>1, <2>2, <2>3, <2>4, TypeParts
<1>2. Unspawned /\ StartIsPending /\ StarterDistinct
  BY DEF Unspawned, StartIsPending, StarterDistinct
<1>3. OwnStart
  BY DEF OwnStart
<1>4. OneProcess /\ AwaitedIsPending /\ ReadyMeansStarted
  BY DEF OneProcess, AwaitedIsPending, ReadyMeansStarted
<1> QED BY <1>1, <1>2, <1>3, <1>4 DEF BackendInv

LEMMA BackendInvNext == BackendInv /\ [Next]_vars => BackendInv'
<1> SUFFICES ASSUME BackendInv, [Next]_vars
             PROVE  BackendInv'
  OBVIOUS
<1>1. TypeOK' /\ OwnStart'
  BY TypeStep, OwnStartStep DEF BackendInv
<1>2. CASE \E c \in Calls : Call(c) \/ RequestTimeout(c)
  <2>1. Control'
    BY <1>2, SentStep, SpawnStep, SettleStep DEF Call
  <2> QED BY <1>1, <2>1 DEF BackendInv, Control
<1>3. CASE \E p \in Procs : Bridge(p) \/ Read(p) \/ Exit(p) \/ StartTimeout(p)
  <2>1. Control'
    BY <1>3, QuietStep, DieStep, SettleStep, StartedStep, ExitStep, StartTimeoutStep
    DEF Bridge, Read
  <2> QED BY <1>1, <2>1 DEF BackendInv, Control
<1>4. CASE UNCHANGED vars
  BY <1>1, <1>4 DEF BackendInv, Unspawned, StartIsPending, StarterDistinct, OneProcess,
     AwaitedIsPending, ReadyMeansStarted, vars, pipes, calls
<1> QED BY <1>2, <1>3, <1>4 DEF Next

\* The invariant of the backend holds of every run of it.
LEMMA BackendInvHolds == Spec => []BackendInv
<1>1. Init => BackendInv
  BY BackendInvInit
<1>2. BackendInv /\ [Next]_vars => BackendInv'
  BY BackendInvNext
<1> QED BY <1>1, <1>2, PTL DEF Spec

\* pythonBackend.ts: the object's fields, the pipes and the settled calls have the
\* values the code may give them, and a call is settled exactly when it is over.
THEOREM TypesKept == Spec => []TypeOK
<1>1. BackendInv => TypeOK
  BY DEF BackendInv
<1> QED BY <1>1, BackendInvHolds, PTL

\* Whoever waits for the backend has an entry in this.pending, and only they do:
\* whatever the order of exits, late replies, timers and spawns, no call is dropped.
THEOREM AwaitedKept == Spec => []AwaitedIsPending
<1>1. BackendInv => AwaitedIsPending
  BY DEF BackendInv
<1> QED BY <1>1, BackendInvHolds, PTL

\* Until a start is given up, this._ready says that a started process is in use, every
\* process that runs is the one in use, and a start timer can only kill its own process.
THEOREM InUseKept == Spec => []ProcessInUse
<1>1. BackendInv => ProcessInUse
  <2> SUFFICES ASSUME BackendInv
               PROVE  ProcessInUse
    OBVIOUS
  <2>1. ReadyMeansStarted /\ StartIsPending /\ OneProcess
    BY DEF BackendInv
  <2>2. OwnedUnlessKilled
    BY <2>1 DEF OwnedUnlessKilled, StartIsPending, OneProcess
  <2> QED BY <2>1, <2>2 DEF ProcessInUse
<1> QED BY <1>1, BackendInvHolds, PTL

-----------------------------------------------------------------------------
(***************************************************************************)
(* The HTTP backend, for any time limit, sizes and maximum.                *)
(***************************************************************************)
CONSTANTS HttpTimeLimit, HttpMaxSize, HttpSizes, HttpEndTime
VARIABLES httpStage, httpMode, httpElapsed, httpDeclared, httpHeld, httpFrom

Http == INSTANCE HttpBackend WITH
  TimeLimit <- HttpTimeLimit, MaxSize <- HttpMaxSize, Sizes <- HttpSizes, EndTime <- HttpEndTime,
  stage <- httpStage, mode <- httpMode, elapsed <- httpElapsed, declared <- httpDeclared,
  held <- httpHeld, from <- httpFrom

HttpConfig == HttpSizes \subseteq Nat /\ HttpMaxSize \in Nat /\ HttpEndTime \in Nat

\* Until there is a body nothing is held; what goes on to be downloaded comes from an
\* address, and what is handed on without a download has passed the limit.
HttpInv ==
  /\ Http!TypeOK
  /\ httpStage \in {"fetching", "body", "idle"} => httpFrom = "none" /\ httpHeld = 0
  /\ httpStage = "download" => httpFrom = "url"
  /\ Http!SizeRespected

LEMMA HttpInvInit == ASSUME HttpConfig, Http!Init PROVE HttpInv
<1>1. 0 \in 0..HttpEndTime
  BY DEF HttpConfig
<1> QED BY <1>1 DEF HttpInv, Http!Init, Http!TypeOK, Http!Settled, Http!SizeRespected

LEMMA HttpInvNext ==
  ASSUME HttpConfig, HttpInv, [Http!Next]_(Http!httpVars)
  PROVE  HttpInv'
<1> USE DEF HttpInv, Http!TypeOK, Http!Settled, Http!SizeRespected
<1>0. 0 \in 0..HttpEndTime
  BY DEF HttpConfig
<1>1. CASE Http!Synthesize
  BY <1>0, <1>1 DEF Http!Synthesize
<1>2. CASE Http!Unreachable \/ Http!TimeOut \/ Http!Written
  BY <1>2 DEF Http!Unreachable, Http!TimeOut, Http!Written
<1>7. CASE Http!Tick
  <2>1. httpElapsed' \in 0..HttpEndTime
    BY <1>7 DEF Http!Tick, HttpConfig
  <2> QED BY <1>7, <2>1 DEF Http!Tick
<1>3. ASSUME NEW size \in HttpSizes, Http!Headers(size)
      PROVE  HttpInv'
  BY <1>3 DEF Http!Headers
<1>4. ASSUME NEW size \in HttpSizes, Http!Body(size)
      PROVE  HttpInv'
  <2>1. size \in Nat /\ HttpMaxSize \in Nat
    BY DEF HttpConfig
  <2>2. httpFrom = "none"
    BY <1>4 DEF Http!Body
  <2>3. PICK shape \in {"bytes", "url", "server", "bad"} :
          IF Http!TooLarge(size) \/ shape = "bad" \/ (shape = "server" /\ httpMode = "base64")
          THEN httpStage' = "error" /\ UNCHANGED httpFrom
          ELSE /\ httpFrom' = shape
               /\ httpStage' = IF shape = "url" THEN "download"
                               ELSE IF shape = "bytes" /\ httpMode = "path" THEN "writing" ELSE "ok"
    BY <1>4 DEF Http!Body
  <2>4. /\ httpHeld' = size /\ UNCHANGED <<httpMode, httpElapsed, httpDeclared>>
    BY <1>4 DEF Http!Body
  <2>5. Http!TooLarge(size) \/ size <= HttpMaxSize
    BY <2>1 DEF Http!TooLarge
  <2> QED BY <2>2, <2>3, <2>4, <2>5
<1>5. ASSUME NEW size \in HttpSizes, Http!Download(size)
      PROVE  HttpInv'
  BY <1>5 DEF Http!Download
<1>6. CASE UNCHANGED Http!httpVars
  BY <1>6 DEF Http!httpVars
<1> QED BY <1>1, <1>2, <1>3, <1>4, <1>5, <1>6, <1>7 DEF Http!Next

\* The types of the HTTP backend, whatever a server answers (httpBackend.ts).
THEOREM HttpTypesKept == ASSUME HttpConfig PROVE Http!Spec => []Http!TypeOK
<1>1. HttpInv => Http!TypeOK
  BY DEF HttpInv
<1> QED BY <1>1, HttpInvInit, HttpInvNext, PTL DEF Http!Spec

\* httpBackend.ts: audio that is handed on is of a size that was allowed, unless it was
\* downloaded, whether or not the server declared a length.
THEOREM HttpSizeKept == ASSUME HttpConfig PROVE Http!Spec => []Http!SizeRespected
<1>1. HttpInv => Http!SizeRespected
  BY DEF HttpInv
<1> QED BY <1>1, HttpInvInit, HttpInvNext, PTL DEF Http!Spec

-----------------------------------------------------------------------------
(***************************************************************************)
(* The speech engine. A result's file is named after its call, so that two *)
(* results in one file are of the same name.                               *)
(***************************************************************************)
EngineConfig == MaxCalls \in Nat

BackendNames == {"", "kokoro", "piper", "mock"}
ModelNames == PiperVoices \cup {"kokoro", "none"}

ResultsNamed ==
  /\ \E S : results \in Seq(S)
  /\ Len(results) <= MaxCalls
  /\ \A k \in 1..Len(results) :
       /\ results[k].file \in DOMAIN disk
       /\ results[k].file = FileName(results[k].text, results[k].save, results[k].voice)

EngineInv ==
  /\ installed \in Packages /\ backend \in BackendNames
  /\ models \subseteq PiperVoices \cup {"kokoro"} /\ loaded \subseteq ModelNames
  /\ ResultsNamed
  /\ ResultStands

LEMMA TuplesApart ==
  /\ \A x, u, v : <<x>> # <<u, v>>
  /\ \A x, y : <<x>> = <<y>> => x = y
  /\ \A x, y, u, v : <<x, y>> = <<u, v>> => x = u /\ y = v
OBVIOUS

LEMMA SameFileSameName ==
  ASSUME NEW a, NEW b, FileName(a.text, a.save, a.voice) = FileName(b.text, b.save, b.voice)
  PROVE  SameName(a, b)
BY TuplesApart, Zenon DEF FileName, SameName

LEMMA BackendKnown ==
  ASSUME backend \in BackendNames
  PROVE  Backend \in BackendNames
BY Zenon DEF Backend, AutoBackend, BackendNames

LEMMA EngineInvInit == ASSUME EngineConfig, EngineInit PROVE EngineInv
<1>1. backend \in BackendNames
  BY Zenon DEF EngineInit, BackendNames
<1>2. results = <<>> /\ results \in Seq({}) /\ Len(results) = 0
  <2>1. results = <<>>
    BY DEF EngineInit
  <2> QED BY <2>1
<1>3. ResultsNamed
  BY <1>2 DEF ResultsNamed, EngineConfig
<1>4. ResultStands
  BY <1>2 DEF ResultStands
<1>5. installed \in Packages /\ models = {} /\ loaded = {}
  BY DEF EngineInit
<1> QED BY <1>1, <1>3, <1>4, <1>5 DEF EngineInv

\* A call that answers.
LEMMA SpokenKeeps ==
  ASSUME EngineConfig, ResultsNamed, ResultStands, Len(results) < MaxCalls,
         NEW text, NEW save, NEW audio, NEW r,
         r.file = FileName(text, save, r.voice), r.text = text, r.save = save, r.audio = audio,
         disk' = [f \in DOMAIN disk \cup {r.file} |-> IF f = r.file THEN audio ELSE disk[f]],
         results' = Append(results, r)
  PROVE  ResultsNamed' /\ ResultStands'
<1>1. PICK S : results \in Seq(S)
  BY DEF ResultsNamed
<1> DEFINE n == Len(results)
<1>2. /\ n \in Nat /\ results \in Seq(S \cup {r}) /\ results' \in Seq(S \cup {r}) /\ Len(results') = n + 1
      /\ DOMAIN results = 1..n /\ DOMAIN results' = 1..(n + 1)
      /\ results'[n + 1] = r /\ \A k \in 1..n : results'[k] = results[k]
  BY <1>1
<1>3. \A f \in DOMAIN disk : f # r.file => disk'[f] = disk[f]
  OBVIOUS
<1>4. DOMAIN disk' = DOMAIN disk \cup {r.file} /\ disk'[r.file] = audio
  OBVIOUS
<1>5. ResultsNamed'
  <2>1. ASSUME NEW k \in 1..(n + 1)
        PROVE  /\ results'[k].file \in DOMAIN disk'
               /\ results'[k].file = FileName(results'[k].text, results'[k].save, results'[k].voice)
    <3>1. CASE k = n + 1
      BY <1>2, <1>4, <3>1
    <3>2. CASE k \in 1..n
      BY <1>2, <1>4, <3>2 DEF ResultsNamed
    <3> QED BY <1>2, <3>1, <3>2
  <2>2. \E T : results' \in Seq(T)
    BY <1>2
  <2>3. Len(results') <= MaxCalls
    BY <1>2 DEF EngineConfig
  <2> QED BY <1>2, <2>1, <2>2, <2>3 DEF ResultsNamed
<1>6. ASSUME NEW k \in 1..(n + 1)
      PROVE  \/ disk'[results'[k].file] = results'[k].audio
             \/ \E j \in (k + 1)..(n + 1) : SameName(results'[k], results'[j])
  <2>1. CASE k = n + 1
    BY <1>2, <1>4, <2>1
  <2>2. CASE k \in 1..n /\ results[k].file = r.file
    <3>1. SameName(results[k], r)
      BY <2>2, SameFileSameName DEF ResultsNamed
    <3>2. n + 1 \in (k + 1)..(n + 1)
      BY <1>2, <2>2
    <3> QED BY <1>2, <2>2, <3>1, <3>2
  <2>3. CASE k \in 1..n /\ results[k].file # r.file
    <3>1. disk'[results[k].file] = disk[results[k].file]
      BY <1>3, <2>3 DEF ResultsNamed
    <3>2. \/ disk[results[k].file] = results[k].audio
          \/ \E j \in (k + 1)..n : SameName(results[k], results[j])
      BY <1>2, <2>3 DEF ResultStands
    <3>3. ASSUME NEW j \in (k + 1)..n, SameName(results[k], results[j])
          PROVE  j \in (k + 1)..(n + 1) /\ SameName(results'[k], results'[j])
      BY <1>2, <2>3, <3>3
    <3> QED BY <1>2, <2>3, <3>1, <3>2, <3>3
  <2> QED BY <1>2, <2>1, <2>2, <2>3
<1>7. ResultStands'
  BY <1>2, <1>6 DEF ResultStands
<1> QED BY <1>5, <1>7

LEMMA SpeakKeeps ==
  ASSUME EngineConfig, EngineInv, NEW text \in Texts, NEW request \in Requests, NEW save \in SaveAs,
         Speak(text, request, save)
  PROVE  EngineInv'
<1> DEFINE graph == Graph(text, request)
           audio == Audio(Backend, graph)
           answer1 == [request |-> request, text |-> text, save |-> save,
                      file |-> FileName(text, save, graph.speaker), audio |-> audio, voice |-> graph.speaker]
<1>1. /\ Len(results) < MaxCalls /\ backend' = Backend /\ UNCHANGED <<installed, models>>
      /\ \/ /\ Ready(Backend, graph)
            /\ loaded' = loaded \cup {Model(Backend, graph)}
            /\ disk' = [f \in DOMAIN disk \cup {answer1.file} |-> IF f = answer1.file THEN audio ELSE disk[f]]
            /\ results' = Append(results, answer1)
         \/ UNCHANGED <<loaded, disk, results>>
  BY DEF Speak
<1>2. backend' \in BackendNames
  BY <1>1, BackendKnown DEF EngineInv
<1> HIDE DEF graph, audio
<1>3. CASE UNCHANGED <<loaded, disk, results>>
  BY <1>1, <1>2, <1>3 DEF EngineInv, ResultsNamed, ResultStands
<1>4. CASE /\ Ready(Backend, graph)
           /\ loaded' = loaded \cup {Model(Backend, graph)}
           /\ disk' = [f \in DOMAIN disk \cup {answer1.file} |-> IF f = answer1.file THEN audio ELSE disk[f]]
           /\ results' = Append(results, answer1)
  <2>1. ResultsNamed' /\ ResultStands'
    <3>1. /\ answer1.file = FileName(text, save, answer1.voice)
          /\ answer1.text = text /\ answer1.save = save /\ answer1.audio = audio
      OBVIOUS
    <3> HIDE DEF answer1
    <3> QED BY <1>1, <1>4, <3>1, SpokenKeeps DEF EngineInv
  <2>2. loaded' \subseteq ModelNames
    BY <1>4 DEF EngineInv, Ready, ModelNames
  <2> QED BY <1>1, <1>2, <2>1, <2>2 DEF EngineInv
<1> QED BY <1>1, <1>3, <1>4

LEMMA EngineInvNext ==
  ASSUME EngineConfig, EngineInv, [EngineNext]_engineVars
  PROVE  EngineInv'
<1>1. ASSUME NEW text \in Texts, NEW r \in Requests, Stream(text, r)
      PROVE  EngineInv'
  <2>1. /\ UNCHANGED <<installed, backend, models, disk, results>>
        /\ loaded' \subseteq ModelNames
    BY <1>1 DEF Stream, Ready, EngineInv, ModelNames
  <2> QED BY <2>1 DEF EngineInv, ResultsNamed, ResultStands
<1>2. ASSUME NEW m \in PiperVoices \cup {"kokoro"}, Download(m)
      PROVE  EngineInv'
  <2>1. /\ UNCHANGED <<installed, backend, loaded, disk, results>>
        /\ models' \subseteq PiperVoices \cup {"kokoro"}
    BY <1>2 DEF Download, EngineInv
  <2> QED BY <2>1 DEF EngineInv, ResultsNamed, ResultStands
<1>3. CASE UNCHANGED engineVars
  BY <1>3 DEF engineVars, EngineInv, ResultsNamed, ResultStands
<1> QED BY <1>1, <1>2, <1>3, SpeakKeeps DEF EngineNext

LEMMA EngineInvKept == ASSUME EngineConfig PROVE EngineSpec => []EngineInv
BY EngineInvInit, EngineInvNext, PTL DEF EngineSpec

\* The types of the speech engine (api.py, loader.py).
THEOREM SpeechTypesKept == ASSUME EngineConfig PROVE EngineSpec => []EngineTypeOK
<1>1. EngineInv => EngineTypeOK
  <2> SUFFICES ASSUME EngineInv PROVE EngineTypeOK
    OBVIOUS
  <2>1. DOMAIN results = 1..Len(results)
    BY DEF EngineInv, ResultsNamed
  <2> QED BY <2>1 DEF EngineInv, EngineTypeOK, ResultsNamed, BackendNames, ModelNames
<1> QED BY <1>1, EngineInvKept, PTL

\* api.py: the file of a result holds what its call spoke until a later call was saved under
\* the same name, or spoke the same text with the same voice.
THEOREM FilesStand == ASSUME EngineConfig PROVE EngineSpec => []ResultStands
<1>1. EngineInv => ResultStands
  BY DEF EngineInv
<1> QED BY <1>1, EngineInvKept, PTL
=============================================================================
