----------------------------- MODULE Monitoring -----------------------------
(***************************************************************************)
(* The monitoring of the Python library (voice_soundboard/monitoring):     *)
(* health checks, and metrics.                                             *)
(***************************************************************************)
EXTENDS Naturals, Sequences, SequencesExt, FiniteSets, Functions

(***************************************************************************)
(* The health check (voice_soundboard/monitoring/health.py): check() with  *)
(* its cache of one second, which the callers and the monitor thread share *)
(* without a lock, and the start and stop of the monitor. Time goes by in  *)
(* half seconds.                                                           *)
(***************************************************************************)
CONSTANTS
  Callers,   \* the threads that call check()
  EndTime    \* bound: time runs this far

VARIABLES
  time,
  lastCheck, lastTime,  \* _last_check, as when it was asked (0: None), and _last_check_time
  checking,             \* thread -> [pc, now]
  answer,               \* caller -> the last answer [made, at, cached]; the monitor drops its own
  overlapped,           \* history: two checks were computing at once
  stopEvent, monitor,   \* _stop_event, the state of _background_thread
  control,              \* the caller of start and stop: 0, or since when it joins
  wanted, late          \* history: the last call was start; it found a thread that outlived stop

healthVars == <<time, lastCheck, lastTime, checking, answer, overlapped, stopEvent, monitor,
                control, wanted, late>>

Fresh == 2        \* half seconds: the cache is good for less
JoinTimeout == 4
Statuses == {"healthy", "degraded", "unhealthy", "unknown"}
Outcomes == Statuses \cup {"raises"}  \* what a checker does
Never == [made |-> 0, at |-> 0, cached |-> FALSE]
Threads == Callers \cup {"monitor"}
Idle == [pc |-> "out", now |-> 0]

\* Mutant: a degraded component hides an unhealthy one before it.
Worst_LastCounts(outcomes) ==
  FoldLeft(LAMBDA worst, o : IF o \in {"unhealthy", "raises"} THEN "unhealthy"
                             ELSE IF o = "degraded" THEN "degraded" ELSE worst,
           "healthy", outcomes)

\* check(): the worst of the components, one after the other; a checker that raises is
\* unhealthy, and unknown counts for nothing.
Worst(outcomes) ==
  FoldLeft(LAMBDA worst, o : IF o \in {"unhealthy", "raises"} THEN "unhealthy"
                             ELSE IF o = "degraded" /\ worst # "unhealthy" THEN "degraded"
                             ELSE worst,
           "healthy", outcomes)

-----------------------------------------------------------------------------
Computing == {t \in Threads : checking[t].pc \in {"components", "store", "store time"}}

\* The time is read first, then the cache.
Enter(t, force) ==
  /\ checking[t].pc = "out"
  /\ LET hit == ~force /\ lastCheck # 0 /\ time - lastTime < Fresh
     IN /\ checking' = [checking EXCEPT ![t] = [pc |-> IF hit THEN "serve" ELSE "components", now |-> time]]
        /\ overlapped' = (overlapped \/ (~hit /\ Computing # {}))
  /\ UNCHANGED <<time, lastCheck, lastTime, answer, stopEvent, monitor, control, wanted, late>>

Check(t) == t \in Callers /\ \E force \in BOOLEAN : Enter(t, force)

Serve(t) ==
  /\ t \in Callers /\ checking[t].pc = "serve"
  /\ answer' = [answer EXCEPT ![t] = [made |-> lastCheck, at |-> checking[t].now, cached |-> TRUE]]
  /\ checking' = [checking EXCEPT ![t] = Idle]
  /\ UNCHANGED <<time, lastCheck, lastTime, overlapped, stopEvent, monitor, control, wanted, late>>

\* check_components(), which may take its time; then the two writes.
Components(t) ==
  /\ checking[t].pc = "components"
  /\ checking' = [checking EXCEPT ![t].pc = "store"]
  /\ UNCHANGED <<time, lastCheck, lastTime, answer, overlapped, stopEvent, monitor, control, wanted, late>>

\* A check that was computed is answered to its caller.
Answered(t, now) ==
  answer' = [c \in Callers |-> IF c = t THEN [made |-> now, at |-> now, cached |-> FALSE] ELSE answer[c]]

\* Mutant: the cache is dated by when it was written.
StoreTime_Late(t) ==
  /\ checking[t].pc = "store time"
  /\ lastTime' = time
  /\ Answered(t, checking[t].now)
  /\ checking' = [checking EXCEPT ![t] = Idle]
  /\ UNCHANGED <<time, lastCheck, overlapped, stopEvent, monitor, control, wanted, late>>

Store(t) ==
  /\ checking[t].pc = "store"
  /\ lastCheck' = checking[t].now
  /\ checking' = [checking EXCEPT ![t].pc = "store time"]
  /\ UNCHANGED <<time, lastTime, answer, overlapped, stopEvent, monitor, control, wanted, late>>

StoreTime(t) ==
  /\ checking[t].pc = "store time"
  /\ lastTime' = checking[t].now
  /\ Answered(t, checking[t].now)
  /\ checking' = [checking EXCEPT ![t] = Idle]
  /\ UNCHANGED <<time, lastCheck, overlapped, stopEvent, monitor, control, wanted, late>>

-----------------------------------------------------------------------------
Alive == monitor \in {"loop", "check", "wait"}

\* start_background_monitoring(): nothing when a thread is alive, though it may be ending.
StartAlive ==
  /\ control = 0 /\ Alive
  /\ wanted' = TRUE /\ late' = stopEvent
  /\ UNCHANGED <<time, lastCheck, lastTime, checking, answer, overlapped, stopEvent, monitor, control>>

\* Mutant: the event is not cleared.
StartThread_NoClear ==
  /\ control = 0 /\ ~Alive
  /\ monitor' = "loop" /\ wanted' = TRUE /\ late' = FALSE
  /\ UNCHANGED <<time, lastCheck, lastTime, checking, answer, overlapped, stopEvent, control>>

StartThread ==
  /\ control = 0 /\ ~Alive
  /\ stopEvent' = FALSE /\ monitor' = "loop" /\ wanted' = TRUE /\ late' = FALSE
  /\ UNCHANGED <<time, lastCheck, lastTime, checking, answer, overlapped, control>>

\* stop_background_monitoring(): the event, then the join and its timeout.
Stop ==
  /\ control = 0 /\ ~stopEvent
  /\ stopEvent' = TRUE /\ control' = time /\ wanted' = FALSE
  /\ UNCHANGED <<time, lastCheck, lastTime, checking, answer, overlapped, monitor, late>>

Joined ==
  /\ control # 0 /\ (~Alive \/ time - control >= JoinTimeout)
  /\ control' = 0
  /\ UNCHANGED <<time, lastCheck, lastTime, checking, answer, overlapped, stopEvent, monitor, wanted, late>>

\* _background_loop(): the event is tested, a check is forced, then it waits.
MonitorLoop ==
  /\ monitor = "loop"
  /\ IF stopEvent
     THEN monitor' = "ended" /\ UNCHANGED <<checking, overlapped>>
     ELSE /\ monitor' = "check"
          /\ checking' = [checking EXCEPT !["monitor"] = [pc |-> "components", now |-> time]]
          /\ overlapped' = (overlapped \/ Computing # {})
  /\ UNCHANGED <<time, lastCheck, lastTime, answer, stopEvent, control, wanted, late>>

MonitorWait ==
  /\ \/ monitor = "check" /\ checking["monitor"].pc = "out" /\ monitor' = "wait"
     \/ monitor = "wait" /\ monitor' = "loop"  \* the interval is over, or the event came
  /\ UNCHANGED <<time, lastCheck, lastTime, checking, answer, overlapped, stopEvent, control, wanted, late>>

Tick ==
  /\ time < EndTime /\ time' = time + 1
  /\ UNCHANGED <<lastCheck, lastTime, checking, answer, overlapped, stopEvent, monitor, control, wanted, late>>

HealthInit ==
  /\ time = 1 /\ lastCheck = 0 /\ lastTime = 0
  /\ checking = [t \in Threads |-> Idle]
  /\ answer = [c \in Callers |-> Never] /\ overlapped = FALSE
  /\ stopEvent = FALSE /\ monitor = "none" /\ control = 0 /\ wanted = FALSE /\ late = FALSE

HealthNext ==
  \/ \E t \in Threads : Check(t) \/ Serve(t) \/ Components(t) \/ Store(t) \/ StoreTime(t)
  \/ StartAlive \/ StartThread \/ Stop \/ Joined \/ MonitorLoop \/ MonitorWait \/ Tick

HealthSpec == HealthInit /\ [][HealthNext]_healthVars

-----------------------------------------------------------------------------
\* Type invariant.
HealthTypeOK ==
  /\ time \in 1..EndTime /\ lastCheck \in 0..EndTime /\ lastTime \in 0..EndTime
  /\ checking \in [Threads -> [pc : {"out", "serve", "components", "store", "store time"},
                               now : 0..EndTime]]
  /\ answer \in [Callers -> [made : 0..EndTime, at : 0..EndTime, cached : BOOLEAN]]
  /\ overlapped \in BOOLEAN /\ stopEvent \in BOOLEAN /\ wanted \in BOOLEAN /\ late \in BOOLEAN
  /\ control \in 0..EndTime /\ monitor \in {"none", "loop", "check", "wait", "ended"}

\* An answer from the cache is less than a second old, unless two checks were computed at
\* once: then the older can be stored last and under the time of the newer.
CachedIsFresh ==
  \A c \in Callers : answer[c].cached /\ ~overlapped => answer[c].at - answer[c].made < Fresh

\* After start the monitor runs until it is told to stop, unless start found the thread of
\* before, which had outlived the join of its stop.
MonitoredWhenStarted == wanted /\ ~late => Alive /\ ~stopEvent

\* What is reported is the worst of the components in whatever order they are checked.
WorstReported ==
  \A o \in [1..2 -> Outcomes] :
    LET seen == {o[1], o[2]} IN
    Worst(o) = IF seen \cap {"unhealthy", "raises"} # {} THEN "unhealthy"
               ELSE IF "degraded" \in seen THEN "degraded" ELSE "healthy"

(***************************************************************************)
(* The metrics (voice_soundboard/monitoring/metrics.py): counters and      *)
(* histograms, each under its lock, the threads that record syntheses and  *)
(* the exporter, which walks the histogram's labels between the locks.     *)
(***************************************************************************)
CONSTANTS
  Recorders,   \* threads that call record_synthesis
  Backends,    \* values of the label
  Latencies,   \* what is observed
  MaxSamples,  \* maxlen of the samples
  MaxRecords   \* bound: syntheses recorded

VARIABLES
  counter,    \* synthesis_count: backend -> count, for those there are
  histogram,  \* synthesis_latency: backend -> [counts, total, samples], for those there are
  recording,  \* thread -> the synthesis between its counter and its histogram, or <<>>
  export,     \* [pc, todo, size, lines] of export_prometheus
  observed,   \* history: what was observed, as <<backend, latency>>
  records     \* bound

metricsVars == <<counter, histogram, recording, export, observed, records>>

Buckets == <<10, 100>>
NoExport == [pc |-> "none", todo |-> <<>>, size |-> 0, lines |-> <<>>]
Empty == [counts |-> [i \in DOMAIN Buckets |-> 0], total |-> 0, samples |-> <<>>]

\* Mutant: a bucket counts only what no smaller one holds.
Observe_OwnBucket(h, v) ==
  [counts  |-> [i \in DOMAIN Buckets |->
                  IF v <= Buckets[i] /\ (i = 1 \/ v > Buckets[i - 1]) THEN h.counts[i] + 1
                  ELSE h.counts[i]],
   total   |-> h.total + 1,
   samples |-> LET s == Append(h.samples, v)
               IN IF Len(s) > MaxSamples THEN Tail(s) ELSE s]

\* observe(): every bucket that holds the value, the total, and the newest samples.
Observe(h, v) ==
  [counts  |-> [i \in DOMAIN Buckets |-> IF v <= Buckets[i] THEN h.counts[i] + 1 ELSE h.counts[i]],
   total   |-> h.total + 1,
   samples |-> LET s == Append(h.samples, v)
               IN IF Len(s) > MaxSamples THEN Tail(s) ELSE s]

\* The p-th part of the samples, p in percent: sorted_samples[int(n * p)].
Percentile(h, p) ==
  LET sorted == SortSeq(h.samples, <)
  IN sorted[((Len(sorted) * p) \div 100) + 1]

Put(f, k, v) == [x \in DOMAIN f \cup {k} |-> IF x = k THEN v ELSE f[x]]

-----------------------------------------------------------------------------
\* record_synthesis(): the counter, then the histogram.
Count(t, b, v) ==
  /\ recording[t] = <<>> /\ records < MaxRecords
  /\ counter' = Put(counter, b, 1 + IF b \in DOMAIN counter THEN counter[b] ELSE 0)
  /\ recording' = [recording EXCEPT ![t] = <<b, v>>]
  /\ records' = records + 1
  /\ UNCHANGED <<histogram, export, observed>>

RecordLatency(t) ==
  /\ recording[t] # <<>>
  /\ LET b == recording[t][1] IN
     histogram' = Put(histogram, b, Observe(IF b \in DOMAIN histogram THEN histogram[b] ELSE Empty,
                                            recording[t][2]))
  /\ observed' = Append(observed, recording[t])
  /\ recording' = [recording EXCEPT ![t] = <<>>]
  /\ UNCHANGED <<counter, export, records>>

\* export_prometheus() gets to the histogram: the labels there are, in the dict's order.
BeginExport ==
  /\ export.pc = "none"
  /\ \E order \in SetToSeqs(DOMAIN histogram) :
       export' = [pc |-> "walk", todo |-> order, size |-> Len(order), lines |-> <<>>]
  /\ UNCHANGED <<counter, histogram, recording, observed, records>>

\* The next label, and under the lock its buckets; a dict that grew ends it with an error.
ExportLabel ==
  /\ export.pc = "walk"
  /\ export' =
       IF Cardinality(DOMAIN histogram) # export.size THEN [export EXCEPT !.pc = "raised"]
       ELSE IF export.todo = <<>> THEN [export EXCEPT !.pc = "done"]
       ELSE [export EXCEPT !.todo = Tail(@),
               !.lines = Append(@, [backend |-> Head(export.todo),
                                    counts |-> histogram[Head(export.todo)].counts])]
  /\ UNCHANGED <<counter, histogram, recording, observed, records>>

MetricInit ==
  /\ counter = [b \in {} |-> 0] /\ histogram = [b \in {} |-> Empty]
  /\ recording = [t \in Recorders |-> <<>>]
  /\ export = NoExport /\ observed = <<>> /\ records = 0

MetricNext ==
  \/ \E t \in Recorders : \/ \E b \in Backends, v \in Latencies : Count(t, b, v)
                          \/ RecordLatency(t)
  \/ BeginExport \/ ExportLabel

MetricSpec == MetricInit /\ [][MetricNext]_metricsVars

-----------------------------------------------------------------------------
Of(b) == SelectSeq(observed, LAMBDA o : o[1] = b)

\* Type invariant.
MetricTypeOK ==
  /\ DOMAIN counter \subseteq Backends /\ \A b \in DOMAIN counter : counter[b] \in 1..MaxRecords
  /\ DOMAIN histogram \subseteq Backends
  /\ \A b \in DOMAIN histogram : /\ histogram[b].total \in 1..MaxRecords
                                 /\ Len(histogram[b].samples) \in 1..MaxSamples
  /\ export.pc \in {"none", "walk", "done", "raised"} /\ records \in 0..MaxRecords

\* A synthesis is counted once, in counter and histogram, and the histogram lags by those
\* that are between the two.
CountsObserved ==
  \A b \in DOMAIN counter :
    counter[b] = Len(Of(b)) + Cardinality({t \in Recorders : recording[t] # <<>> /\ recording[t][1] = b})

\* Buckets are cumulative, within the total, and count what they say; the samples are the
\* newest, and the percentiles are among them and in order.
HistogramAgrees ==
  \A b \in DOMAIN histogram :
    LET h == histogram[b] IN
    /\ h.total = Len(Of(b))
    /\ \A i \in DOMAIN Buckets :
         h.counts[i] = Cardinality({k \in DOMAIN Of(b) : Of(b)[k][2] <= Buckets[i]})
    /\ \A i, j \in DOMAIN Buckets : i < j => h.counts[i] <= h.counts[j]
    /\ \A p, q \in {50, 95, 99} :
         /\ Percentile(h, p) \in Range(h.samples)
         /\ p < q => Percentile(h, p) <= Percentile(h, q)

\* An export that was not ended by a new label has each of its labels once, with cumulative
\* buckets; it is ended only by a new label.
ExportIsWhole ==
  /\ export.pc = "done" =>
       /\ Len(export.lines) = export.size
       /\ \A i, j \in DOMAIN export.lines : export.lines[i].backend = export.lines[j].backend => i = j
       /\ \A i \in DOMAIN export.lines :
            \A k, m \in DOMAIN Buckets : k < m => export.lines[i].counts[k] <= export.lines[i].counts[m]
  /\ export.pc = "raised" => Cardinality(DOMAIN histogram) > export.size

=============================================================================
