--------------------------- MODULE Observability ----------------------------
(***************************************************************************)
(* What the Python library observes of its syntheses: metadata of the MCP  *)
(* server's (mcp/observability.py), and metrics of audio graphs            *)
(* (v3/observability.py).                                                  *)
(***************************************************************************)
EXTENDS Sequences, SequencesExt, FiniteSets, Integers

(***************************************************************************)
(* The metadata an agent gets of its syntheses                             *)
(* (voice_soundboard/mcp/observability.py): trackers, which are context    *)
(* managers and may overlap, and what the collector sums up. Costs are     *)
(* whole numbers, a price per character and one per request.               *)
(***************************************************************************)
CONSTANTS
  Ids,        \* operation ids
  Backends,   \* backends that have a price
  Prices,     \* prices per character
  MaxTracked, \* bound: trackers made
  EndTime     \* bound: time runs this far

VARIABLES
  time,
  trackers,   \* the trackers made, in order
  active,     \* _active_trackers: id -> tracker, for those there are
  pricing,    \* price per character
  collected,  \* _collected, as trackers
  stats       \* _cache_stats

metadataVars == <<time, trackers, active, pricing, collected, stats>>

RequestPrice == 1
None == "none"
Chars == 0..2
New(id) == [pc |-> "made", id |-> id, start |-> 0, backend |-> None, chars |-> 0, hit |-> FALSE,
            latency |-> 0, cost |-> 0]
Tracked == DOMAIN trackers

EstimateCost(backend, chars) ==
  IF backend \in Backends THEN chars * pricing[backend] + RequestPrice ELSE 0

\* track(): a later tracker of the id takes its place.
Track(id) ==
  /\ Len(trackers) < MaxTracked
  /\ trackers' = Append(trackers, New(id))
  /\ active' = [i \in DOMAIN active \cup {id} |-> IF i = id THEN Len(trackers) + 1 ELSE active[i]]
  /\ UNCHANGED <<time, pricing, collected, stats>>

Enter(t) ==
  /\ trackers[t].pc = "made"
  /\ trackers' = [trackers EXCEPT ![t].pc = "entered", ![t].start = time]
  /\ UNCHANGED <<time, active, pricing, collected, stats>>

\* The setters; "other" is a backend without a price.
Set(t) ==
  /\ trackers[t].pc = "entered"
  /\ \/ \E b \in Backends \cup {"other"} : trackers' = [trackers EXCEPT ![t].backend = b]
     \/ \E c \in Chars : trackers' = [trackers EXCEPT ![t].chars = c]
     \/ trackers' = [trackers EXCEPT ![t].hit = ~@]
  /\ UNCHANGED <<time, active, pricing, collected, stats>>

\* Mutant: what is finalized stays with the active ones.
Exit_KeepActive(t) ==
  /\ trackers[t].pc = "entered"
  /\ LET m == trackers[t] IN
     /\ trackers' = [trackers EXCEPT
          ![t].pc = "done", ![t].latency = time - m.start,
          ![t].cost = IF m.backend # None /\ m.chars > 0 THEN EstimateCost(m.backend, m.chars) ELSE 0]
     /\ collected' = Append(collected, t)
     /\ stats' = IF m.hit THEN [stats EXCEPT !.hits = @ + 1] ELSE [stats EXCEPT !.misses = @ + 1]
  /\ UNCHANGED <<time, active, pricing>>

\* __exit__, with an exception or without: latency and cost, then finalize(), which drops
\* whichever tracker of the id is active.
Exit(t) ==
  /\ trackers[t].pc = "entered"
  /\ LET m == trackers[t] IN
     /\ trackers' = [trackers EXCEPT
          ![t].pc = "done", ![t].latency = time - m.start,
          ![t].cost = IF m.backend # None /\ m.chars > 0 THEN EstimateCost(m.backend, m.chars) ELSE 0]
     /\ active' = [i \in DOMAIN active \ {m.id} |-> active[i]]
     /\ collected' = Append(collected, t)
     /\ stats' = IF m.hit THEN [stats EXCEPT !.hits = @ + 1] ELSE [stats EXCEPT !.misses = @ + 1]
  /\ UNCHANGED <<time, pricing>>

SetPricing(b) ==
  /\ \E p \in Prices : pricing' = [pricing EXCEPT ![b] = p]
  /\ UNCHANGED <<time, trackers, active, collected, stats>>

Tick ==
  /\ time < EndTime /\ time' = time + 1
  /\ UNCHANGED <<trackers, active, pricing, collected, stats>>

\* get_aggregate_stats().
Sum(f(_)) == FoldLeft(LAMBDA sum, t : sum + f(trackers[t]), 0, collected)
Aggregate ==
  [operations |-> Len(collected), latency |-> Sum(LAMBDA m : m.latency), cost |-> Sum(LAMBDA m : m.cost)]

MetadataInit ==
  /\ time = 0 /\ trackers = <<>> /\ active = [i \in {} |-> 0] /\ collected = <<>>
  /\ pricing \in [Backends -> Prices] /\ stats = [hits |-> 0, misses |-> 0]

MetadataNext ==
  \/ \E id \in Ids : Track(id)
  \/ \E t \in Tracked : Enter(t) \/ Set(t) \/ Exit(t)
  \/ \E b \in Backends : SetPricing(b)
  \/ Tick

MetadataSpec == MetadataInit /\ [][MetadataNext]_metadataVars

-----------------------------------------------------------------------------
\* Type invariant.
MetadataTypeOK ==
  /\ time \in 0..EndTime /\ DOMAIN active \subseteq Ids
  /\ \A t \in Tracked :
       /\ trackers[t].pc \in {"made", "entered", "done"} /\ trackers[t].id \in Ids
       /\ trackers[t].chars \in Chars /\ trackers[t].latency \in 0..EndTime
  /\ \A i \in DOMAIN active : active[i] \in Tracked
  /\ collected \in Seq(Tracked)

\* Each tracker that ended is collected once, and the cache's hits and misses add up to them.
CollectedOnce ==
  /\ \A t \in Tracked : (trackers[t].pc = "done") = (t \in ToSet(collected))
  /\ Len(collected) = Cardinality(ToSet(collected))
  /\ stats.hits + stats.misses = Aggregate.operations
  /\ stats.hits = Cardinality({t \in Tracked : trackers[t].pc = "done" /\ trackers[t].hit})

\* An id that has metadata has that of its newest tracker, which has not ended; and it has
\* none only when a tracker of the id ended after the newest was made.
ActiveIsNewest ==
  \A id \in Ids :
    LET of == {t \in Tracked : trackers[t].id = id} IN
    /\ id \in DOMAIN active => /\ active[id] \in of /\ \A t \in of : t <= active[id]
                               /\ trackers[active[id]].pc # "done"
    /\ id \notin DOMAIN active /\ of # {} => \E t \in of : trackers[t].pc = "done"


(***************************************************************************)
(* The metrics of audio graphs (voice_soundboard/v3/observability.py):     *)
(* samples of the metrics that are enabled, alert rules that are checked   *)
(* in turn for each sample and whose actions may raise, and the report     *)
(* that aggregates the samples.                                            *)
(***************************************************************************)
CONSTANTS
  Values,      \* values that are recorded
  MaxRecords,  \* bound: samples recorded
  MaxRules     \* bound: alert rules

VARIABLES
  enabled,  \* enabled_metrics
  samples,  \* _samples: [metric, value, effect]
  renders,  \* _render_count
  rules,    \* _alerts: [metric, comparison, threshold, calls, count]
  recorded, \* history: how many samples were recorded
  matched,  \* history: by rule, how many samples recorded since it was set are over its threshold
  raised    \* history: rules whose action has raised

graphMetricsVars == <<enabled, samples, renders, rules, recorded, matched, raised>>

Metrics == {"loudness_lufs", "clipping_events", "render_time_ms", "effect_latency_ms"}
\* The name of the effect for its latency, "unknown" where no label says it.
Effects(metric) == IF metric = "effect_latency_ms" THEN {"e", "unknown"} ELSE {""}

\* AlertRule.check()
Over(rule, s) ==
  /\ s.metric = rule.metric
  /\ CASE rule.comparison = "gt"  -> s.value > rule.threshold
       [] rule.comparison = "lt"  -> s.value < rule.threshold
       [] rule.comparison = "eq"  -> s.value = rule.threshold
       [] rule.comparison = "gte" -> s.value >= rule.threshold
       [] rule.comparison = "lte" -> s.value <= rule.threshold

\* MetricsReport.add(): the last loudness and render time, the clippings together, and the
\* last latency of each effect; -1 stands for None.
Empty == [loudness |-> -1, clipping |-> 0, render |-> -1, latencies |-> [e \in {} |-> 0]]
Add(r, s) ==
  CASE s.metric = "loudness_lufs"     -> [r EXCEPT !.loudness = s.value]
    [] s.metric = "clipping_events"   -> [r EXCEPT !.clipping = @ + s.value]
    [] s.metric = "render_time_ms"    -> [r EXCEPT !.render = s.value]
    [] s.metric = "effect_latency_ms" ->
         [r EXCEPT !.latencies = [e \in DOMAIN @ \cup {s.effect} |-> IF e = s.effect THEN s.value ELSE @[e]]]

\* report()
Report == FoldLeft(Add, Empty, samples)

-----------------------------------------------------------------------------
\* Mutant: a rule counts only the first time.
Checked_Once(s, last) ==
  [i \in DOMAIN rules |->
     IF i <= last /\ Over(rules[i], s) THEN [rules[i] EXCEPT !.count = 1] ELSE rules[i]]

\* The rules up to the one that is checked last, each counting before it acts.
Checked(s, last) ==
  [i \in DOMAIN rules |->
     IF i <= last /\ Over(rules[i], s) THEN [rules[i] EXCEPT !.count = @ + 1] ELSE rules[i]]

\* record() of a metric that is enabled: the sample, and the rules; an action that raises
\* ends it, with the sample kept and the rules behind it unchecked.
Kept(metric, value, effect, last) ==
  LET s == [metric |-> metric, value |-> value, effect |-> effect] IN
  /\ metric \in enabled /\ recorded < MaxRecords
  /\ samples' = Append(samples, s) /\ recorded' = recorded + 1
  /\ matched' = [i \in DOMAIN rules |-> matched[i] + (IF Over(rules[i], s) THEN 1 ELSE 0)]
  /\ rules' = Checked(s, last)
  /\ UNCHANGED enabled

\* The action of a rule that this sample triggers raises.
Raises(metric, value, effect, i) ==
  /\ rules[i].calls /\ Over(rules[i], [metric |-> metric, value |-> value, effect |-> effect])
  /\ Kept(metric, value, effect, i)
  /\ raised' = raised \cup {i}

Record(metric, value, effect) ==
  /\ \/ Kept(metric, value, effect, Len(rules)) /\ UNCHANGED raised
     \/ \E i \in DOMAIN rules : Raises(metric, value, effect, i)
  /\ UNCHANGED renders

\* record_render_end(): the render is counted when record() has returned, also if it records
\* nothing because the metric is not enabled.
RecordRenderEnd(value) ==
  \/ /\ "render_time_ms" \notin enabled /\ renders < MaxRecords
     /\ renders' = renders + 1 /\ UNCHANGED <<enabled, samples, rules, recorded, matched, raised>>
  \/ /\ Kept("render_time_ms", value, "", Len(rules))
     /\ renders' = renders + 1 /\ UNCHANGED raised
  \/ /\ \E i \in DOMAIN rules : Raises("render_time_ms", value, "", i)
     /\ UNCHANGED renders

\* set_alert()
SetAlert(metric, comparison, calls) ==
  /\ Len(rules) < MaxRules
  /\ rules' = Append(rules, [metric |-> metric, comparison |-> comparison, threshold |-> 2,
                             calls |-> calls, count |-> 0])
  /\ matched' = Append(matched, 0)
  /\ UNCHANGED <<enabled, samples, renders, recorded, raised>>

\* clear(): the rules keep their counts.
Clear ==
  /\ samples # <<>> /\ samples' = <<>> /\ renders' = 0
  /\ UNCHANGED <<enabled, rules, recorded, matched, raised>>

GraphInit ==
  /\ enabled \in {Metrics, {"clipping_events"}}
  /\ samples = <<>> /\ renders = 0 /\ rules = <<>>
  /\ recorded = 0 /\ matched = <<>> /\ raised = {}

GraphNext ==
  \/ \E m \in Metrics \ {"render_time_ms"}, v \in Values : \E e \in Effects(m) : Record(m, v, e)
  \/ \E v \in Values : RecordRenderEnd(v)
  \/ \E m \in {"clipping_events", "render_time_ms"}, c \in {"gt", "lte"}, calls \in BOOLEAN :
       SetAlert(m, c, calls)
  \/ Clear

GraphSpec == GraphInit /\ [][GraphNext]_graphMetricsVars

-----------------------------------------------------------------------------
\* Type invariant.
GraphTypeOK ==
  /\ recorded <= MaxRecords /\ \A i \in DOMAIN samples : samples[i].metric \in enabled
  /\ Len(rules) <= MaxRules /\ Len(matched) = Len(rules) /\ raised \subseteq DOMAIN rules
  /\ \A i \in DOMAIN rules : rules[i].count \in 0..MaxRecords
  /\ renders \in 0..MaxRecords

\* A rule has counted every sample over its threshold, but those that a rule before it on the
\* same metric kept from it by raising (observability.py:204-218,283-305).
RulesCountAll ==
  \A i \in DOMAIN rules :
    /\ rules[i].count <= matched[i]
    /\ rules[i].count < matched[i] =>
         \E j \in raised : j < i /\ rules[j].metric = rules[i].metric

\* The report is of the samples since clear(): what is last is the last of its metric, and
\* the renders counted are those timed, unless the rule of a render has raised.
ReportIsLast ==
  LET of(m)   == SelectSeq(samples, LAMBDA s : s.metric = m)
      last(m) == IF of(m) = <<>> THEN -1 ELSE of(m)[Len(of(m))].value
  IN /\ Report.loudness = last("loudness_lufs") /\ Report.render = last("render_time_ms")
     /\ DOMAIN Report.latencies = {s.effect : s \in ToSet(of("effect_latency_ms"))}
     /\ (Report.clipping > 0) = (\E s \in ToSet(of("clipping_events")) : s.value > 0)
     /\ "render_time_ms" \in enabled => renders <= Len(of("render_time_ms"))
     /\ renders < Len(of("render_time_ms")) => \E i \in raised : rules[i].metric = "render_time_ms"

=============================================================================
