----------------------------- MODULE Analytics ------------------------------
(***************************************************************************)
(* The analytics of the Python library (voice_soundboard/analytics): what  *)
(* synthesis costs, how much of it there is, and how good it is. The three *)
(* share nothing.                                                          *)
(***************************************************************************)
EXTENDS Sequences, SequencesExt, FiniteSets, Integers

(***************************************************************************)
(* The cost attribution of the Python library                              *)
(* (voice_soundboard/analytics/cost.py): flat and tiered prices, records   *)
(* that threads append and clean up without a lock, and the report of a    *)
(* period. Prices are whole numbers per unit of characters.                *)
(***************************************************************************)
CONSTANTS
  CostThreads,     \* threads that call attribute()
  Jobs,        \* what is attributed: [client, backend, voice, chars]
  CostRetention,   \* retention_days
  PeriodDays,  \* days in a period
  RecentDays,  \* days that a forecast looks back on
  CostMaxRecords,  \* bound: records attributed
  CostEndTime      \* bound: time runs this far, in days

VARIABLES
  costTime,
  records,     \* _records
  attributing, \* thread -> [pc, kept]: where it is in attribute()
  attributed,  \* history: all records
  costRaced        \* history: a thread's append fell between another's filter and assignment

costVars == <<costTime, records, attributing, attributed, costRaced>>

Flat  == [local |-> 0, cloud |-> 3]
\* Tiers as a configuration has them: one begins where the one before ends.
Tiers == <<[min |-> 0, max |-> 2, price |-> 5], [min |-> 2, max |-> 4, price |-> 3],
           [min |-> 4, max |-> 0, price |-> 1]>>
Backends == {"local", "cloud", "tiered", "unknown"}
CostOut      == [pc |-> "out", kept |-> <<>>]

\* Mutant: a tier counts from the first character.
TierCost_FromStart(tier, chars) ==
  IF tier.min > 0 /\ chars < tier.min THEN 0
  ELSE tier.price * (IF tier.max # 0 /\ chars > tier.max - tier.min THEN tier.max - tier.min ELSE chars)

\* PricingTier.calculate_cost(); max 0 stands for None.
TierCost(tier, chars) ==
  LET over == chars - tier.min IN
  IF tier.min > 0 /\ chars < tier.min THEN 0
  ELSE tier.price * (IF tier.max # 0 /\ over > tier.max - tier.min THEN tier.max - tier.min ELSE over)

\* calculate_cost(): the tiers, or the price, or nothing for a backend that has none.
Cost(backend, chars) ==
  IF backend = "tiered" THEN FoldLeft(LAMBDA sum, t : sum + TierCost(t, chars), 0, Tiers)
  ELSE IF backend \in DOMAIN Flat THEN chars * Flat[backend] ELSE 0

\* get_cheapest_backend(): by the flat prices, of those that are not excluded.
Cheapest(chars, exclude) ==
  LET left == DOMAIN Flat \ exclude
  IN IF left = {} THEN "local"
     ELSE CHOOSE b \in left : \A c \in left : Cost(b, chars) <= Cost(c, chars)

-----------------------------------------------------------------------------
\* attribute(): the cost and the append.
Attribute(t, job) ==
  LET record == [id |-> Len(attributed) + 1, at |-> costTime, client |-> job.client, backend |-> job.backend,
                 voice |-> job.voice, cost |-> Cost(job.backend, job.chars)]
  IN /\ attributing[t].pc = "out" /\ Len(attributed) < CostMaxRecords
     /\ records' = Append(records, record) /\ attributed' = Append(attributed, record)
     /\ costRaced' = (costRaced \/ \E u \in CostThreads : attributing[u].pc = "assign")
     /\ attributing' = [attributing EXCEPT ![t] = [pc |-> "filter", kept |-> <<>>]]
     /\ UNCHANGED costTime

\* _cleanup(): what is young enough, then the assignment.
Filter(t) ==
  /\ attributing[t].pc = "filter"
  /\ attributing' = [attributing EXCEPT ![t] =
       [pc |-> "assign", kept |-> SelectSeq(records, LAMBDA r : r.at + CostRetention > costTime)]]
  /\ UNCHANGED <<costTime, records, attributed, costRaced>>

Assign(t) ==
  /\ attributing[t].pc = "assign"
  /\ records' = attributing[t].kept
  /\ attributing' = [attributing EXCEPT ![t] = CostOut]
  /\ UNCHANGED <<costTime, attributed, costRaced>>

SumOf(rs, key, value) ==
  FoldLeft(LAMBDA sum, r : IF r[key] = value THEN sum + r.cost ELSE sum, 0, rs)

\* report() of a period, for one client or for all ("").
Report(period, client) ==
  LET rs == SelectSeq(records, LAMBDA r : /\ r.at >= period * PeriodDays /\ r.at < (period + 1) * PeriodDays
                                          /\ (client = "" \/ r.client = client))
      by(key) == [k \in {r[key] : r \in ToSet(rs)} |-> SumOf(rs, key, k)]
  IN [total |-> FoldLeft(LAMBDA sum, r : sum + r.cost, 0, rs), requests |-> Len(rs),
      backends |-> by("backend"), clients |-> by("client"), days |-> by("at"),
      voices |-> [v \in DOMAIN by("voice") \ {""} |-> by("voice")[v]]]

\* get_client_usage(): of the newest days; the average is of the days since the first record.
ClientUsage(client, days) ==
  LET rs == SelectSeq(records, LAMBDA r : r.at + days > costTime /\ r.client = client)
      since == IF rs = <<>> THEN days ELSE costTime - rs[1].at + 1
  IN [total |-> FoldLeft(LAMBDA sum, r : sum + r.cost, 0, rs), requests |-> Len(rs),
      averagedOver |-> IF since < days THEN since ELSE days]

\* forecast(): what the newest days cost, in proportion.
Forecast(days) ==
  LET rs == SelectSeq(records, LAMBDA r : r.at + RecentDays > costTime)
  IN [cost |-> (FoldLeft(LAMBDA sum, r : sum + r.cost, 0, rs) * days) \div RecentDays,
      requests |-> (Len(rs) * days) \div RecentDays]

CostTick ==
  /\ costTime < CostEndTime /\ costTime' = costTime + 1
  /\ UNCHANGED <<records, attributing, attributed, costRaced>>

CostInit ==
  /\ costTime = 0 /\ records = <<>> /\ attributing = [t \in CostThreads |-> CostOut]
  /\ attributed = <<>> /\ costRaced = FALSE

CostNext ==
  \/ \E t \in CostThreads : (\E job \in Jobs : Attribute(t, job)) \/ Filter(t) \/ Assign(t)
  \/ CostTick

CostSpec == CostInit /\ [][CostNext]_costVars

-----------------------------------------------------------------------------
\* Type invariant.
CostTypeOK ==
  /\ costTime \in 0..CostEndTime /\ costRaced \in BOOLEAN /\ Len(attributed) <= CostMaxRecords
  /\ \A r \in ToSet(records) : r.at \in 0..CostEndTime /\ r.cost \in Nat
  /\ \A t \in CostThreads : attributing[t].pc \in {"out", "filter", "assign"}

\* What was attributed and is within the retention is on record once; a record is lost only
\* when its append fell between the filter and the assignment of another thread.
BilledOnce ==
  /\ \A i, j \in DOMAIN records : records[i].id = records[j].id => i = j
  /\ ToSet(records) \subseteq ToSet(attributed)
  /\ ~costRaced => \A r \in ToSet(attributed) : r.at + CostRetention > costTime => r \in ToSet(records)

\* A report adds up by backend, by client and by day, and by voice for what has one; and the
\* clients' own reports add up to that of all.
Added(f) == FoldLeft(LAMBDA sum, k : sum + f[k], 0, SetToSeq(DOMAIN f))
ReportAddsUp ==
  \A period \in 0..(CostEndTime \div PeriodDays) :
    LET all == Report(period, "") IN
    /\ Added(all.backends) = all.total /\ Added(all.clients) = all.total /\ Added(all.days) = all.total
    /\ Added(all.voices) <= all.total
    /\ Added([c \in DOMAIN all.clients |-> Report(period, c).total]) = all.total

\* The forecast for as many days as it looks back on is what the clients used in them, and
\* the average of a client never divides by more days than were asked for.
ForecastIsUsage ==
  LET clients == {r.client : r \in ToSet(records)}
      used(c) == ClientUsage(c, RecentDays)
  IN /\ Forecast(RecentDays).cost = Added([c \in clients |-> used(c).total])
     /\ Forecast(RecentDays).requests = Added([c \in clients |-> used(c).requests])
     /\ \A c \in clients : used(c).averagedOver \in 1..RecentDays

\* Where tiers follow one another, each character has the price of the one tier it is in; so
\* the cost never falls with the characters.
EachCharacterPriced ==
  \A chars \in 0..6 :
    LET priceOf(c) == LET t == CHOOSE i \in DOMAIN Tiers : /\ c > Tiers[i].min
                                                            /\ (Tiers[i].max = 0 \/ c <= Tiers[i].max)
                      IN Tiers[t].price
    IN Cost("tiered", chars + 1) = Cost("tiered", chars) + priceOf(chars + 1)

(***************************************************************************)
(* The usage tracker (voice_soundboard/analytics/usage.py): records under  *)
(* a key that is put together of labels and taken apart again by query(),  *)
(* their retention, and the latencies. A client's name may have the        *)
(* characters the key is joined with. record() works under the lock.       *)
(***************************************************************************)
CONSTANTS
  UsageRetention,     \* retention_hours
  MaxLatencies,  \* what is kept of the latencies
  UsageMaxRecords,    \* bound: syntheses recorded
  UsageEndTime        \* bound: time runs this far, in hours

VARIABLES
  usageTime,
  metrics,    \* _metrics: label key -> records [id, at, ok], for those there are
  latencies,  \* _latencies
  recorded    \* history: [id, at, client, voice, ok]

usageVars == <<usageTime, metrics, latencies, recorded>>

\* A plain name, one with a bar behind it, and one with an equals sign.
Clients == {"c", "c|x", "x=y"}
UsageVoices  == {"v", "w"}
Key(client, voice) == <<client, voice>>

\* What query() reads back of a client's name; one with an equals sign cannot be taken apart.
Read(client) == IF client = "c|x" THEN "c" ELSE client
Raises == \E k \in DOMAIN metrics : k[1] = "x=y"

\* Mutant: records are kept for half the retention.
Young_Half(r) == r.at + (UsageRetention \div 2) > usageTime
Young(r) == r.at + UsageRetention > usageTime

-----------------------------------------------------------------------------
\* record(), and _cleanup_old_data() of all keys.
Record(client, voice, ok) ==
  LET k   == Key(client, voice)
      new == [id |-> Len(recorded) + 1, at |-> usageTime, ok |-> ok]
      all == [x \in DOMAIN metrics \cup {k} |->
                SelectSeq((IF x \in DOMAIN metrics THEN metrics[x] ELSE <<>>)
                          \o (IF x = k THEN <<new>> ELSE <<>>), Young)]
      ls  == Append(latencies, new.id)
  IN /\ Len(recorded) < UsageMaxRecords
     /\ metrics' = [x \in {y \in DOMAIN all : all[y] # <<>>} |-> all[x]]
     /\ latencies' = IF Len(ls) > MaxLatencies THEN Tail(ls) ELSE ls
     /\ recorded' = Append(recorded, [id |-> new.id, at |-> usageTime, client |-> client, voice |-> voice, ok |-> ok])
     /\ UNCHANGED usageTime

UsageTick ==
  /\ usageTime < UsageEndTime /\ usageTime' = usageTime + 1
  /\ UNCHANGED <<metrics, latencies, recorded>>

\* query(): what one key adds to a timeframe, [requests, errors].
Inside(k, hours) == SelectSeq(metrics[k], LAMBDA r : r.at + hours > usageTime)
Sum(keys, hours) ==
  [requests |-> FoldLeft(LAMBDA n, k : n + Len(Inside(k, hours)), 0, SetToSeq(keys)),
   errors   |-> FoldLeft(LAMBDA n, k : n + Len(SelectSeq(Inside(k, hours), LAMBDA r : ~r.ok)), 0,
                         SetToSeq(keys))]

\* The keys of a group of clients, and of a filter.
Grouped(client) == {k \in DOMAIN metrics : Read(k[1]) = client}
Filtered(voice) == {k \in DOMAIN metrics : k[2] = voice}

UsageInit == usageTime = 0 /\ metrics = [k \in {} |-> <<>>] /\ latencies = <<>> /\ recorded = <<>>

UsageNext == (\E c \in Clients, v \in UsageVoices, ok \in BOOLEAN : Record(c, v, ok)) \/ UsageTick

UsageSpec == UsageInit /\ [][UsageNext]_usageVars

-----------------------------------------------------------------------------
\* Type invariant.
UsageTypeOK ==
  /\ usageTime \in 0..UsageEndTime /\ Len(recorded) <= UsageMaxRecords /\ Len(latencies) <= MaxLatencies
  /\ DOMAIN metrics \subseteq Clients \X UsageVoices /\ \A k \in DOMAIN metrics : metrics[k] # <<>>

Within(hours) == SelectSeq(recorded, LAMBDA r : r.at + hours > usageTime)

\* A query for no more than the retention finds each synthesis of its timeframe once, in
\* all, by voice, and by client as the client is read back; though what is older is only
\* removed when something is recorded.
QueryExact ==
  ~Raises =>
    \A hours \in 1..UsageRetention :
      LET rs    == Within(hours)
          total == Sum(DOMAIN metrics, hours)
      IN /\ total.requests = Len(rs)
         /\ total.errors = Len(SelectSeq(rs, LAMBDA r : ~r.ok))
         /\ \A v \in UsageVoices : Sum(Filtered(v), hours).requests = Len(SelectSeq(rs, LAMBDA r : r.voice = v))
         /\ \A c \in Clients : Sum(Grouped(c), hours).requests
                               = Len(SelectSeq(rs, LAMBDA r : Read(r.client) = c))

\* The latencies are those of the newest syntheses, whatever their keys.
NewestLatencies ==
  latencies = SubSeq([i \in DOMAIN recorded |-> i],
                     IF Len(recorded) > MaxLatencies THEN Len(recorded) - MaxLatencies + 1 ELSE 1,
                     Len(recorded))

(***************************************************************************)
(* The quality monitor (voice_soundboard/analytics/quality.py): sampled    *)
(* results in a bounded deque, alerts with a cooldown per metric and       *)
(* voice, which threads test and set without a lock, and the comparison of *)
(* the last window with the one before it. Scores are in tenths.           *)
(***************************************************************************)
CONSTANTS
  QualityThreads,    \* threads that call record()
  QualityVoices,
  Scores,     \* scores of a metric (0: the analysis failed)
  Threshold,  \* of the metric; set_alert() may lower it to LowThreshold
  LowThreshold,
  Cooldown,   \* alert_cooldown_seconds
  Window,     \* compare_window_hours, in the same unit
  MaxSamples, \* max_samples
  QualityMaxRecords, \* bound: results sampled
  QualityEndTime     \* bound: time runs this far

VARIABLES
  qualityTime,
  samples,    \* _samples
  alerts,     \* _alerts, each with the time of its check and its own
  lastAlert,  \* _last_alert_time: voice -> time, for those there are
  recording,  \* thread -> [pc, voice, score, now]
  threshold,
  sampled,    \* history: all samples
  qualityRaced       \* history: two threads were between the test and the setting of a voice's time

qualityVars == <<qualityTime, samples, alerts, lastAlert, recording, threshold, sampled, qualityRaced>>

QualityOut == [pc |-> "out", voice |-> "", score |-> 0, now |-> 0]

\* record(): the analysis and the deque, under the lock.
Sample(t, voice, score) ==
  LET s == [id |-> Len(sampled) + 1, at |-> qualityTime, voice |-> voice, score |-> score] IN
  /\ recording[t].pc = "out" /\ Len(sampled) < QualityMaxRecords
  /\ samples' = LET all == Append(samples, s) IN IF Len(all) > MaxSamples THEN Tail(all) ELSE all
  /\ sampled' = Append(sampled, s)
  /\ recording' = [recording EXCEPT ![t] = [pc |-> "check", voice |-> voice, score |-> score, now |-> qualityTime]]
  /\ UNCHANGED <<qualityTime, alerts, lastAlert, threshold, qualityRaced>>

\* The cooldown: a voice that had no alert had its last at time 0 of the clock.
Cooled(t) ==
  recording[t].voice \notin DOMAIN lastAlert
  \/ recording[t].now - lastAlert[recording[t].voice] >= Cooldown

\* Mutant: the cooldown is not tested.
CheckAlert_NoCooldown(t) ==
  /\ recording[t].pc = "check"
  /\ recording' = [recording EXCEPT ![t] =
       IF recording[t].score # 0 /\ recording[t].score < threshold THEN [@ EXCEPT !.pc = "alert"] ELSE QualityOut]
  /\ qualityRaced' = (qualityRaced \/ \E u \in QualityThreads \ {t} : recording[u].pc = "alert" /\ recording[u].voice = recording[t].voice)
  /\ UNCHANGED <<qualityTime, samples, alerts, lastAlert, threshold, sampled>>

\* _check_alerts(): a score of 0 is no score; below the threshold and after the cooldown.
CheckAlert(t) ==
  /\ recording[t].pc = "check"
  /\ recording' = [recording EXCEPT ![t] =
       IF recording[t].score # 0 /\ recording[t].score < threshold /\ Cooled(t)
       THEN [@ EXCEPT !.pc = "alert"] ELSE QualityOut]
  /\ qualityRaced' = (qualityRaced \/ \E u \in QualityThreads \ {t} : recording[u].pc = "alert" /\ recording[u].voice = recording[t].voice)
  /\ UNCHANGED <<qualityTime, samples, alerts, lastAlert, threshold, sampled>>

\* The alert, stamped with the time at which it is built, which is later than that of the
\* check (quality.py:71, :300); the time kept for the cooldown, which is that of the check;
\* and the handlers, whose exceptions are swallowed.
Alert(t) ==
  LET r == recording[t] IN
  /\ r.pc = "alert"
  /\ alerts' = Append(alerts, [voice |-> r.voice, checked |-> r.now, at |-> qualityTime, score |-> r.score])
  /\ lastAlert' = [v \in DOMAIN lastAlert \cup {r.voice} |-> IF v = r.voice THEN r.now ELSE lastAlert[v]]
  /\ recording' = [recording EXCEPT ![t] = QualityOut]
  /\ UNCHANGED <<qualityTime, samples, threshold, sampled, qualityRaced>>

SetAlert ==
  /\ threshold # LowThreshold /\ threshold' = LowThreshold
  /\ UNCHANGED <<qualityTime, samples, alerts, lastAlert, recording, sampled, qualityRaced>>

QualityTick ==
  /\ qualityTime < QualityEndTime /\ qualityTime' = qualityTime + 1
  /\ UNCHANGED <<samples, alerts, lastAlert, recording, threshold, sampled, qualityRaced>>

\* detect_regression(): the samples of the last window against those of the one before.
Recent     == SelectSeq(samples, LAMBDA s : s.at > qualityTime - Window)
Historical == SelectSeq(samples, LAMBDA s : qualityTime - 2 * Window < s.at /\ s.at <= qualityTime - Window)
ScoreSum(ss) == FoldLeft(LAMBDA sum, s : sum + s.score, 0, ss)
\* get_average() by more than one tenth worse.
Regressed ==
  /\ Recent # <<>> /\ Historical # <<>>
  /\ ScoreSum(Historical) * Len(Recent) - ScoreSum(Recent) * Len(Historical)
     > Len(Recent) * Len(Historical)

QualityInit ==
  /\ qualityTime = 1 /\ samples = <<>> /\ alerts = <<>> /\ lastAlert = [v \in {} |-> 0]
  /\ recording = [t \in QualityThreads |-> QualityOut] /\ threshold = Threshold /\ sampled = <<>> /\ qualityRaced = FALSE

QualityNext ==
  \/ \E t \in QualityThreads : \/ \E v \in QualityVoices, s \in Scores : Sample(t, v, s)
                        \/ CheckAlert(t) \/ Alert(t)
  \/ SetAlert \/ QualityTick

QualitySpec == QualityInit /\ [][QualityNext]_qualityVars

-----------------------------------------------------------------------------
\* Type invariant.
QualityTypeOK ==
  /\ qualityTime \in 1..QualityEndTime /\ Len(samples) <= MaxSamples /\ Len(sampled) <= QualityMaxRecords
  /\ DOMAIN lastAlert \subseteq QualityVoices /\ threshold \in {Threshold, LowThreshold}
  /\ \A t \in QualityThreads : recording[t].pc \in {"out", "check", "alert"}

\* The checks that led to two alerts of a voice are a cooldown apart, unless two threads were
\* between its test and its setting. The later alert's own time is then a cooldown after the
\* earlier one's check; after the earlier one's own time it may be less, by as long as that
\* alert took to be built. Nobody is alerted of a score that is not below the first threshold.
AlertsSpaced ==
  /\ ~qualityRaced => \A i, j \in DOMAIN alerts :
       i < j /\ alerts[i].voice = alerts[j].voice =>
         /\ alerts[j].checked - alerts[i].checked >= Cooldown
         /\ alerts[j].at - alerts[i].checked >= Cooldown
  /\ \A i \in DOMAIN alerts : alerts[i].score \in 1..(Threshold - 1)

\* A regression is between samples that were taken, none of them in both windows, and it
\* needs a recent sample that is worse than a historical one.
RegressionIsReal ==
  /\ ToSet(Recent) \cap ToSet(Historical) = {}
  /\ Regressed => \E r \in ToSet(Recent), h \in ToSet(Historical) : r.score < h.score
  /\ samples = SubSeq(sampled, Len(sampled) - Len(samples) + 1, Len(sampled))

=============================================================================
