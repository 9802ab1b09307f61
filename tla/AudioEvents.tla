---------------------------- MODULE AudioEvents -----------------------------
(***************************************************************************)
(* Paralinguistic events as audio (adapters/audio_events.py): a manifest   *)
(* of variants by intensity whose files are validated when it is loaded,   *)
(* an adapter that reads the files later and caches them, and the two ways *)
(* a timeline is put together from speech and events.                      *)
(***************************************************************************)
EXTENDS Integers, Sequences, SequencesExt, FiniteSets

CONSTANTS
  Variants,     \* manifest: by event type, a sequence of [file, min, max]
  Types,        \* event types of the graph, those of the manifest among them
  Intensities,  \* intensities of events
  Starts,       \* start times of events, in samples
  Lengths,      \* lengths of speech, in samples
  Losable,      \* bound: files that change
  MaxEvents     \* bound: events of the graph

VARIABLES
  disk,    \* by file: "good", "bad" (not as the manifest says), "missing" (or no WAV) or "empty"
  adapter, \* "unloaded", "none", "escaped" (try_load raised), or loaded with the "same" or an "other" rate
  cache,   \* _cache: files that are in memory
  events,  \* graph.events: [type, start, intensity]
  length,  \* speech samples
  output,  \* what the call has produced: parts [event, from, to], event 0 for speech
  call,    \* "idle", or where stream_timeline_with_events() stands, or how the call ended
  streamed \* the last call was the streaming one

audioEventsVars == <<disk, adapter, cache, events, length, output, call, streamed>>

Files == UNION {{Variants[t][i].file : i \in DOMAIN Variants[t]} : t \in DOMAIN Variants}

Matches(v, intensity) == v.min <= intensity /\ intensity <= v.max
Width(v) == v.max - v.min
\* The distance of an intensity to the range of a variant.
Distance(v, intensity) == Max({v.min - intensity, intensity - v.max, 0})

Distances(vs, intensity) == [i \in DOMAIN vs |-> Distance(vs[i], intensity)]
Widths(vs) == [i \in DOMAIN vs |-> Width(vs[i])]
\* min() of Python: the first variant with the least key.
LeastBy(vs, keys) == vs[Min({i \in DOMAIN vs : \A j \in DOMAIN vs : keys[i] <= keys[j]})]

\* Mutant: the first match whatever its width.
SelectVariant_First(vs, intensity) ==
  LET near == {i \in DOMAIN vs : Matches(vs[i], intensity)} IN
  IF near # {} THEN vs[Min(near)] ELSE LeastBy(vs, Distances(vs, intensity))

\* select_variant() of a specification that has variants: the narrowest match, else the
\* closest range.
SelectVariant(vs, intensity) ==
  LET matches == SelectSeq(vs, LAMBDA v : Matches(v, intensity)) IN
  IF matches # <<>> THEN LeastBy(matches, Widths(matches)) ELSE LeastBy(vs, Distances(vs, intensity))

\* get_event_spec() and select_variant(): does the manifest have audio for the event.
Rendered(e) == e.type \in DOMAIN Variants /\ Variants[e.type] # <<>>
FileOf(e) == SelectVariant(Variants[e.type], e.intensity).file

\* sorted(graph.events, key=start_time), which is stable.
InOrder == SortSeq([i \in DOMAIN events |-> [n |-> i, start |-> events[i].start]],
                   LAMBDA a, b : a.start < b.start \/ (a.start = b.start /\ a.n < b.n))
Sorted == [i \in DOMAIN events |-> InOrder[i].n]
Audible == SelectSeq(Sorted, LAMBDA n : Rendered(events[n]))

\* _load_pcm(): a file is read unless it is in memory.
Loads(n) == FileOf(events[n]) \in cache \/ disk[FileOf(events[n])] \notin {"missing", "empty"}
\* How many of the events are loaded before one raises.
Loaded(ns) == IF \A i \in DOMAIN ns : Loads(ns[i]) THEN Len(ns)
              ELSE Min({i \in DOMAIN ns : ~Loads(ns[i])}) - 1
FilesOf(ns, k) == {FileOf(events[ns[i]]) : i \in 1..k}

-----------------------------------------------------------------------------
\* try_load(): no file, an issue that validate() finds or a WAV that is not one make None;
\* a file that ends before its header raises EOFError, which nothing catches.
TryLoad(rate) ==
  /\ adapter = "unloaded"
  /\ adapter' = CASE \E f \in Files : disk[f] = "empty" -> "escaped"
                  [] \A f \in Files : disk[f] # "empty" /\ \E g \in Files : disk[g] # "good" -> "none"
                  [] \A f \in Files : disk[f] = "good" -> rate
  /\ UNCHANGED <<disk, cache, events, length, output, call, streamed>>

\* Environment: a file is replaced, lost or cut off.
FileChanges(f, state) ==
  /\ disk[f] = "good" /\ disk' = [disk EXCEPT ![f] = state]
  /\ UNCHANGED <<adapter, cache, events, length, output, call, streamed>>

AddEvent(type, start, intensity) ==
  /\ call = "idle" /\ adapter \in {"none", "same", "other"} /\ Len(events) < MaxEvents
  /\ events' = Append(events, [type |-> type, start |-> start, intensity |-> intensity])
  /\ UNCHANGED <<disk, adapter, cache, length, output, call, streamed>>

Speech(from, to) == IF from < to THEN <<[event |-> 0, from |-> from, to |-> to]>> ELSE <<>>
Event(n) == <<[event |-> n, from |-> 0, to |-> 0]>>

\* Neither an adapter nor an event, or another sample rate: the speech as it is.
AsIs == adapter \in {"none", "other"} \/ events = <<>>

\* Mutant: an event after the end of the speech is put at its time all the same.
InsertSample_NoClamp(n) == events[n].start

\* Where an event comes: its start time in samples, at the end of the speech at the latest.
InsertSample(n) == IF length > 0 /\ events[n].start > 0 THEN Min({events[n].start, length}) ELSE 0

\* The speech up to each event and the event, and what remains of the speech.
Timeline ==
  LET place == [i \in DOMAIN Audible |-> InsertSample(Audible[i])] IN
  FlattenSeq([i \in DOMAIN Audible |->
    Speech(IF i = 1 THEN 0 ELSE place[i - 1], place[i]) \o Event(Audible[i])])
  \o Speech(IF Audible = <<>> THEN 0 ELSE place[Len(Audible)], length)

\* render_timeline_with_events(): all of it, or the exception of a file that is not there.
RenderTimeline ==
  /\ call = "idle" /\ adapter \in {"none", "same", "other"}
  /\ IF AsIs THEN output' = Speech(0, length) /\ call' = "done" /\ UNCHANGED cache
     ELSE LET k == Loaded(Audible) IN
       /\ cache' = cache \cup FilesOf(Audible, k)
       /\ IF k = Len(Audible) THEN output' = Timeline /\ call' = "done"
          ELSE output' = <<>> /\ call' = "raised"
  /\ streamed' = FALSE
  /\ UNCHANGED <<disk, adapter, events, length>>

\* The events of the stream before the speech, and those after it.
AtStart == SelectSeq(Audible, LAMBDA n : events[n].start = 0)
AtEnd == SelectSeq(Audible, LAMBDA n : events[n].start > 0)

\* The generator renders some events and yields them, and goes on to the next place or raises.
Yields(ns, next) ==
  LET k == Loaded(ns) IN
  /\ cache' = cache \cup FilesOf(ns, k)
  /\ output' = output \o FlattenSeq([i \in 1..k |-> Event(ns[i])])
  /\ call' = IF k = Len(ns) THEN next ELSE "raised"

\* stream_timeline_with_events() up to its first piece of speech.
StreamStart ==
  /\ call = "idle" /\ adapter \in {"none", "same", "other"}
  /\ IF AsIs THEN call' = "speaking only" /\ UNCHANGED <<cache, output>> ELSE Yields(AtStart, "speaking")
  /\ streamed' = TRUE
  /\ UNCHANGED <<disk, adapter, events, length>>

\* The speech that is passed on.
StreamSpeech ==
  /\ call \in {"speaking", "speaking only"}
  /\ output' = output \o Speech(0, length)
  /\ call' = IF call = "speaking" THEN "ending" ELSE "done"
  /\ UNCHANGED <<disk, adapter, cache, events, length, streamed>>

StreamEnd ==
  /\ call = "ending" /\ Yields(AtEnd, "done")
  /\ UNCHANGED <<disk, adapter, events, length, streamed>>

\* The next call, for the same graph with its events.
Again ==
  /\ call \in {"done", "raised"}
  /\ call' = "idle" /\ output' = <<>>
  /\ UNCHANGED <<disk, adapter, cache, events, length, streamed>>

Init ==
  /\ disk = [f \in Files |-> "good"]
  /\ adapter = "unloaded" /\ cache = {} /\ events = <<>> /\ length \in Lengths
  /\ output = <<>> /\ call = "idle" /\ streamed = FALSE

Next ==
  \/ \E rate \in {"same", "other"} : TryLoad(rate)
  \/ \E f \in Losable, state \in {"bad", "missing", "empty"} : FileChanges(f, state)
  \/ \E t \in Types, s \in Starts, i \in Intensities : AddEvent(t, s, i)
  \/ RenderTimeline \/ StreamStart \/ StreamSpeech \/ StreamEnd \/ Again

Spec == Init /\ [][Next]_audioEventsVars

-----------------------------------------------------------------------------
\* Type invariant.
TypeOK ==
  /\ disk \in [Files -> {"good", "bad", "missing", "empty"}]
  /\ adapter \in {"unloaded", "none", "same", "other", "escaped"}
  /\ cache \subseteq Files /\ length \in Lengths /\ streamed \in BOOLEAN
  /\ \A i \in DOMAIN events : events[i].type \in Types /\ events[i].start \in Starts
  /\ \A i \in DOMAIN output : output[i].event \in 0..Len(events)
  /\ call \in {"idle", "speaking", "speaking only", "ending", "done", "raised"}

SpeechOf(parts) == SelectSeq(parts, LAMBDA p : p.event = 0)
EventsOf(parts) == SelectSeq(parts, LAMBDA p : p.event # 0)

\* tests/test_event_timing.py: events insert time and never overlap the speech. A call that
\* is done has given the whole speech once and in order, and every event the manifest has
\* audio for, once and by start time; nothing but speech where events are skipped.
SpeechWhole ==
  call = "done" =>
    LET said == SpeechOf(output) played == EventsOf(output) IN
    /\ length > 0 => said # <<>> /\ said[1].from = 0 /\ said[Len(said)].to = length
    /\ \A i \in 2..Len(said) : said[i].from = said[i - 1].to
    /\ Len(played) = IF AsIs THEN 0 ELSE Cardinality({n \in DOMAIN events : Rendered(events[n])})
    /\ \A i, j \in DOMAIN played : i < j =>
         /\ played[i].event # played[j].event
         /\ events[played[i].event].start <= events[played[j].event].start

\* An event of a rendered timeline comes after exactly the speech before its time; the
\* stream has those at zero before the speech and all others after it.
EventsInPlace ==
  \A k \in DOMAIN output :
    call = "done" /\ output[k].event # 0 =>
      LET before == Max({p.to : p \in Range(SubSeq(output, 1, k))})
          start == events[output[k].event].start IN
      before = IF streamed THEN (IF start = 0 THEN 0 ELSE length) ELSE Min({start, length})

\* An event is played in a variant than which none is nearer to its intensity, nor narrower
\* where it matches (select_variant()).
PlayedFits ==
  \A e \in {events[i] : i \in DOMAIN events} : Rendered(e) =>
    LET chosen == SelectVariant(Variants[e.type], e.intensity) IN
    \A v \in Range(Variants[e.type]) :
      /\ Distance(chosen, e.intensity) <= Distance(v, e.intensity)
      /\ Matches(v, e.intensity) => Width(chosen) <= Width(v)
=============================================================================
