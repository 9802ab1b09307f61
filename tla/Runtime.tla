------------------------------ MODULE Runtime -------------------------------
(***************************************************************************)
(* The runtime of the Python library (voice_soundboard/runtime): the cache *)
(* of graphs, batches, and timelines with ducking. The three share         *)
(* nothing.                                                                *)
(***************************************************************************)
EXTENDS Naturals, Sequences, SequencesExt, FiniteSets, Functions, FiniteSetsExt

(***************************************************************************)
(* The cache of compiled graphs (voice_soundboard/runtime/cache.py) under  *)
(* the threads that compile through it: LRUCache, GraphCache and           *)
(* cached_compile. Each method of LRUCache is one step, under its lock;    *)
(* compile_fn runs between two of them, without it.                        *)
(***************************************************************************)
CONSTANTS
  Threads,
  Requests,       \* the arguments of the wrapper: [text, voice, options], where the other
                  \* arguments the key is made of are like voice, and options are **kwargs
  Enabled,        \* GraphCache.enabled
  MaxSize         \* max_size: 0 would make put() raise

VARIABLES
  lru,      \* the keys of the OrderedDict, the oldest first
  graphOf,  \* LRUCache: key -> the value
  compile,  \* the threads in the wrapper: [pc, request, graph]
  uses,     \* history: the keys ever used, in the order of their last use
  dropped   \* history: the keys removed on purpose since

cacheVars == <<lru, graphOf, compile, uses, dropped>>

CacheNone == "none"
Nothing == [text |-> CacheNone, voice |-> CacheNone, options |-> CacheNone]

\* A voice of None, or an empty one, reads like a voice that is named "default".
VoiceName(request) == IF request.voice = CacheNone THEN "default" ELSE request.voice

\* Mutant: the voice is not part of the key.
MakeKey_NoVoice(request) == <<request.text, "default">>

\* make_key: the options are no part of it (cache.py:301-308).
MakeKey(request) == <<request.text, VoiceName(request)>>
Keys == {MakeKey(r) : r \in Requests}

\* compile_fn is deterministic, and gets the options too (cache.py:315-323): its graph is named
\* after all that it was asked.
Compiled(request) == request

ToEnd(s, k) == Append(SelectSeq(s, LAMBDA x : x # k), k)
Cached(k) == k \in Range(lru)
\* The values of the keys that stay.
KeptOf(graphs, keys) == [k \in Keys |-> IF k \in keys THEN graphs[k] ELSE Nothing]

-----------------------------------------------------------------------------
Idle(t) == compile[t].pc = "idle"

\* Mutant: a hit is not a use.
Hit_NoMove(t, request) ==
  LET k == MakeKey(request) IN
  /\ Idle(t) /\ Enabled /\ Cached(k)
  /\ compile' = [compile EXCEPT ![t] = [pc |-> "idle", request |-> request, graph |-> graphOf[k]]]
  /\ uses' = ToEnd(uses, k)
  /\ UNCHANGED <<lru, graphOf, dropped>>

\* get(): the entry becomes the most recent one.
Hit(t, request) ==
  LET k == MakeKey(request) IN
  /\ Idle(t) /\ Enabled /\ Cached(k)
  /\ lru' = ToEnd(lru, k)
  /\ compile' = [compile EXCEPT ![t] = [pc |-> "idle", request |-> request, graph |-> graphOf[k]]]
  /\ uses' = ToEnd(uses, k)
  /\ UNCHANGED <<graphOf, dropped>>

Miss(t, request) ==
  /\ Idle(t) /\ ~(Enabled /\ Cached(MakeKey(request)))
  /\ compile' = [compile EXCEPT ![t] = [pc |-> "compiling", request |-> request,
                                        graph |-> Compiled(request)]]
  /\ UNCHANGED <<lru, graphOf, uses, dropped>>

\* compile_fn raises: nothing is cached.
Fail(t) ==
  /\ compile[t].pc = "compiling"
  /\ compile' = [compile EXCEPT ![t] = [pc |-> "idle", request |-> Nothing, graph |-> Nothing]]
  /\ UNCHANGED <<lru, graphOf, uses, dropped>>

\* put(): an entry of that key goes first, then the oldest while there is no room.
Put(t) ==
  LET k     == MakeKey(compile[t].request)
      rest  == SelectSeq(lru, LAMBDA x : x # k)
      extra == IF Len(rest) < MaxSize THEN 0 ELSE 1 + Len(rest) - MaxSize
  IN
  /\ compile[t].pc = "compiling"
  /\ compile' = [compile EXCEPT ![t].pc = "idle"]
  /\ IF Enabled
     THEN /\ lru' = Append(SubSeq(rest, extra + 1, Len(rest)), k)
          /\ graphOf' = KeptOf([graphOf EXCEPT ![k] = compile[t].graph], Range(lru'))
          /\ uses' = ToEnd(uses, k)
          /\ dropped' = dropped \ {k}
     ELSE UNCHANGED <<lru, graphOf, uses, dropped>>

Invalidate ==
  /\ \E k \in Range(lru) : lru' = SelectSeq(lru, LAMBDA x : x # k) /\ dropped' = dropped \cup {k}
  /\ graphOf' = KeptOf(graphOf, Range(lru'))
  /\ UNCHANGED <<compile, uses>>

Clear ==
  /\ lru # <<>> /\ lru' = <<>> /\ dropped' = dropped \cup Range(lru)
  /\ graphOf' = KeptOf(graphOf, {})
  /\ UNCHANGED <<compile, uses>>

CacheInit ==
  /\ lru = <<>> /\ uses = <<>> /\ dropped = {}
  /\ graphOf = [k \in Keys |-> Nothing]
  /\ compile = [t \in Threads |-> [pc |-> "idle", request |-> Nothing, graph |-> Nothing]]

CacheNext ==
  \/ \E t \in Threads : \/ \E request \in Requests : Hit(t, request) \/ Miss(t, request)
                        \/ Put(t) \/ Fail(t)
  \/ Invalidate \/ Clear

CacheSpec == CacheInit /\ [][CacheNext]_cacheVars

-----------------------------------------------------------------------------
\* Type invariant.
CacheTypeOK ==
  /\ lru \in Seq(Keys) /\ uses \in Seq(Keys) /\ dropped \subseteq Keys
  /\ graphOf \in [Keys -> Requests \cup {Nothing}]
  /\ compile \in [Threads -> [pc : {"idle", "compiling"}, request : Requests \cup {Nothing},
                              graph : Requests \cup {Nothing}]]

\* The graph that a caller gets, hit or not, was compiled for its own text and voice. It may
\* have been compiled for other options, which the key leaves out, and for None where the
\* caller named the voice "default": no more is true of the code.
OwnGraph ==
  \A t \in Threads : /\ compile[t].graph.text = compile[t].request.text
                     /\ VoiceName(compile[t].graph) = VoiceName(compile[t].request)

\* The cache holds the most recently used keys: within its bound, in the order of
\* their last use, and no key that was evicted is more recent than one that stays.
MostRecentKept ==
  /\ Len(lru) <= MaxSize
  /\ lru = SelectSeq(uses, LAMBDA k : k \in Range(lru))
  /\ \A i, j \in DOMAIN uses :
       (i < j /\ Cached(uses[i]) /\ uses[j] \notin dropped) => Cached(uses[j])

(***************************************************************************)
(* BatchSynthesizer (voice_soundboard/runtime/batch.py): the items of a    *)
(* batch are compiled by a pool of threads, then synthesised and saved one *)
(* after the other.                                                        *)
(***************************************************************************)
CONSTANTS
  Total,       \* len(texts)
  MaxWorkers,  \* max_workers
  OutputDir    \* is there an output_dir

VARIABLES
  phase,    \* "compile", "synthesize", "returned" or "raised"
  item,     \* BatchItem: [graph, audio, path, error]
  workers,  \* the items being compiled
  cursor,   \* items the synthesis loop has passed
  files     \* the files written, by item

batchVars == <<phase, item, workers, cursor, files>>

Items == 1..Total
Fresh == [graph |-> FALSE, audio |-> FALSE, path |-> FALSE, error |-> FALSE]

BeginCompile(i) ==
  /\ phase = "compile" /\ Cardinality(workers) < MaxWorkers
  /\ i \notin workers /\ item[i] = Fresh
  /\ workers' = workers \cup {i}
  /\ UNCHANGED <<phase, item, cursor, files>>

\* compile_fn returns a graph or raises: the error stays with the item.
EndCompile(i) ==
  /\ i \in workers
  /\ workers' = workers \ {i}
  /\ \/ item' = [item EXCEPT ![i].graph = TRUE]
     \/ item' = [item EXCEPT ![i].error = TRUE]
  /\ UNCHANGED <<phase, cursor, files>>

BeginSynthesis ==
  /\ phase = "compile" /\ \A i \in Items : item[i] # Fresh
  /\ phase' = "synthesize"
  /\ UNCHANGED <<item, workers, cursor, files>>

\* Mutant: an error of the file does not count.
SynthesizeNext_SaveErrorLost ==
  LET i == cursor + 1 IN
  /\ phase = "synthesize" /\ cursor < Total
  /\ cursor' = i
  /\ \/ item[i].error /\ UNCHANGED <<item, files, phase>>
     \/ /\ ~item[i].error
        /\ \/ item' = [item EXCEPT ![i].error = TRUE] /\ UNCHANGED files
           \/ /\ OutputDir
              /\ item' = [item EXCEPT ![i] = [@ EXCEPT !.audio = TRUE, !.path = TRUE]]
              /\ UNCHANGED files
        /\ phase' \in {"synthesize", "raised"}
  /\ UNCHANGED workers

\* The next item: skipped after an error, else synthesised and saved; either may
\* fail, and so may the caller's on_progress, which ends the batch.
SynthesizeNext ==
  LET i == cursor + 1 IN
  /\ phase = "synthesize" /\ cursor < Total
  /\ cursor' = i
  /\ \/ item[i].error /\ UNCHANGED <<item, files, phase>>
     \/ /\ ~item[i].error
        /\ \/ item' = [item EXCEPT ![i].error = TRUE] /\ UNCHANGED files
           \/ /\ OutputDir
              /\ item' = [item EXCEPT ![i] = [@ EXCEPT !.audio = TRUE, !.path = TRUE, !.error = TRUE]]
              /\ UNCHANGED files
           \/ /\ item' = [item EXCEPT ![i] = [@ EXCEPT !.audio = TRUE, !.path = OutputDir]]
              /\ files' = IF OutputDir THEN files \cup {i} ELSE files
        /\ phase' \in {"synthesize", "raised"}
  /\ UNCHANGED workers

Return ==
  /\ phase = "synthesize" /\ cursor = Total
  /\ phase' = "returned"
  /\ UNCHANGED <<item, workers, cursor, files>>

BatchInit ==
  /\ phase = "compile" /\ workers = {} /\ cursor = 0 /\ files = {}
  /\ item = [i \in Items |-> Fresh]

BatchNext == BeginSynthesis \/ SynthesizeNext \/ Return \/ \E i \in Items : BeginCompile(i) \/ EndCompile(i)

BatchSpec == BatchInit /\ [][BatchNext]_batchVars

-----------------------------------------------------------------------------
\* Type invariant.
BatchTypeOK ==
  /\ phase \in {"compile", "synthesize", "returned", "raised"}
  /\ item \in [Items -> [graph : BOOLEAN, audio : BOOLEAN, path : BOOLEAN, error : BOOLEAN]]
  /\ workers \subseteq Items /\ cursor \in 0..Total /\ files \subseteq Items

Success(i) == ~item[i].error /\ item[i].audio

\* An item of a returned batch is a success exactly when everything asked for is
\* there: its graph, its audio and its file; and one failure costs no other item.
SuccessIsWhole ==
  phase = "returned" =>
    \A i \in Items :
      /\ Success(i) => item[i].graph /\ (OutputDir => i \in files)
      /\ i \in files => Success(i)
      /\ ~Success(i) => item[i].error

(***************************************************************************)
(* The generators over a timeline: stream_timeline                         *)
(* (voice_soundboard/runtime/timeline.py), which places its items, and     *)
(* process_timeline_with_ducking (ducking.py), which lowers the speech     *)
(* after an event. An action consumes one item; both generators read the   *)
(* same timeline here.                                                     *)
(***************************************************************************)
CONSTANTS
  Durations,  \* durations of items
  Envelopes,  \* ducking envelopes
  MaxItems    \* bound: items of a timeline

VARIABLES
  items,    \* the timeline so far: [kind, duration, ducking]
  placed,   \* StreamItem: [of, start, duration]
  place,    \* stream_timeline: the cursor
  pending,  \* stream_timeline: is there a pending_event
  current,  \* DuckingProcessor._current_ducking
  gains     \* the envelope each item was given, or None

timelineVars == <<items, placed, place, pending, current, gains>>

TimelineNone == "none"
Add(kind, d, e) ==
  /\ Len(items) < MaxItems
  /\ items' = Append(items, [kind |-> kind, duration |-> d, ducking |-> e])
Yield(d) ==
  /\ placed' = Append(placed, [of |-> Len(items) + 1, start |-> place, duration |-> d])
  /\ place' = place + d

\* An event is yielded; the ducking it brings, or brings not, replaces the last.
Event(d, e) ==
  /\ Add("event", d, e)
  /\ Yield(d)
  /\ pending' = TRUE
  /\ current' = e
  /\ gains' = Append(gains, TimelineNone)

\* Mutant: an event absorbs every pause that follows.
Pause_AbsorbsAll(d) ==
  /\ Add("pause", d, TimelineNone)
  /\ place' = IF pending THEN place ELSE place + d
  /\ gains' = Append(gains, TimelineNone)
  /\ UNCHANGED <<placed, pending, current>>

\* A pause right after an event is absorbed; another one is silence.
Pause(d) ==
  /\ Add("pause", d, TimelineNone)
  /\ place' = IF pending THEN place ELSE place + d
  /\ pending' = FALSE
  /\ gains' = Append(gains, TimelineNone)
  /\ UNCHANGED <<placed, current>>

\* Mutant: the envelope stays for the speech after.
Speech_KeepsDucking(d) ==
  /\ Add("speech", d, TimelineNone)
  /\ Yield(d)
  /\ pending' = FALSE
  /\ gains' = Append(gains, current)
  /\ UNCHANGED current

\* process_speech: the envelope applies once.
Speech(d) ==
  /\ Add("speech", d, TimelineNone)
  /\ Yield(d)
  /\ pending' = FALSE
  /\ gains' = Append(gains, current)
  /\ current' = TimelineNone

TimelineInit ==
  /\ items = <<>> /\ placed = <<>> /\ place = 0 /\ pending = FALSE
  /\ current = TimelineNone /\ gains = <<>>

TimelineNext ==
  \E d \in Durations :
    Pause(d) \/ Speech(d) \/ \E e \in Envelopes \cup {TimelineNone} : Event(d, e)

TimelineSpec == TimelineInit /\ [][TimelineNext]_timelineVars

-----------------------------------------------------------------------------
\* Type invariant.
TimelineTypeOK ==
  /\ items \in Seq([kind : {"event", "pause", "speech"}, duration : Durations,
                    ducking : Envelopes \cup {TimelineNone}])
  /\ placed \in Seq([of : Nat, start : Nat, duration : Durations])
  /\ place \in Nat /\ pending \in BOOLEAN
  /\ current \in Envelopes \cup {TimelineNone} /\ gains \in Seq(Envelopes \cup {TimelineNone})

Kind(i) == items[i].kind
Absorbed(i) == Kind(i) = "pause" /\ i > 1 /\ Kind(i - 1) = "event"
Before(i) == {j \in 1..(i - 1) : ~Absorbed(j)}

\* Each item starts when all that counts before it has ended, and a pause counts
\* unless it follows an event: no overlap and no double gap.
PlacedExactly ==
  \A n \in DOMAIN placed :
    placed[n].start = FoldSet(LAMBDA j, sum : sum + items[j].duration, 0, Before(placed[n].of))

\* A speech is ducked exactly when an event came after the speech before it, by
\* the envelope of the last such event.
DuckedExactly ==
  \A i \in DOMAIN items :
    LET last == {j \in 1..(i - 1) : Kind(j) \in {"event", "speech"}}
        j    == Max(last)
    IN gains[i] = IF Kind(i) = "speech" /\ last # {} /\ Kind(j) = "event"
                  THEN items[j].ducking ELSE TimelineNone

=============================================================================
