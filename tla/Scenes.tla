------------------------------- MODULE Scenes -------------------------------
(***************************************************************************)
(* What the Python library lays out in time and space: scenes of layers    *)
(* (voice_soundboard/scenes), spatial sources (v3/spatial.py) and          *)
(* conversations of speakers (v3/conversation.py). The three share         *)
(* nothing.                                                                *)
(***************************************************************************)
EXTENDS Integers, Sequences, SequencesExt, FiniteSets, Functions

(***************************************************************************)
(* A scene of the Python library (voice_soundboard/scenes): SceneBuilder,  *)
(* the layers build() makes of its segments, and SceneMixer, which mixes   *)
(* them. Times and lengths are in samples; a sample of the output is the   *)
(* set of what is mixed into it.                                           *)
(***************************************************************************)
CONSTANTS
  Lengths,      \* lengths of the audio
  SceneDurations,    \* durations a caller gives (0: none)
  Transitions,  \* durations of a crossfade or a fade out
  Starts,       \* where a caller puts an effect
  MaxCalls      \* bound: calls of the builder

VARIABLES
  segments,  \* _segments: [length, duration, transition, over]
  music,     \* length of the music (0: none)
  effects,   \* _effects
  cursor,    \* _cursor
  calls,     \* bound
  layers,    \* the Scene that was built
  mix        \* [pc, output]: of SceneMixer.mix()

sceneVars == <<segments, music, effects, cursor, calls, layers, mix>>

\* How much of a layer is heard.
Played(layer) ==
  IF layer.duration # 0 /\ layer.duration < layer.length THEN layer.duration ELSE layer.length

Layer(kind, of, length, start, duration) ==
  [kind |-> kind, of |-> of, length |-> length, start |-> start, duration |-> duration,
   fadeIn |-> 0, fadeOut |-> 0, loop |-> kind = "music"]

\* How far a segment moves the timeline.
Advance(segment) == IF segment.duration # 0 THEN segment.duration ELSE segment.length

Building == layers = <<>> /\ calls < MaxCalls
Call == Building /\ calls' = calls + 1 /\ UNCHANGED <<layers, mix>>

-----------------------------------------------------------------------------
AddSpeech(length, duration) ==
  /\ Call
  /\ segments' = Append(segments, [length |-> length, duration |-> duration,
                                   transition |-> "cut", over |-> 0])
  /\ UNCHANGED <<music, effects, cursor>>

\* crossfade() and fade_out() set the transition of the last segment, if there is one.
SetTransition(transition, over) ==
  /\ Call /\ segments # <<>>
  /\ segments' = [segments EXCEPT ![Len(segments)].transition = transition, ![Len(segments)].over = over]
  /\ UNCHANGED <<music, effects, cursor>>

SetMusic(length) ==
  /\ Call /\ music' = length
  /\ UNCHANGED <<segments, effects, cursor>>

\* pause() moves the cursor, which is where effects go that are given no time.
Pause(duration) ==
  /\ Call /\ cursor' = cursor + duration
  /\ UNCHANGED <<segments, music, effects>>

AddEffect(length) ==
  /\ Call
  /\ \E start \in Starts \cup {cursor} :
       effects' = Append(effects, Layer("effect", Len(effects) + 1, length, start, 0))
  /\ UNCHANGED <<segments, music, cursor>>

-----------------------------------------------------------------------------
\* Mutant: a crossfade does not move the segment after it.
SceneTimeline_NoCrossfade ==
  LET at[i \in 0..Len(segments)] ==
        IF i = 0 THEN [time |-> 0, layers |-> <<>>]
        ELSE LET s == segments[i] IN
             [time   |-> at[i - 1].time + Advance(s),
              layers |-> Append(at[i - 1].layers, Layer("speech", i, s.length, at[i - 1].time, s.duration))]
  IN at[Len(segments)].layers

\* build(): each segment where the ones before it end; a crossfade of the one before moves
\* it back and fades it in, a fade out is its own.
SceneTimeline ==
  LET at[i \in 0..Len(segments)] ==
        IF i = 0 THEN [time |-> 0, layers |-> <<>>]
        ELSE LET s     == segments[i]
                 over  == IF i > 1 /\ segments[i - 1].transition = "crossfade" THEN segments[i - 1].over ELSE 0
                 start == at[i - 1].time - over
             IN [time   |-> start + Advance(s),
                 layers |-> Append(at[i - 1].layers,
                   [Layer("speech", i, s.length, start, s.duration) EXCEPT
                      !.fadeIn = over, !.fadeOut = IF s.transition = "fade out" THEN s.over ELSE 0])]
  IN at[Len(segments)].layers

Build ==
  /\ layers = <<>> /\ segments # <<>>
  /\ layers' = (IF music = 0 THEN <<>> ELSE <<Layer("music", 0, music, 0, 0)>>) \o SceneTimeline \o effects
  /\ UNCHANGED <<segments, music, effects, cursor, calls, mix>>

\* calculate_duration(): the loops do not count.
Total ==
  FoldLeft(LAMBDA end, l : IF l.loop \/ l.start + Played(l) <= end THEN end ELSE l.start + Played(l),
           0, layers)

\* Python's index: a negative one counts from the end.
Place(i) == IF i < 0 THEN Total + i ELSE i
Span(l) == {l.start + k : k \in 0..(Played(l) - 1)}

\* _extract_speech_regions().
Speaking(i) ==
  \E l \in ToSet(layers) : l.kind = "speech" /\ \E j \in Span(l) : j < Total /\ Place(j) = i

\* What a layer adds to sample i: [of, kind, sample, ducked].
Added(l, i) ==
  IF l.loop
  THEN {[kind |-> l.kind, of |-> l.of, sample |-> i % l.length, ducked |-> Speaking(i)]}
  ELSE {[kind |-> l.kind, of |-> l.of, sample |-> j - l.start, ducked |-> FALSE] :
          j \in {k \in Span(l) : k < Total /\ Place(k) = i}}

\* Mutant: nothing ducks.
Mix_NoDucking ==
  /\ layers # <<>> /\ mix.pc = "none"
  /\ mix' = [pc |-> "done", output |-> [i \in 1..Total |->
       UNION {{[a EXCEPT !.ducked = FALSE] : a \in Added(l, i - 1)} : l \in ToSet(layers)}]]
  /\ UNCHANGED <<segments, music, effects, cursor, calls, layers>>

\* mix(): an index before the beginning of a buffer that is shorter raises.
Mix ==
  /\ layers # <<>> /\ mix.pc = "none"
  /\ mix' = IF \E l \in ToSet(layers) : ~l.loop /\ \E j \in Span(l) : j < 0 - Total
            THEN [pc |-> "raised", output |-> <<>>]
            ELSE [pc |-> "done", output |-> [i \in 1..Total |->
                    UNION {Added(l, i - 1) : l \in ToSet(layers)}]]
  /\ UNCHANGED <<segments, music, effects, cursor, calls, layers>>

SceneInit ==
  /\ segments = <<>> /\ music = 0 /\ effects = <<>> /\ cursor = 0 /\ calls = 0
  /\ layers = <<>> /\ mix = [pc |-> "none", output |-> <<>>]

SceneNext ==
  \/ \E n \in Lengths : \/ \E d \in SceneDurations : AddSpeech(n, d)
                        \/ SetMusic(n) \/ AddEffect(n) \/ Pause(n)
  \/ \E d \in Transitions, t \in {"crossfade", "fade out"} : SetTransition(t, d)
  \/ Build \/ Mix

SceneSpec == SceneInit /\ [][SceneNext]_sceneVars

-----------------------------------------------------------------------------
\* Type invariant.
SceneTypeOK ==
  /\ cursor \in Nat /\ calls \in 0..MaxCalls /\ music \in Lengths \cup {0}
  /\ \A i \in DOMAIN segments : segments[i].length \in Lengths /\ segments[i].duration \in SceneDurations
  /\ mix.pc \in {"none", "done", "raised"}

\* A crossfade that is longer than all before it puts a segment before the beginning.
EarlySegment == \E l \in ToSet(layers) : l.start < 0

\* Every sample that is to be heard of a segment or an effect is in the output once, where
\* its layer starts plus its index; unless a segment starts before the beginning, whose
\* first samples are then heard at the end, or the mix raises.
HeardOnceInPlace ==
  mix.pc = "done" /\ ~EarlySegment =>
    \A l \in {m \in ToSet(layers) : ~m.loop} : \A k \in 0..(Played(l) - 1) :
      {i \in DOMAIN mix.output :
         \E a \in mix.output[i] : a.kind = l.kind /\ a.of = l.of /\ a.sample = k} = {l.start + k + 1}

\* Two segments overlap by the crossfade between them and not otherwise.
OverlapIsCrossfade ==
  layers # <<>> =>
    LET speech == SelectSeq(layers, LAMBDA l : l.kind = "speech") IN
    \A i \in 2..Len(speech) :
      speech[i].start = speech[i - 1].start + Advance(segments[i - 1])
                        - (IF segments[i - 1].transition = "crossfade" THEN segments[i - 1].over ELSE 0)

\* The music plays in every sample, and is ducked in those with speech and in no others.
DuckedUnderSpeech ==
  mix.pc = "done" /\ music # 0 =>
    \A i \in DOMAIN mix.output :
      /\ \E a \in mix.output[i] : a.kind = "music"
      /\ \A a \in mix.output[i] :
           a.kind = "music" => (a.ducked = \E b \in mix.output[i] : b.kind = "speech")

(***************************************************************************)
(* The spatial graph of v3 (voice_soundboard/v3/spatial.py): its listener, *)
(* sources and downmix, the movement of sources along keyframes, what      *)
(* validate() accepts, and the gain over distance. Positions are kept to   *)
(* the distance z, in meters; a position between keyframes is a fraction   *)
(* <<numerator, denominator>>.                                             *)
(***************************************************************************)
CONSTANTS
  SpatialNames,        \* names of sources
  MaxSources,   \* MAX_SOURCES
  Times,        \* times of keyframes, in seconds
  Distances,    \* positions of keyframes
  MaxSpeed,     \* max_speed, in meters per second
  MaxKeyframes  \* bound: keyframes of a path

VARIABLES
  listener, downmix,  \* whether they are set
  sources,            \* _sources: name -> position
  paths               \* _movement_paths: name -> keyframes [time, z, mode]

spatialVars == <<listener, downmix, sources, paths>>

Modes == {"linear", "smoothstep", "ease in", "ease out"}
Keyframes == [time : Times, z : Distances, mode : Modes]
Abs(n) == IF n < 0 THEN -n ELSE n

-----------------------------------------------------------------------------
\* _apply_interpolation() of elapsed / duration, over duration ^ 3.
Interpolated(e, d, mode) ==
  CASE mode = "linear"     -> e * d * d
    [] mode = "smoothstep" -> e * e * (3 * d - 2 * e)
    [] mode = "ease in"    -> e * e * d
    [] mode = "ease out"   -> d * (d * d - (d - e) * (d - e))

\* Mutant: the first keyframe at or after the time is where the movement begins.
PositionAt_Next(path, time) ==
  IF time <= path[1].time THEN <<path[1].z, 1>>
  ELSE IF time >= path[Len(path)].time THEN <<path[Len(path)].z, 1>>
  ELSE LET i    == CHOOSE j \in 2..Len(path) : /\ path[j].time >= time
                                               /\ \A k \in 2..(j - 1) : path[k].time < time
           prev == path[i] IN <<prev.z, 1>>

\* position_at(): the ends hold before and after; between them from the last keyframe
\* before to the first at or after, by the latter's mode.
PositionAt(path, time) ==
  IF time <= path[1].time THEN <<path[1].z, 1>>
  ELSE IF time >= path[Len(path)].time THEN <<path[Len(path)].z, 1>>
  ELSE LET i    == CHOOSE j \in 2..Len(path) : /\ path[j].time >= time
                                               /\ \A k \in 2..(j - 1) : path[k].time < time
           prev == path[i - 1]
           curr == path[i]
           d    == curr.time - prev.time
           cube == d * d * d
       IN IF d = 0 THEN <<prev.z, 1>>
          ELSE <<prev.z * cube + (curr.z - prev.z) * Interpolated(time - prev.time, d, curr.mode), cube>>

\* MovementPath.validate(): order and mean speed of each leg.  (A leg of a second or more
\* is no teleport.)
PathIsValid(path) ==
  \A i \in 2..Len(path) :
    /\ path[i].time > path[i - 1].time
    /\ Abs(path[i].z - path[i - 1].z) <= MaxSpeed * (path[i].time - path[i - 1].time)

\* calculate_gain() as <<numerator, denominator>>, for a rolloff of 0 or 1.
Gain(model, ref, max, rolloff, distance) ==
  LET d == IF distance >= max THEN max ELSE distance IN
  IF distance <= ref THEN <<1, 1>>
  ELSE CASE model = "linear"      -> IF distance >= max THEN <<0, 1>>
                                     ELSE <<(max - ref) - rolloff * (d - ref), max - ref>>
         [] model = "inverse"     -> <<ref, ref + rolloff * (d - ref)>>
         [] model = "exponential" -> IF rolloff = 0 THEN <<1, 1>> ELSE <<ref, d>>

\* validate() of the graph.
IsValid == listener /\ downmix /\ \A n \in DOMAIN paths : PathIsValid(paths[n])

-----------------------------------------------------------------------------
SetListener == ~listener /\ listener' = TRUE /\ UNCHANGED <<downmix, sources, paths>>
SetDownmix  == ~downmix /\ downmix' = TRUE /\ UNCHANGED <<listener, sources, paths>>

\* Mutant: the limit is tested after the source is added.
AddSource_OffByOne(n, z) ==
  /\ n \notin DOMAIN sources /\ Cardinality(DOMAIN sources) <= MaxSources
  /\ sources' = [m \in DOMAIN sources \cup {n} |-> IF m = n THEN z ELSE sources[m]]
  /\ UNCHANGED <<listener, downmix, paths>>

\* A name that is there and a source too many are refused.
AddSource(n, z) ==
  /\ n \notin DOMAIN sources /\ Cardinality(DOMAIN sources) < MaxSources
  /\ sources' = [m \in DOMAIN sources \cup {n} |-> IF m = n THEN z ELSE sources[m]]
  /\ UNCHANGED <<listener, downmix, paths>>

\* Mutant: the path of a source that is removed stays.
RemoveSource_KeepPath(n) ==
  /\ n \in DOMAIN sources
  /\ sources' = [m \in DOMAIN sources \ {n} |-> sources[m]]
  /\ UNCHANGED <<listener, downmix, paths>>

\* Its movement goes with it.
RemoveSource(n) ==
  /\ n \in DOMAIN sources
  /\ sources' = [m \in DOMAIN sources \ {n} |-> sources[m]]
  /\ paths' = [m \in DOMAIN paths \ {n} |-> paths[m]]
  /\ UNCHANGED <<listener, downmix>>

AddMovement(n) ==
  /\ n \in DOMAIN sources
  /\ paths' = [m \in DOMAIN paths \cup {n} |-> IF m = n THEN <<>> ELSE paths[m]]
  /\ UNCHANGED <<listener, downmix, sources>>

\* Mutant: keyframes stay in the order of the calls.
AddKeyframe_Unsorted(n, key) ==
  /\ n \in DOMAIN paths /\ Len(paths[n]) < MaxKeyframes
  /\ paths' = [paths EXCEPT ![n] = Append(@, key)]
  /\ UNCHANGED <<listener, downmix, sources>>

\* add_keyframe(): appended, then a stable sort by time.
AddKeyframe(n, key) ==
  /\ n \in DOMAIN paths /\ Len(paths[n]) < MaxKeyframes
  /\ paths' = [paths EXCEPT ![n] = SelectSeq(@, LAMBDA k : k.time <= key.time) \o <<key>>
                                   \o SelectSeq(@, LAMBDA k : k.time > key.time)]
  /\ UNCHANGED <<listener, downmix, sources>>

SpatialInit ==
  /\ listener = FALSE /\ downmix = FALSE
  /\ sources = [n \in {} |-> 0] /\ paths = [n \in {} |-> <<>>]

SpatialNext ==
  \/ SetListener \/ SetDownmix
  \/ \E n \in SpatialNames : \/ \E z \in Distances : AddSource(n, z)
                      \/ RemoveSource(n) \/ AddMovement(n)
                      \/ \E key \in Keyframes : AddKeyframe(n, key)

SpatialSpec == SpatialInit /\ [][SpatialNext]_spatialVars

-----------------------------------------------------------------------------
\* Type invariant.
SpatialTypeOK ==
  /\ listener \in BOOLEAN /\ downmix \in BOOLEAN
  /\ DOMAIN sources \subseteq SpatialNames /\ \A n \in DOMAIN sources : sources[n] \in Distances
  /\ \A n \in DOMAIN paths : paths[n] \in Seq(Keyframes) /\ Len(paths[n]) <= MaxKeyframes

\* A source that is removed and added again does not move as before, and the limit is kept.
PathsOfSources == DOMAIN paths \subseteq DOMAIN sources /\ Cardinality(DOMAIN sources) <= MaxSources

Moments == 0..6

\* A source is always between the keyframes around it: it never leaves the way.
StaysOnTheWay ==
  \A n \in {m \in DOMAIN paths : paths[m] # <<>>} : \A time \in Moments :
    LET p      == PositionAt(paths[n], time)
        before == {i \in DOMAIN paths[n] : paths[n][i].time <= time}
        after  == {i \in DOMAIN paths[n] : paths[n][i].time >= time}
        around == (IF before = {} THEN {} ELSE {CHOOSE i \in before : \A j \in before : j <= i})
                  \cup (IF after = {} THEN {} ELSE {CHOOSE i \in after : \A j \in after : i <= j})
    IN /\ \E i \in around : paths[n][i].z * p[2] <= p[1]
       /\ \E i \in around : paths[n][i].z * p[2] >= p[1]

\* On a path that is valid a source jumps nowhere: it keeps to max_speed where all modes
\* are linear, and to twice of it in the others, whose mean speed is what is checked.
SpeedKept ==
  \A n \in {m \in DOMAIN paths : paths[m] # <<>> /\ PathIsValid(paths[m])} :
    \A time \in Moments :
      LET p      == PositionAt(paths[n], time)
          q      == PositionAt(paths[n], time + 1)
          factor == IF \A i \in DOMAIN paths[n] : paths[n][i].mode = "linear" THEN 1 ELSE 2
      IN Abs(q[1] * p[2] - p[1] * q[2]) <= factor * MaxSpeed * p[2] * q[2]

\* Whatever the distance model the gain falls with the distance from 1 to no less than 0,
\* when max_distance is not below ref_distance and the linear rolloff is at most 1.
GainFalls ==
  \A model \in {"linear", "inverse", "exponential"}, ref \in 1..2, rolloff \in 0..1, more \in 0..2,
     d \in 1..4 :
    LET near == Gain(model, ref, ref + more, rolloff, d)
        far  == Gain(model, ref, ref + more, rolloff, d + 1)
    IN near[1] <= near[2] /\ far[1] >= 0 /\ far[1] * near[2] <= near[1] * far[2]

(***************************************************************************)
(* The conversation of v3 (voice_soundboard/v3/conversation.py): speakers  *)
(* and turns, also from a script; when each turn starts; which turns are   *)
(* crossfaded; the tracks of the audio graph; and what is kept when it is  *)
(* written to a dictionary and read back.                                  *)
(***************************************************************************)
CONSTANTS
  TalkNames,      \* speakers
  TalkDurations,  \* durations of turns
  Overlaps,   \* overlaps of turns (0: none)
  MaxTurns    \* bound: turns

VARIABLES
  speakers,  \* _speakers, in the order of the dict
  turns,     \* _turns: [speaker, overlap, duration], with the duration its synthesis will have
  config,    \* [gap, autoPan, ducking]
  removed    \* history: a speaker was removed

talkVars == <<speakers, turns, config, removed>>

\* apply_turn_taking_style(): sequential, natural, formal, casual, in units of 50 ms.
Gaps == {6, 3, 10, 2}
DefaultConfig == [gap |-> 4, autoPan |-> TRUE, ducking |-> TRUE]

Turn(s, overlap, duration) == [speaker |-> s, overlap |-> overlap, duration |-> duration]

-----------------------------------------------------------------------------
\* Mutant: a turn that overlaps waits for the gap as well.
TalkTimeline_GapToo(ts, gap) ==
  LET at[i \in 1..Len(ts)] ==
        LET start == IF i = 1 THEN 0 ELSE at[i - 1][2] + gap - ts[i].overlap
        IN <<start, start + ts[i].duration>>
  IN [i \in DOMAIN ts |-> at[i]]

\* calculate_timeline(): <<start, end>> of each turn, from the end of the turn before it.
TalkTimeline(ts, gap) ==
  LET at[i \in 1..Len(ts)] ==
        LET start == IF i = 1 THEN 0
                     ELSE IF ts[i].overlap > 0 THEN at[i - 1][2] - ts[i].overlap
                     ELSE at[i - 1][2] + gap
        IN <<start, start + ts[i].duration>>
  IN [i \in DOMAIN ts |-> at[i]]

\* calculate_crossfades(), by its configuration.
Crossfades(ts, always, onChange, onOverlap) ==
  {i \in 1..(Len(ts) - 1) : \/ always
                            \/ onChange /\ ts[i].speaker # ts[i + 1].speaker
                            \/ onOverlap /\ ts[i + 1].overlap > 0}

\* to_audio_graph(): a track per speaker, which ducks for all the others.
DuckFor(s) == IF config.ducking THEN ToSet(speakers) \ {s} ELSE {}

-----------------------------------------------------------------------------
\* from_dict(to_dict()): turns are added again, which raises for a speaker that is not
\* there; a setting that is not written gets its default.
CanRead == \A i \in DOMAIN turns : turns[i].speaker \in ToSet(speakers)
ReadConfig == [DefaultConfig EXCEPT !.gap = config.gap, !.ducking = config.ducking]

\* A dict: a speaker that is there keeps its place.
AddSpeaker(s) ==
  /\ s \notin ToSet(speakers) /\ speakers' = Append(speakers, s)
  /\ UNCHANGED <<turns, config, removed>>

\* The turns of the speaker stay.
RemoveSpeaker(s) ==
  /\ s \in ToSet(speakers)
  /\ speakers' = SelectSeq(speakers, LAMBDA x : x # s) /\ removed' = TRUE
  /\ UNCHANGED <<turns, config>>

\* add_turn() raises for a speaker it does not know.
AddTurn(s, overlap, duration) ==
  /\ s \in ToSet(speakers) /\ Len(turns) < MaxTurns
  /\ turns' = Append(turns, Turn(s, overlap, duration))
  /\ UNCHANGED <<speakers, config, removed>>

\* A line of from_script(): its speaker is made when there is none of that name.
ScriptLine(s, duration) ==
  /\ Len(turns) < MaxTurns
  /\ speakers' = IF s \in ToSet(speakers) THEN speakers ELSE Append(speakers, s)
  /\ turns' = Append(turns, Turn(s, 0, duration))
  /\ UNCHANGED <<config, removed>>

ApplyStyle(gap) ==
  /\ config' = [config EXCEPT !.gap = gap]
  /\ UNCHANGED <<speakers, turns, removed>>

Configure(flag) ==
  /\ config' = [config EXCEPT ![flag] = FALSE]
  /\ UNCHANGED <<speakers, turns, removed>>

TalkInit == speakers = <<>> /\ turns = <<>> /\ config = DefaultConfig /\ removed = FALSE

TalkNext ==
  \/ \E s \in TalkNames :
       \/ AddSpeaker(s) \/ RemoveSpeaker(s)
       \/ \E d \in TalkDurations : ScriptLine(s, d) \/ \E o \in Overlaps : AddTurn(s, o, d)
  \/ \E g \in Gaps : ApplyStyle(g)
  \/ \E flag \in {"autoPan", "ducking"} : Configure(flag)

TalkSpec == TalkInit /\ [][TalkNext]_talkVars

-----------------------------------------------------------------------------
\* Type invariant.
TalkTypeOK ==
  /\ ToSet(speakers) \subseteq TalkNames /\ IsInjective(speakers) /\ Len(turns) <= MaxTurns
  /\ \A i \in DOMAIN turns : turns[i].speaker \in TalkNames /\ turns[i].duration \in TalkDurations
  /\ config.gap \in Gaps \cup {4} /\ removed \in BOOLEAN

Timed == TalkTimeline(turns, config.gap)

\* A turn that interrupts starts exactly that much before the one before it ends; any other
\* starts after all turns before it have ended, unless one of them ended before the turn
\* that it interrupted.
NoUnaskedOverlap ==
  \A i \in DOMAIN turns \ {1} :
    IF turns[i].overlap > 0 THEN Timed[i][1] + turns[i].overlap = Timed[i - 1][2]
    ELSE \/ \A j \in 1..(i - 1) : Timed[j][2] + config.gap <= Timed[i][1]
         \/ \E j \in 2..(i - 1) : turns[j].duration < turns[j].overlap

\* No turn starts before the beginning, unless it interrupts by more than there was.
NotBeforeStart ==
  \A i \in DOMAIN turns : Timed[i][1] >= 0 \/ \E j \in 2..i : turns[j].overlap > Timed[j - 1][2]

\* A conversation can be read back unless a speaker was removed, and then has the times
\* and the ducking it had, though not every setting.
ReadBack ==
  /\ removed \/ CanRead
  /\ TalkTimeline(turns, ReadConfig.gap) = Timed /\ ReadConfig.ducking = config.ducking

\* With two speakers or more each ducks for some other and none for itself; every change of
\* the speaker is crossfaded by default.
DuckedByOthers ==
  \A s \in ToSet(speakers) :
    /\ s \notin DuckFor(s) /\ (config.ducking /\ Len(speakers) > 1 => DuckFor(s) # {})
    /\ \A i \in 1..(Len(turns) - 1) :
         i \notin Crossfades(turns, FALSE, TRUE, TRUE) =>
           turns[i].speaker = turns[i + 1].speaker /\ Timed[i + 1][1] >= Timed[i][2]

=============================================================================
