------------------------- MODULE DialogueAndAmbient -------------------------
(***************************************************************************)
(* Two parts of the TypeScript core: dialogues with their casting, and the *)
(* ambient emitter.                                                        *)
(***************************************************************************)
EXTENDS Sequences, SequencesExt, Integers

(***************************************************************************)
(* parseDialogue (core/src/dialogue/parser.ts): the lines of a script,     *)
(* chosen as they are read, become cues, and then every speaker gets a     *)
(* voice, from the cast the caller gave or from a pool.                    *)
(***************************************************************************)
CONSTANTS
  SpeakerNames,
  Pool,         \* AUTO_CAST_POOL: a sequence of voices
  CastVoices,   \* the voices a caller asks for, some of them in the pool
  PauseTimes, MaxPause,  \* pauses as written, and 5000 ms
  MaxSpeakers, MaxCues,
  MaxLines      \* bound: lines of a script

VARIABLES
  line,      \* history: lines read
  cues,      \* [type, speaker, ms]
  speakers,  \* speakerSet: a sequence, in the order they appear
  casting,   \* result: [speaker, voice, auto]
  autoIdx,   \* where the search of the pool goes on
  parsing    \* "lines", "casting", "done" or "refused"

dialogueVars == <<line, cues, speakers, casting, autoIdx, parsing>>

Nobody == ""
NoVoice == ""

-----------------------------------------------------------------------------
ReadLine == parsing = "lines" /\ line < MaxLines /\ line' = line + 1

\* A cue more, and too many cues are an error.
AddCue(cue) ==
  /\ cues' = Append(cues, cue)
  /\ parsing' = IF Len(cues') > MaxCues THEN "refused" ELSE parsing

\* Blank lines, comments, lines of another form and speakers without text.
SkipLine == ReadLine /\ UNCHANGED <<cues, speakers, casting, autoIdx, parsing>>

Pause(ms) ==
  /\ ReadLine
  /\ AddCue([type |-> "pause", speaker |-> Nobody, ms |-> IF ms < MaxPause THEN ms ELSE MaxPause])
  /\ UNCHANGED <<speakers, casting, autoIdx>>

\* The speaker is counted first, and with one too many the line is no cue.
SpeakerLine(s) ==
  /\ ReadLine
  /\ speakers' = IF s \in Range(speakers) THEN speakers ELSE Append(speakers, s)
  /\ IF Len(speakers') > MaxSpeakers THEN parsing' = "refused" /\ UNCHANGED cues
     ELSE AddCue([type |-> "line", speaker |-> s, ms |-> 0])
  /\ UNCHANGED <<casting, autoIdx>>

EndScript ==
  /\ parsing = "lines"
  /\ parsing' = IF cues = <<>> THEN "refused" ELSE "casting"
  /\ UNCHANGED <<line, cues, speakers, casting, autoIdx>>

-----------------------------------------------------------------------------
Used == {casting[i].voice : i \in DOMAIN casting}

At(idx) == Pool[(idx % Len(Pool)) + 1]

\* Mutant: the next in the pool, used or not.
PickAutoVoice_NextOne == [voice |-> At(autoIdx), next |-> autoIdx + 1]

\* pickAutoVoice: the next one of the pool nobody has, and if all are used the next one.
PickAutoVoice ==
  LET free == {i \in 0..(Len(Pool) - 1) : At(autoIdx + i) \notin Used}
      idx  == autoIdx + CHOOSE i \in free : \A j \in free : i <= j
  IN IF free = {} THEN [voice |-> At(autoIdx), next |-> autoIdx + 1]
     ELSE [voice |-> At(idx), next |-> (idx % Len(Pool)) + 1]

\* The next speaker: the voice of the cast if it has one that is approved, or one of
\* the pool.
CastSpeaker(voice) ==
  /\ parsing = "casting" /\ Len(casting) < Len(speakers)
  /\ casting' = Append(casting, [speaker |-> speakers[Len(casting) + 1],
                                 voice |-> IF voice = NoVoice THEN PickAutoVoice.voice ELSE voice,
                                 auto |-> voice = NoVoice])
  /\ autoIdx' = IF voice = NoVoice THEN PickAutoVoice.next ELSE autoIdx
  /\ UNCHANGED <<line, cues, speakers, parsing>>

Done ==
  /\ parsing = "casting" /\ Len(casting) = Len(speakers)
  /\ parsing' = "done"
  /\ UNCHANGED <<line, cues, speakers, casting, autoIdx>>

DialogueInit ==
  /\ line = 0 /\ cues = <<>> /\ speakers = <<>> /\ casting = <<>> /\ autoIdx = 0
  /\ parsing = "lines"

DialogueNext ==
  \/ SkipLine \/ EndScript \/ Done
  \/ \E ms \in PauseTimes : Pause(ms)
  \/ \E s \in SpeakerNames : SpeakerLine(s)
  \/ \E v \in CastVoices \cup {NoVoice} : CastSpeaker(v)

DialogueSpec == DialogueInit /\ [][DialogueNext]_dialogueVars

-----------------------------------------------------------------------------
\* Type invariant.
DialogueTypeOK ==
  /\ line \in 0..MaxLines
  /\ cues \in Seq([type : {"pause", "line"}, speaker : SpeakerNames \cup {Nobody}, ms : 0..MaxPause])
  /\ speakers \in Seq(SpeakerNames) /\ autoIdx \in Nat
  /\ casting \in Seq([speaker : SpeakerNames, voice : Range(Pool) \cup CastVoices, auto : BOOLEAN])
  /\ parsing \in {"lines", "casting", "done", "refused"}

\* While the pool lasts, a speaker without a voice of its own gets one that no speaker
\* before it has.  A speaker after it may still be given the same one by the caller.
NewVoiceWhileItLasts ==
  \A i \in DOMAIN casting :
    LET before == {casting[j].voice : j \in 1..(i - 1)}
    IN casting[i].auto /\ ~(Range(Pool) \subseteq before) => casting[i].voice \notin before

(***************************************************************************)
(* AmbientEmitter (core/src/ambient/emitter.ts): thoughts are accepted not *)
(* too soon after one another, and the newest are kept until they expire.  *)
(***************************************************************************)
CONSTANTS
  Categories,
  GlobalCooldown, CategoryCooldown, MaxBuffer, Ttl,
  EndTime      \* bound of the clock

VARIABLES
  clock,
  buffer,      \* [category, at]: it expires at at + Ttl
  lastEmit,    \* lastEmitTime
  lastOf,      \* categoryCooldowns
  emitted      \* history: what was accepted since the last clear

ambientVars == <<clock, buffer, lastEmit, lastOf, emitted>>

\* 0, which is long before any time of the clock of the host.
Never == -(GlobalCooldown + CategoryCooldown)

Alive(entries) == SelectSeq(entries, LAMBDA e : e.at + Ttl > clock)

\* The newest n of a sequence.
Newest(s, n) == IF Len(s) > n THEN SubSeq(s, Len(s) - n + 1, Len(s)) ELSE s

-----------------------------------------------------------------------------
\* Mutant: only the category's own cooldown is looked at.
Accepts_OneCooldown(c) == clock - lastOf[c] >= CategoryCooldown

Accepts(c) == clock - lastEmit >= GlobalCooldown /\ clock - lastOf[c] >= CategoryCooldown

\* emitThought of a text that is not empty and not too long, when it is enabled.
EmitThought(c) ==
  /\ Accepts(c)
  /\ LET entry == [category |-> c, at |-> clock]
     IN /\ buffer' = Append(Newest(Alive(buffer), MaxBuffer - 1), entry)
        /\ emitted' = Append(emitted, entry)
  /\ lastEmit' = clock /\ lastOf' = [lastOf EXCEPT ![c] = clock]
  /\ UNCHANGED clock

\* entries and size forget what has expired.
PruneExpired ==
  /\ buffer' = Alive(buffer)
  /\ UNCHANGED <<clock, lastEmit, lastOf, emitted>>

Clear ==
  /\ buffer' = <<>> /\ emitted' = <<>>
  /\ lastEmit' = Never /\ lastOf' = [c \in Categories |-> Never]
  /\ UNCHANGED clock

Tick == clock < EndTime /\ clock' = clock + 1 /\ UNCHANGED <<buffer, lastEmit, lastOf, emitted>>

AmbientInit ==
  /\ clock = 0 /\ buffer = <<>> /\ emitted = <<>>
  /\ lastEmit = Never /\ lastOf = [c \in Categories |-> Never]

AmbientNext == (\E c \in Categories : EmitThought(c)) \/ PruneExpired \/ Clear \/ Tick

AmbientSpec == AmbientInit /\ [][AmbientNext]_ambientVars

-----------------------------------------------------------------------------
\* Type invariant.
AmbientTypeOK ==
  /\ clock \in 0..EndTime /\ lastEmit \in {Never} \cup 0..EndTime
  /\ lastOf \in [Categories -> {Never} \cup 0..EndTime]
  /\ buffer \in Seq([category : Categories, at : 0..EndTime]) /\ Len(buffer) <= MaxBuffer
  /\ emitted \in Seq([category : Categories, at : 0..EndTime])

\* Thoughts keep both distances.
Spaced ==
  \A i, j \in DOMAIN emitted : i < j =>
    /\ emitted[j].at - emitted[i].at >= GlobalCooldown
    /\ emitted[j].category = emitted[i].category =>
         emitted[j].at - emitted[i].at >= CategoryCooldown

\* Thoughts keep both distances, and the buffer shows the newest that have not expired.
SpacedAndNewest == Spaced /\ Alive(buffer) = Newest(Alive(emitted), MaxBuffer)

=============================================================================
