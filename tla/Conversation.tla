---------------------------- MODULE Conversation ----------------------------
(***************************************************************************)
(* Conversations of the Python library (voice_soundboard/conversation):    *)
(* turns and their audio, and the parser of scripts.                       *)
(***************************************************************************)
EXTENDS Naturals, Sequences, SequencesExt, FiniteSets

(***************************************************************************)
(* Conversation (voice_soundboard/conversation/conversation.py): turns are *)
(* added, then synthesised one after the other into one audio and one      *)
(* timeline (turn.py). The caller may go on adding turns between two of    *)
(* the engine's calls: synthesize() iterates the live list.                *)
(***************************************************************************)
CONSTANTS
  Speakers,
  Durations, Pauses,  \* of speech and of pauses, in ms
  Gap,                \* gap_ms
  Action,             \* the pause of an action: 100 ms
  SpeechRate,         \* sample_rate of the engine, in samples per ms
  PauseRate,          \* the 24000 of pauses and actions
  MaxTurns            \* bound: turns of a conversation

VARIABLES
  talkSpeakers,  \* _speakers
  talkTurns,     \* _turns: [kind, speaker, ms]; ms of speech is what the engine will make
  phase,     \* "adding", "synthesizing", "done" or "raised"
  audio,     \* samples so far
  starts,    \* history: the sample at which each turn starts
  durations  \* durations_ms

conversationVars == <<talkSpeakers, talkTurns, phase, audio, starts, durations>>

NoSpeaker == ""

-----------------------------------------------------------------------------
AddSpeaker ==
  /\ phase = "adding"
  /\ \E s \in Speakers \ talkSpeakers : talkSpeakers' = talkSpeakers \cup {s}
  /\ UNCHANGED <<talkTurns, phase, audio, starts, durations>>

AddTurn(kind, s, ms) ==
  /\ Len(talkTurns) < MaxTurns /\ phase \in {"adding", "synthesizing"}
  /\ talkTurns' = Append(talkTurns, [kind |-> kind, speaker |-> s, ms |-> ms])
  /\ UNCHANGED <<talkSpeakers, phase, audio, starts, durations>>

\* add() and add_action() know the speakers; add_pause() needs none.
Add ==
  \/ \E s \in talkSpeakers, ms \in Durations : AddTurn("speech", s, ms)
  \/ \E s \in talkSpeakers : AddTurn("action", s, Action)
  \/ \E ms \in Pauses : AddTurn("pause", NoSpeaker, ms)

Clear ==
  /\ phase = "adding" /\ talkTurns # <<>> /\ talkTurns' = <<>>
  /\ UNCHANGED <<talkSpeakers, phase, audio, starts, durations>>

Begin ==
  /\ phase = "adding" /\ talkTurns # <<>> /\ phase' = "synthesizing"
  /\ UNCHANGED <<talkSpeakers, talkTurns, audio, starts, durations>>

Samples(turn) ==
  IF turn.kind = "speech" THEN (turn.ms + Gap) * SpeechRate ELSE turn.ms * PauseRate

\* Mutant: the gap is only made between two turns.
TurnAudio_NoLastGap(turn) ==
  /\ audio' = audio + IF turn.kind = "speech" /\ Len(durations) + 1 = Len(talkTurns)
                      THEN turn.ms * SpeechRate ELSE Samples(turn)
  /\ durations' = Append(durations, turn.ms)

\* The segments of a turn, a gap after speech; the duration recorded is without it.
TurnAudio(turn) ==
  /\ audio' = audio + Samples(turn)
  /\ durations' = Append(durations, turn.ms)

SynthesizeTurn ==
  /\ phase = "synthesizing" /\ Len(durations) < Len(talkTurns)
  /\ starts' = Append(starts, audio)
  /\ TurnAudio(talkTurns[Len(durations) + 1])
  /\ UNCHANGED <<talkSpeakers, talkTurns, phase>>

\* engine.speak raises, and so does synthesize().
EngineFails ==
  /\ phase = "synthesizing" /\ Len(durations) < Len(talkTurns)
  /\ talkTurns[Len(durations) + 1].kind = "speech"
  /\ phase' = "raised"
  /\ UNCHANGED <<talkSpeakers, talkTurns, audio, starts, durations>>

Finish ==
  /\ phase = "synthesizing" /\ Len(durations) = Len(talkTurns)
  /\ phase' = "done"
  /\ UNCHANGED <<talkSpeakers, talkTurns, audio, starts, durations>>

\* Mutant: every turn is followed by a gap.
Timed_GapAlways(i) ==
  LET turn == talkTurns[i]
      ms   == IF turn.kind = "pause" /\ turn.ms = 0 THEN Gap ELSE durations[i]
  IN ms + Gap

\* compute_timing: the time a turn takes; a pause of 0 ms reads as the default gap.
Timed(i) ==
  LET turn == talkTurns[i]
      ms   == IF turn.kind = "pause" /\ turn.ms = 0 THEN Gap ELSE durations[i]
  IN IF turn.kind = "speech" THEN ms + Gap ELSE ms

\* The start of turn i in the timeline.
StartMs(i) == FoldLeft(LAMBDA sum, j : sum + Timed(j), 0, [k \in 1..(i - 1) |-> k])

TalkInit ==
  /\ talkSpeakers = {} /\ talkTurns = <<>> /\ phase = "adding"
  /\ audio = 0 /\ starts = <<>> /\ durations = <<>>

TalkNext == AddSpeaker \/ Add \/ Clear \/ Begin \/ SynthesizeTurn \/ EngineFails \/ Finish

TalkSpec == TalkInit /\ [][TalkNext]_conversationVars

-----------------------------------------------------------------------------
\* Type invariant.
TalkTypeOK ==
  /\ talkSpeakers \subseteq Speakers
  /\ talkTurns \in Seq([kind : {"speech", "action", "pause"}, speaker : Speakers \cup {NoSpeaker},
                    ms : Durations \cup Pauses \cup {Action}])
  /\ phase \in {"adding", "synthesizing", "done", "raised"}
  /\ audio \in Nat /\ starts \in Seq(Nat) /\ durations \in Seq(Nat)

\* Two computations agree: in the audio each turn starts where the timeline says,
\* for an engine of the rate the pauses are made for.
TimelineMatchesAudio ==
  phase = "done" => /\ Len(starts) = Len(talkTurns)
                    /\ \A i \in DOMAIN starts : starts[i] = StartMs(i) * SpeechRate

(***************************************************************************)
(* Scripts of conversations (conversation/parser.py): lines become turns,  *)
(* and who speaks in them becomes a speaker unless the name is known. A    *)
(* parser keeps its speakers from one script to the next.                  *)
(***************************************************************************)
CONSTANTS
  Names,      \* names as scripts spell them
  Lower,      \* by name, the name in lower case
  Upper,      \* names that the colon form takes: upper-case letters, digits and "_"
  Voices,     \* voices of speakers that are registered
  Normalize,  \* normalize_speakers
  Infer,      \* infer_speakers
  MaxLines    \* bound: lines

VARIABLES
  scriptSpeakers,    \* _speakers: by key, [voice, name]
  registered,  \* history: by key, the voice it was registered with last
  lines,       \* history: the lines with the format they were parsed with
  scriptTurns        \* the turns, of all scripts: [speaker, action]

parserVars == <<scriptSpeakers, registered, lines, scriptTurns>>

\* "NAME: text", "[name] text", or neither; the text is all of an action (*laughs*, (laughs)), has
\* one in it, or has none.
Lines == [form : {"colon", "bracket", "neither"}, name : Names, text : {"action", "with action", "speech"}]
Formats == {"auto", "colon", "bracket"}

\* Mutant: names are looked up as they are written.
Key_AsWritten(name) == name

Key(name) == IF Normalize THEN Lower[name] ELSE name

\* Mutant: every text with an action in it is an action.
IsAction_Search(text) == text \in {"action", "with action"}

\* _is_action(), a full match.
IsAction(text) == text = "action"

\* _parse_line()
Matches(line, format) ==
  /\ line.form # "neither" /\ format \in {"auto", line.form}
  /\ line.form = "colon" => line.name \in Upper

With(f, key, value) == [k \in DOMAIN f \cup {key} |-> IF k = key THEN value ELSE f[k]]

\* Mutant: the default takes the place of who is known.
Known_Never(key) == FALSE

Known(key) == key \in DOMAIN scriptSpeakers

-----------------------------------------------------------------------------
RegisterSpeaker(name, voice) ==
  /\ LET key == IF Normalize THEN Lower[name] ELSE name
     IN  /\ IF key \in DOMAIN registered THEN registered[key] # voice ELSE TRUE
         /\ scriptSpeakers' = With(scriptSpeakers, key, [voice |-> voice, name |-> name])
         /\ registered' = With(registered, key, voice)
  /\ UNCHANGED <<lines, scriptTurns>>

\* A line of parse(): a turn, and the default speaker for a name that is new; or nothing.
ParseLine(line, format) ==
  /\ Len(lines) < MaxLines
  /\ lines' = Append(lines, [line |-> line, format |-> format])
  /\ IF Matches(line, format)
     THEN LET key == Key(line.name)
          IN  /\ scriptSpeakers' = IF Known(key) \/ ~Infer THEN scriptSpeakers
                             ELSE With(scriptSpeakers, key, [voice |-> "af_bella", name |-> line.name])
              /\ scriptTurns' = Append(scriptTurns, [speaker |-> key, action |-> IsAction(line.text)])
     ELSE UNCHANGED <<scriptSpeakers, scriptTurns>>
  /\ UNCHANGED registered

ScriptInit == scriptSpeakers = [k \in {} |-> ""] /\ registered = [k \in {} |-> ""] /\ lines = <<>> /\ scriptTurns = <<>>

ScriptNext ==
  \/ \E name \in Names, voice \in Voices : RegisterSpeaker(name, voice)
  \/ \E line \in Lines, format \in Formats : ParseLine(line, format)

ScriptSpec == ScriptInit /\ [][ScriptNext]_parserVars

-----------------------------------------------------------------------------
\* Type invariant.
ScriptTypeOK ==
  /\ \A k \in DOMAIN scriptSpeakers : scriptSpeakers[k].voice \in Voices \cup {"af_bella"} /\ scriptSpeakers[k].name \in Names
  /\ DOMAIN registered \subseteq DOMAIN scriptSpeakers
  /\ Len(lines) <= MaxLines /\ Len(scriptTurns) <= Len(lines)

\* Whoever speaks is a speaker, who has the voice that was registered last and no other; names
\* that differ only in case speak with one voice (_parse_lines(), register_speaker()).
SpeakersOfTurns ==
  /\ Infer => \A i \in DOMAIN scriptTurns : scriptTurns[i].speaker \in DOMAIN scriptSpeakers
  /\ \A k \in DOMAIN registered : scriptSpeakers[k].voice = registered[k]
  /\ Normalize => DOMAIN scriptSpeakers \subseteq {Lower[n] : n \in Names}

\* Lines become turns in order, each line of a form that is asked for one, and those that are
\* no more than an action an action (parse()).
LinesBecomeTurns ==
  LET said == SelectSeq(lines, LAMBDA l : /\ l.line.form # "neither"
                                          /\ l.format \in {"auto", l.line.form}
                                          /\ l.line.form = "colon" => l.line.name \in Upper)
  IN  /\ Len(scriptTurns) = Len(said)
      /\ \A i \in DOMAIN scriptTurns : /\ scriptTurns[i].action = (said[i].line.text = "action")
                                 /\ Normalize => scriptTurns[i].speaker = Lower[said[i].line.name]

=============================================================================
