----------------------------- MODULE MCBackends -----------------------------
(***************************************************************************)
(* What makes the audio, on small instances for TLC: the two backends of   *)
(* the MCP server, the speech engine of the library, and its compiler of   *)
(* text that comes in chunks. A behaviour of this module is a behaviour of *)
(* one of them, and the others stay in their initial state.                *)
(***************************************************************************)
EXTENDS PythonBackend, Integers

SpeechStyle(speed, styles, gender) == [speed |-> speed, styles |-> styles, gender |-> gender]
VoiceInfo(id, gender, style) == [id |-> id, gender |-> gender, style |-> style]
Profile(speed, pause, prefer) == [speed |-> speed, pause |-> pause, prefer |-> prefer]
Asks(voice, preset, emotion, style, speed) ==
  [voice |-> voice, preset |-> preset, emotion |-> emotion, style |-> style, speed |-> speed]

\* Of the tables of emotions, styles, voices and presets.
SomeEmotions ==
  [neutral |-> Profile(0, 100, {}), sad |-> Profile(-1, 130, {"soft"})]
SomeKeywords ==
  [slow |-> SpeechStyle(-1, {}, ""), slowly |-> SpeechStyle(-1, {}, ""),
   softly |-> SpeechStyle(0, {"soft"}, ""), masculine |-> SpeechStyle(0, {}, "male")]
KeywordsIn == [slowly |-> {"slow", "slowly"}, softly_masculine |-> {"softly", "masculine"}]
SomeVoices ==
  <<VoiceInfo("bella", "female", "warm"), VoiceInfo("nicole", "female", "soft"),
    VoiceInfo("adam", "male", "neutral"), VoiceInfo("lewis", "male", "friendly")>>
SomePresets == [narrator |-> [voice |-> "george", speed |-> -1]]
AsPiper == [bella |-> "en_US", adam |-> "en_GB"]

\* What speak() is asked for; 99 is no speed.
SpeakRequests ==
  {Asks("", "", "", "", 99), Asks("", "", "sad", "", 99), Asks("adam", "", "", "", 1),
   Asks("adam", "", "", "slowly", 1), Asks("", "narrator", "", "softly_masculine", 99)}
StreamRequest == Asks("", "", "sad", "", 99)
SavedAs == [name \in {"out", "out.wav"} |-> "out.wav"]
SomeTexts == {<<"w", ".">>, <<"w", ",", "_", "w", "_", "t", ".", "_", "w">>}
SomeChunks ==
  {<<"w">>, <<"_">>, <<"a", ".">>, <<"t", ".">>, <<"9">>, <<"$", ".">>, <<".", "_">>, <<"!">>,
   <<",", "_">>, <<"w", "-">>}

VARIABLES
  part,  \* the component this behaviour is of
  httpStage, mode, elapsed, declared, httpHeld, from,
  installed, backend, models, loaded, disk, results, streamed,
  fed, buffer, graphs, ended, number

Http == INSTANCE HttpBackend WITH
  TimeLimit <- 2, MaxSize <- 1, Sizes <- {1, 2}, EndTime <- 3, stage <- httpStage,
  held <- httpHeld
VoiceEngine == INSTANCE VoiceEngine WITH
  Emotions <- SomeEmotions, Keywords <- SomeKeywords, Within <- KeywordsIn,
  Voices <- SomeVoices, Presets <- SomePresets, Fallback <- "bella",
  Texts <- SomeTexts, Requests <- SpeakRequests, SaveAs <- {"", "out", "out.wav"},
  FileOf <- SavedAs, PiperVoices <- {"en_US", "en_GB"}, KokoroToPiper <- AsPiper,
  PiperDefault <- "en_US", Packages <- {{}, {"kokoro"}, {"piper"}},
  DefaultVoice <- "lewis", DefaultSpeed <- 0, ChunkSize <- 2, MaxCalls <- 2,
  Chunks <- SomeChunks, Request <- StreamRequest, Numbers <- {0, 15, 999, 12042},
  MaxFed <- 5

httpBackendVars == <<httpStage, mode, elapsed, declared, httpHeld, from>>
voiceEngineVars == <<installed, backend, models, loaded, disk, results, streamed>>
textStreamVars == <<fed, buffer, graphs, ended, number>>
hostVars == <<part, vars, httpBackendVars, voiceEngineVars, textStreamVars>>

Parts == {"python", "http", "engine", "text"}

HostInit ==
  /\ part \in Parts
  /\ Init /\ Http!Init /\ VoiceEngine!EngineInit /\ VoiceEngine!StreamInit
  /\ part # "engine" => installed = {}
  /\ part # "text" => number = 0

HostNext ==
  \/ /\ part = "python" /\ Next
     /\ UNCHANGED <<part, httpBackendVars, voiceEngineVars, textStreamVars>>
  \/ /\ part = "http" /\ Http!Next
     /\ UNCHANGED <<part, vars, voiceEngineVars, textStreamVars>>
  \/ /\ part = "engine" /\ VoiceEngine!EngineNext
     /\ UNCHANGED <<part, vars, httpBackendVars, textStreamVars>>
  \/ /\ part = "text" /\ VoiceEngine!StreamNext
     /\ UNCHANGED <<part, vars, httpBackendVars, voiceEngineVars>>

HostSpec == HostInit /\ [][HostNext]_hostVars
  /\ Fairness
  /\ Http!Fairness

-----------------------------------------------------------------------------
\* Type invariant of every component.
BackendsTyped == TypeOK /\ Http!TypeOK /\ VoiceEngine!EngineTypeOK /\ VoiceEngine!StreamTypeOK

\* What comes out is what was asked for (httpBackend.ts; api.py, compile.py, text.py and the
\* backends of the library): audio that is handed on is of a size that was allowed, unless it
\* was downloaded; a file holds what its call spoke, with the voice and the tempo that were
\* asked for; and text that comes in chunks is said whole, in order, as if it had come at once.
AudioAsAsked ==
  /\ Http!SizeRespected
  /\ VoiceEngine!ResultStands /\ VoiceEngine!VoiceAsAsked /\ VoiceEngine!TempoFollows /\ VoiceEngine!StreamIsWhole
  /\ VoiceEngine!EveryWordOnce /\ VoiceEngine!CutsDoNotMatter /\ VoiceEngine!PauseFollowsMark /\ VoiceEngine!NumberReadBack

\* The timers answer: every call of the bridge is, whatever its process does, and every
\* fetch that a server does not answer.
EveryCallReturns == EveryCallAnswered /\ Http!SilenceEnds
=============================================================================
