---------------------------- MODULE VoiceEngine -----------------------------
(***************************************************************************)
(* The speech engine of the Python library, and its compiler of text that  *)
(* comes in chunks. The two share what they compile with, and no state.    *)
(***************************************************************************)
EXTENDS SpeechCompiler

(***************************************************************************)
(* The speech engine (adapters/api.py, engine/loader.py, engine/backends   *)
(* kokoro.py, piper.py, mock.py, runtime/stream.py): a request is compiled *)
(* to a graph, which the backend lowers to what its model takes, and the   *)
(* audio is written to a file that is named after the voice and the text.  *)
(***************************************************************************)
CONSTANTS
  Texts,           \* texts that are spoken
  Requests,        \* [voice, preset, emotion, style, speed]
  SaveAs,          \* save_as: "" or a name, with ".wav" or without
  FileOf,          \* by such a name, the file it means
  PiperVoices,     \* PIPER_VOICES
  KokoroToPiper,   \* KOKORO_TO_PIPER: by a voice of Kokoro, one of Piper's
  PiperDefault,    \* _default_voice
  Packages,        \* what may be installed: sets of "kokoro" and "piper"
  DefaultVoice,    \* Config.default_voice
  DefaultSpeed,    \* Config.default_speed
  ChunkSize,       \* StreamConfig.chunk_samples
  MaxCalls         \* bound: calls of speak(), after which there is one stream

VARIABLES
  installed, \* the backends whose package is there
  backend,   \* _backend: "" before the first call
  models,    \* model files that are there: "kokoro" or a voice of Piper
  loaded,    \* models that are loaded
  disk,      \* files: by name, the audio
  results,   \* what speak() answered, newest last: [request, text, save, file, audio, voice]
  streamed   \* the last stream: [request, text, audio, chunks], chunks as their lengths; <<>> before it

engineVars == <<installed, backend, models, loaded, disk, results, streamed>>

-----------------------------------------------------------------------------
\* load_backend("auto"): the best backend that is installed.
AutoBackend == CASE "kokoro" \in installed -> "kokoro" [] "piper" \in installed -> "piper" [] OTHER -> "mock"
Backend == IF backend = "" THEN AutoBackend ELSE backend

Clamp(x, low, high) == Max({low, Min({x, high})})

\* KokoroBackend: a pause becomes dots of its own; the tempo of tokens is not looked at.
Dots(pause) == CASE pause > 200 -> "..." [] pause > 100 -> ".." [] OTHER -> ""

\* PiperBackend: the tempo of the graph and the mean of its tokens', which have one tempo.
\* Mutant: the mean is added where it should be taken away.
lower_speed_Added(graph) ==
  Clamp(graph.speed + (IF graph.tokens = <<>> THEN 0 ELSE graph.tokens[1].duration), -2, 2)

lower_speed(graph) ==
  Clamp(graph.speed - (IF graph.tokens = <<>> THEN 0 ELSE graph.tokens[1].duration), -2, 2)

\* A voice of Piper's, or of Kokoro's as Piper has it, or the default. (No names are alike.)
lower_voice(voice) ==
  CASE voice \in PiperVoices -> voice
    [] voice \in DOMAIN KokoroToPiper -> KokoroToPiper[voice]
    [] OTHER -> PiperDefault

\* What a backend makes of a graph.
Audio(b, graph) ==
  LET Text(k) == graph.tokens[k].text
      Pause(k) == graph.tokens[k].pause
  IN  [text   |-> [k \in DOMAIN graph.tokens |-> Text(k)],
       pauses |-> [k \in DOMAIN graph.tokens |->
                    CASE b = "kokoro" -> Dots(Pause(k)) [] b = "piper" -> "" [] OTHER -> "silence"],
       voice  |-> CASE b = "kokoro" -> graph.speaker [] b = "piper" -> lower_voice(graph.speaker) [] OTHER -> "",
       speed  |-> CASE b = "kokoro" -> Clamp(graph.speed, -1, 1)
                    [] b = "piper" -> lower_speed(graph)
                    [] OTHER -> graph.speed]

\* The model that a graph needs; without its file synthesize() raises.
Model(b, graph) == CASE b = "kokoro" -> "kokoro" [] b = "piper" -> lower_voice(graph.speaker) [] OTHER -> "none"
Ready(b, graph) == Model(b, graph) \in loaded \cup models \cup {"none"}

-----------------------------------------------------------------------------
\* speak(): the configured voice and speed when nothing else could give one.
Graph(text, r) ==
  LET voice == IF r.voice = "" /\ r.preset = "" /\ r.emotion = "" /\ r.style = "" THEN DefaultVoice ELSE r.voice
      speed == IF r.speed = NoSpeed /\ r.preset = "" /\ r.emotion = "" THEN DefaultSpeed ELSE r.speed
  IN  compile_request(text, TRUE, [r EXCEPT !.voice = voice, !.speed = speed])

\* _save_audio(): a name that is asked for, or the voice and the hash of the text.
\* Mutant: named after the text alone.
FileName_TextOnly(text, save, voice) == IF save # "" THEN <<FileOf[save]>> ELSE <<"", text>>

FileName(text, save, voice) == IF save # "" THEN <<FileOf[save]>> ELSE <<voice, text>>

Speak(text, r, save) ==
  LET graph == Graph(text, r)
      audio == Audio(Backend, graph)
      file  == FileName(text, save, graph.speaker)
  IN  /\ Len(results) < MaxCalls
      /\ backend' = Backend
      /\ IF Ready(Backend, graph)
         THEN /\ loaded' = loaded \cup {Model(Backend, graph)}
              /\ disk' = [f \in DOMAIN disk \cup {file} |-> IF f = file THEN audio ELSE disk[f]]
              /\ results' = Append(results, [request |-> r, text |-> text, save |-> save, file |-> file,
                                             audio |-> audio, voice |-> graph.speaker])
         ELSE UNCHANGED <<loaded, disk, results>>
      /\ UNCHANGED <<installed, models, streamed>>

\* StreamingSynthesizer.stream(): every backend of the library has synthesize_stream(); Piper's is
\* its model's own, without the speed, in chunks as the model makes them; the others cut what
\* synthesize() returned. Audio is as long as its words.
Length(audio) == FoldSeq(LAMBDA t, n : n + Len(t), 0, audio.text)

\* Mutant: the last chunk is dropped when it is short.
Cut_Whole(n) == [k \in 1..(n \div ChunkSize) |-> ChunkSize]

Cut(n) == [k \in 1..((n + ChunkSize - 1) \div ChunkSize) |-> Min({ChunkSize, n - (k - 1) * ChunkSize})]

Stream(text, r) ==
  LET graph == compile_request(text, TRUE, r)
      audio == Audio(Backend, graph)
  IN  /\ Len(results) = MaxCalls /\ streamed = <<>> /\ Ready(backend, graph)
      /\ loaded' = loaded \cup {Model(backend, graph)}
      /\ streamed' = [audio |-> IF backend = "piper" THEN [audio EXCEPT !.speed = 0] ELSE audio,
                      request |-> r, text |-> text,
                      chunks |-> IF backend = "piper" THEN [k \in DOMAIN audio.text |-> Len(audio.text[k])]
                                 ELSE Cut(Length(audio))]
      /\ UNCHANGED <<installed, backend, models, disk, results>>

\* A model's file is downloaded.
Download(m) ==
  /\ m \notin models /\ models' = models \cup {m}
  /\ UNCHANGED <<installed, backend, loaded, disk, results, streamed>>

EngineInit ==
  /\ installed \in Packages /\ backend = "" /\ models = {} /\ loaded = {}
  /\ disk = [f \in {} |-> <<>>] /\ results = <<>> /\ streamed = <<>>

EngineNext ==
  \/ \E text \in Texts, r \in Requests : \/ Stream(text, r)
                                         \/ \E save \in SaveAs : Speak(text, r, save)
  \/ \E m \in PiperVoices \cup {"kokoro"} : Download(m)

EngineSpec == EngineInit /\ [][EngineNext]_engineVars

-----------------------------------------------------------------------------
\* Type invariant.
EngineTypeOK ==
  /\ installed \in Packages
  /\ backend \in {"", "kokoro", "piper", "mock"} /\ models \subseteq PiperVoices \cup {"kokoro"}
  /\ loaded \subseteq PiperVoices \cup {"kokoro", "none"}
  /\ Len(results) <= MaxCalls /\ \A k \in DOMAIN results : results[k].file \in DOMAIN disk

SameName(a, b) ==
  IF a.save = "" THEN b.save = "" /\ a.voice = b.voice /\ a.text = b.text
  ELSE b.save # "" /\ FileOf[a.save] = FileOf[b.save]

\* The file of a result holds what that call spoke, until a later call is saved under the same
\* name, or speaks the same text with the same voice, however (_save_audio()).
ResultStands ==
  \A k \in DOMAIN results :
    \/ disk[results[k].file] = results[k].audio
    \/ \E j \in (k + 1)..Len(results) : SameName(results[k], results[j])

\* The voice is the one that is named; else the first of those that fit the style best; else
\* the preset's; the configured one only when nothing else is given (compile_request(), speak()).
VoiceAsAsked ==
  \A k \in DOMAIN results :
    LET r == results[k].request
        style == interpret_style(r.style)
        Fits(v) == (IF style.gender # "" /\ v.gender = style.gender THEN 10 ELSE 0)
                   + (IF v.style \in style.styles THEN 3 ELSE 0)
        fit == {v \in DOMAIN Voices : Fits(Voices[v]) > 0}
        best == {v \in fit : \A w \in fit : Fits(Voices[w]) < Fits(Voices[v])
                                            \/ (Fits(Voices[w]) = Fits(Voices[v]) /\ v <= w)}
    IN  CASE r.voice # "" -> results[k].voice = r.voice
          [] r.voice = "" /\ best # {} -> \A v \in best : results[k].voice = Voices[v].id
          [] r.voice = "" /\ best = {} /\ r.preset \in DOMAIN Presets ->
               results[k].voice = Presets[r.preset].voice
          [] OTHER -> {r.preset, r.style, r.emotion} = {""} => results[k].voice = DefaultVoice

\* Of two requests that differ in tempo only, by speed, style or emotion, the faster one is not
\* spoken more slowly, and without style and emotion a speed that the backend can do is the
\* speed it speaks with (compile_request(), lower_speed()).
TempoFollows ==
  /\ \A j, k \in DOMAIN results :
       LET a == results[j].request
           b == results[k].request
       IN  /\ results[j].text = results[k].text
           /\ {a.preset, b.preset} = {""} /\ (a.speed = NoSpeed) = (b.speed = NoSpeed)
           /\ (a.emotion = "") = (b.emotion = "")
           /\ a.speed <= b.speed /\ get_emotion(a.emotion).speed <= get_emotion(b.emotion).speed
           /\ interpret_style(a.style).speed <= interpret_style(b.style).speed
           => results[j].audio.speed <= results[k].audio.speed
  /\ \A k \in DOMAIN results :
       LET r == results[k].request
       IN  r.style = "" /\ r.emotion = "" /\ r.speed \in -1..1 => results[k].audio.speed = r.speed

\* A stream has all of the audio, in chunks that are full but for the last one, or as Piper's
\* model makes them; and it says what speak() says for the same request (stream.py).
StreamIsWhole ==
  streamed # <<>> =>
    LET n == Len(streamed.chunks)
    IN  /\ FoldSeq(LAMBDA c, sum : c + sum, 0, streamed.chunks) = Length(streamed.audio)
        /\ backend # "piper" => \A k \in 1..n : streamed.chunks[k] = ChunkSize
                                                \/ (k = n /\ streamed.chunks[k] \in 1..ChunkSize)
        /\ \A k \in DOMAIN results :
             results[k].text = streamed.text /\ results[k].request = streamed.request
             => results[k].audio.text = streamed.audio.text

(***************************************************************************)
(* Compilation of text that comes in chunks (compile_stream() of           *)
(* compiler/compile.py over tokenize_streaming() of compiler/text.py): a   *)
(* batch of tokens is compiled as soon as a sentence seems to end.         *)
(***************************************************************************)
CONSTANTS
  Chunks,   \* pieces of text
  Request,  \* [voice, preset, emotion, speed]
  Numbers,  \* numbers that are read
  MaxFed    \* bound: symbols

VARIABLES
  fed,     \* history: the text so far
  buffer,  \* what no sentence end was seen in
  graphs,  \* the graphs, in order
  ended,
  number   \* the number that is read

textVars == <<fed, buffer, graphs, ended, number>>

\* A space or a mark is between any two words.
Readable(s) ==
  \A i \in DOMAIN s : /\ s[i] \in Words => ~Is(s, i + 1, Words)
                      /\ s[i] = "_" => ~Is(s, i + 1, {"_"})

Compiled(pieces) ==
  LET batches == SelectSeq([k \in DOMAIN pieces |-> tokenize(pieces[k], TRUE)], LAMBDA b : b # <<>>)
  IN  [k \in DOMAIN batches |-> compile_batch(batches[k], Request)]

Feed(chunk) ==
  /\ ~ended /\ Len(fed) + Len(chunk) <= MaxFed /\ Readable(fed \o chunk)
  /\ fed' = fed \o chunk
  /\ LET text   == buffer \o chunk
         pieces == CutAfter(text, SafeCuts(text))
         whole  == SafeCuts(text) # {} /\ Max(SafeCuts(text)) = Len(text)
     IN  /\ graphs' = graphs \o Compiled(IF whole THEN pieces ELSE SubSeq(pieces, 1, Len(pieces) - 1))
         /\ buffer' = IF whole THEN <<>> ELSE pieces[Len(pieces)]
  /\ UNCHANGED <<ended, number>>

\* The text ends.
\* Mutant: what is in the buffer is dropped.
Finish_Drop ==
  /\ ~ended /\ ended' = TRUE /\ buffer' = <<>>
  /\ UNCHANGED <<fed, graphs, number>>

Finish ==
  /\ ~ended /\ ended' = TRUE
  /\ graphs' = graphs \o Compiled(<<Trimmed(buffer)>>) /\ buffer' = <<>>
  /\ UNCHANGED <<fed, number>>

StreamInit == fed = <<>> /\ buffer = <<>> /\ graphs = <<>> /\ ended = FALSE /\ number \in Numbers

StreamNext == (\E chunk \in Chunks : Feed(chunk)) \/ Finish

StreamSpec == StreamInit /\ [][StreamNext]_textVars

-----------------------------------------------------------------------------
\* Type invariant.
StreamTypeOK ==
  /\ Len(fed) <= MaxFed /\ Len(buffer) <= Len(fed) /\ ended \in BOOLEAN /\ number \in Numbers
  /\ \A k \in DOMAIN graphs : graphs[k].tokens # <<>>

\* The words of a text as they are spoken, whatever normalising made of them.
SpokenWords(s) ==
  FlattenSeq([i \in DOMAIN s |->
    CASE s[i] \in {"$", "D"} -> <<"$">> [] s[i] = "C" -> <<"$", "9">> [] s[i] \in {"9", "N"} -> <<"9">>
      [] s[i] \in {"t", "T"} -> <<"t">> [] s[i] \in {"w", "a"} -> <<s[i]>> [] OTHER -> <<>>])

AllTokens == FlattenSeq([k \in DOMAIN graphs |-> graphs[k].tokens])
AllText == FlattenSeq([k \in DOMAIN AllTokens |-> AllTokens[k].text])

\* A period that ends no sentence: of an abbreviation, or in an amount.
InnerPeriod(s) == \E i \in DOMAIN s : (Is(s, i, {"t", "a"}) /\ Is(s, i + 1, {"."})) \/ Cents(s, i)

\* Every word that was fed is in one graph or waits in the buffer, once and in order
\* (tokenize_streaming()).
EveryWordOnce == SpokenWords(AllText) \o SpokenWords(buffer) = SpokenWords(fed)

\* However the text was cut into chunks, the graphs have the tokens that the whole text would
\* have had, unless a period in it ends no sentence (compile_stream() beside compile_request()).
CutsDoNotMatter ==
  ended /\ ~InnerPeriod(fed) =>
    AllTokens = compile_request(fed, TRUE, [style |-> ""] @@ Request).tokens

\* A pause follows what a mark of a pause ends, the long one what ends a sentence, as the
\* emotion stretches them (tokenize(), apply_emotion()).
PauseFollowsMark ==
  \A k \in DOMAIN AllTokens :
    LET last == AllTokens[k].text[Len(AllTokens[k].text)]
        full == CASE last \in Enders -> 300 [] last = "," -> 150 [] OTHER -> 0
    IN  AllTokens[k].pause = (full * get_emotion(Request.emotion).pause) \div 100

\* A number is read as the words that say it (number_to_words()).
NumberReadBack == ValueOf(number_to_words(number)) = number

=============================================================================
