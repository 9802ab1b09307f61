--------------------------- MODULE SpeechCompiler ---------------------------
(***************************************************************************)
(* The compiler of the Python library: text to tokens, and a request to a  *)
(* control graph.                                                          *)
(***************************************************************************)
EXTENDS Integers, SequencesExt

(***************************************************************************)
(* How the compiler cuts text into tokens (compiler/text.py). A text is a  *)
(* sequence of symbols: "w" a word, "t" a title (Dr, Mr, Prof), "a"        *)
(* another abbreviation (etc, inc), "9" a number of two digits, "$" an     *)
(* amount of whole dollars, "." a period, "!" another end of a sentence,   *)
(* "," what separates clauses with a pause, "-" what separates them        *)
(* without one, "_" a space. Of words in a row, a space is between any     *)
(* two. Normalising says "T" for a title, "N" for a number, "D" for        *)
(* dollars and "C" for dollars and cents.                                  *)
(***************************************************************************)
Words      == {"w", "t", "a", "9", "$", "T", "N", "D", "C"}
Enders     == {".", "!"}
Separators == {",", "-"}

\* The positions of s that are in a set, in order.
InOrder(s, positions) == SelectSeq([i \in DOMAIN s |-> i], LAMBDA i : i \in positions)

Is(s, i, symbols) == i \in DOMAIN s /\ s[i] \in symbols

\* str.strip()
Trimmed(s) ==
  LET solid == {i \in DOMAIN s : s[i] # "_"}
  IN  IF solid = {} THEN <<>> ELSE SubSeq(s, Min(solid), Max(solid))

\* s cut after each position of cuts; what is left after the last one is the last piece.
CutAfter(s, cuts) ==
  LET ends == InOrder(s, cuts \cup {Len(s)})
  IN  [k \in DOMAIN ends |-> SubSeq(s, IF k = 1 THEN 1 ELSE ends[k - 1] + 1, ends[k])]

Pieces(s, cuts) ==
  LET cut == CutAfter(s, cuts)
  IN  SelectSeq([k \in DOMAIN cut |-> Trimmed(cut[k])], LAMBDA p : p # <<>>)

\* normalize_text(): "$3.50", then the period of a title before a space, then numbers and spaces.
Cents(s, i) == Is(s, i, {"$"}) /\ Is(s, i + 1, {"."}) /\ Is(s, i + 2, {"9"})
Title(s, i) == Is(s, i, {"t"}) /\ Is(s, i + 1, {"."}) /\ Is(s, i + 2, {"_"})

Said(s, i) ==
  CASE s[i] = "$" -> IF Cents(s, i) THEN "C" ELSE "D"
    [] s[i] = "t" -> IF Title(s, i) THEN "T" ELSE "t"
    [] s[i] = "9" -> "N"
    [] OTHER -> s[i]

normalize_text(s) ==
  LET swallowed == {i \in DOMAIN s : \/ Cents(s, i - 1) \/ Cents(s, i - 2) \/ Title(s, i - 1)
                                     \/ s[i] = "_" /\ Is(s, i - 1, {"_"})}
      kept == InOrder(s, DOMAIN s \ swallowed)
  IN  Trimmed([k \in DOMAIN kept |-> Said(s, kept[k])])

\* _split_sentences(): the period of an abbreviation ends none.
SentenceEnds(s) == {i \in DOMAIN s : s[i] = "!" \/ (s[i] = "." /\ ~Is(s, i - 1, {"t", "a"}))}

\* _split_clauses(): separators in a row belong to the clause before them.
ClauseEnds(s) == {i \in DOMAIN s : s[i] \in Separators /\ ~Is(s, i + 1, Separators)}

\* The pause after a clause, in ms.
\* Mutant: the last clause of any sentence is followed by the long pause.
PauseAfter_Always(clause, isLast, sentence) ==
  CASE isLast -> 300 [] clause[Len(clause)] = "," -> 150 [] OTHER -> 0

PauseAfter(clause, isLast, sentence) ==
  CASE isLast /\ sentence[Len(sentence)] \in Enders -> 300
    [] clause[Len(clause)] = "," -> 150
    [] OTHER -> 0

ClauseTokens(sentence) ==
  LET clauses == Pieces(sentence, ClauseEnds(sentence))
  IN  [k \in DOMAIN clauses |->
        [text |-> clauses[k], pause |-> PauseAfter(clauses[k], k = Len(clauses), sentence)]]

tokenize(s, normalize) ==
  LET text == IF normalize THEN normalize_text(s) ELSE s
      sentences == Pieces(text, SentenceEnds(text))
  IN  FlattenSeq([k \in DOMAIN sentences |-> ClauseTokens(sentences[k])])

\* tokenize_streaming() cuts after ends of sentences in a row and the spaces after them.
SafeCuts(s) ==
  {i \in DOMAIN s : /\ ~Is(s, i + 1, {"_"})
                    /\ \E j \in 1..i : /\ s[j] \in Enders /\ ~Is(s, j + 1, Enders)
                                       /\ \A k \in (j + 1)..i : s[k] = "_"}

-----------------------------------------------------------------------------
\* number_to_words() below 1000000: words are 0 to 20, the tens, 100 and 1000.
Below100(n) ==
  IF n = 0 THEN <<>>
  ELSE IF n < 20 THEN <<n>>
  ELSE <<n - (n % 10)>> \o (IF n % 10 = 0 THEN <<>> ELSE <<n % 10>>)

\* Mutant: what is over the hundreds is read as one digit.
Below1000_Digit(n) == IF n < 100 THEN Below100(n) ELSE <<n \div 100, 100>> \o Below100(n % 10)

Below1000(n) == IF n < 100 THEN Below100(n) ELSE <<n \div 100, 100>> \o Below100(n % 100)

number_to_words(n) ==
  IF n = 0 THEN <<0>>
  ELSE (IF n < 1000 THEN <<>> ELSE Below1000(n \div 1000) \o <<1000>>) \o Below1000(n % 1000)

\* The number that such words say.
ValueOf(words) ==
  LET Read(sum, word) ==
        CASE word = 1000 -> [all |-> sum.all + sum.now * 1000, now |-> 0]
          [] word = 100 -> [sum EXCEPT !.now = @ * 100]
          [] OTHER -> [sum EXCEPT !.now = @ + word]
      read == FoldLeft(Read, [all |-> 0, now |-> 0], words)
  IN  read.all + read.now

(***************************************************************************)
(* From a request to a control graph (compiler/compile.py, emotion.py,     *)
(* style.py, voices.py). A speed is its logarithm to the base 2, so that   *)
(* speeds that are multiplied add up; "" is a parameter that is not given. *)
(***************************************************************************)
CONSTANTS
  Emotions,  \* EMOTIONS: by name, [speed, pause (percent), prefer (styles)]; has "neutral"
  Keywords,  \* STYLE_KEYWORDS: by word, [speed, styles, gender]; "" for no gender
  Within,    \* by word of a description, the keywords that it contains
  Voices,    \* VOICES in their order: [id, gender, style]
  Presets,   \* PRESETS: by name, [voice, speed]
  Fallback   \* "af_bella"

NoSpeed == 99  \* speed is None

\* find_voice_by_style(): the first voice of the best score, if any scores. (Accents as genders.)
Score(voice, styles, gender) ==
  (IF gender # "" /\ voice.gender = gender THEN 10 ELSE 0) + (IF voice.style \in styles THEN 3 ELSE 0)

\* Mutant: the last of the best ones.
find_voice_by_style_Last(styles, gender) ==
  LET scores == [k \in DOMAIN Voices |-> Score(Voices[k], styles, gender)]
      best   == Max({scores[k] : k \in DOMAIN scores})
  IN  IF best = 0 THEN "" ELSE Voices[Max({k \in DOMAIN scores : scores[k] = best})].id

find_voice_by_style(styles, gender) ==
  LET scores == [k \in DOMAIN Voices |-> Score(Voices[k], styles, gender)]
      best   == Max({scores[k] : k \in DOMAIN scores})
  IN  IF best = 0 THEN "" ELSE Voices[Min({k \in DOMAIN scores : scores[k] = best})].id

get_emotion(name) == IF name \in DOMAIN Emotions THEN Emotions[name] ELSE Emotions["neutral"]

\* interpret_style(): every keyword that is somewhere in the description counts once, so "slowly"
\* is also "slow". Of two genders the later keyword's wins; here descriptions have at most one.
interpret_style(style) ==
  LET found == IF style = "" THEN {} ELSE Within[style]
  IN  [speed  |-> MapThenSumSet(LAMBDA k : Keywords[k].speed, found),
       styles |-> UNION {Keywords[k].styles : k \in found},
       gender |-> LET of == {k \in found : Keywords[k].gender # ""}
                  IN  IF of = {} THEN "" ELSE Keywords[CHOOSE k \in of : TRUE].gender]

-----------------------------------------------------------------------------
\* Tokens as the compiler makes them; pitch and energy go the way of the duration.
Plain(tokens) == [k \in DOMAIN tokens |-> [text |-> tokens[k].text, pause |-> tokens[k].pause, duration |-> 0]]

apply_emotion(tokens, emotion) ==
  LET profile == get_emotion(emotion)
  IN  [k \in DOMAIN tokens |-> [tokens[k] EXCEPT !.duration = @ - profile.speed,
                                                 !.pause = (@ * profile.pause) \div 100]]

apply_style(tokens, style) ==
  [k \in DOMAIN tokens |-> [tokens[k] EXCEPT !.duration = @ - interpret_style(style).speed]]

\* _resolve_speaker(): explicit, style, preset, emotion, and then the fallback.
\* Mutant: the preset's voice goes before that of the style.
resolve_speaker_PresetFirst(voice, preset, emotion, hint) ==
  LET preferred == IF emotion = "" THEN "" ELSE find_voice_by_style(get_emotion(emotion).prefer, "")
  IN  IF voice # "" THEN voice
      ELSE IF preset \in DOMAIN Presets THEN Presets[preset].voice
      ELSE IF hint # "" THEN hint
      ELSE IF preferred # "" THEN preferred
      ELSE Fallback

resolve_speaker(voice, preset, emotion, hint) ==
  LET preferred == IF emotion = "" THEN "" ELSE find_voice_by_style(get_emotion(emotion).prefer, "")
  IN  IF voice # "" THEN voice
      ELSE IF hint # "" THEN hint
      ELSE IF preset \in DOMAIN Presets THEN Presets[preset].voice
      ELSE IF preferred # "" THEN preferred
      ELSE Fallback

resolve_speed(speed, preset, emotion) ==
  IF speed # NoSpeed THEN speed
  ELSE IF preset \in DOMAIN Presets THEN Presets[preset].speed
  ELSE IF emotion # "" THEN get_emotion(emotion).speed
  ELSE 0

\* compile_request() of r: [voice, preset, emotion, style, speed].
compile_request(text, normalize, r) ==
  LET tokens == Plain(tokenize(text, normalize))
      felt   == IF r.emotion = "" THEN tokens ELSE apply_emotion(tokens, r.emotion)
      styled == IF r.style = "" THEN felt ELSE apply_style(felt, r.style)
      style  == interpret_style(r.style)
  IN  [tokens  |-> styled,
       speaker |-> resolve_speaker(r.voice, r.preset, r.emotion,
                     IF r.style = "" THEN "" ELSE find_voice_by_style(style.styles, style.gender)),
       speed   |-> resolve_speed(r.speed, r.preset, r.emotion)]

\* One graph of compile_stream(): there is no style.
compile_batch(batch, r) ==
  [tokens  |-> IF r.emotion = "" THEN Plain(batch) ELSE apply_emotion(Plain(batch), r.emotion),
   speaker |-> resolve_speaker(r.voice, r.preset, r.emotion, ""),
   speed   |-> resolve_speed(r.speed, r.preset, r.emotion)]

=============================================================================
