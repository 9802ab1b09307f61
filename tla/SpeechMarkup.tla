---------------------------- MODULE SpeechMarkup ----------------------------
(***************************************************************************)
(* The markup that the TypeScript core reads: SSML-lite, emotion spans and *)
(* sound effects.                                                          *)
(***************************************************************************)
EXTENDS Integers, Sequences, SequencesExt

(***************************************************************************)
(* parseSsmlLite (core/src/ssml/parser.ts): the loop over the tags of the  *)
(* input, which is chosen piece by piece as it is read. A speech plan is a *)
(* sequence of texts and of events that open and close; when there is too  *)
(* much of anything the plan is the text alone.                            *)
(***************************************************************************)
CONSTANTS
  MaxNodes,   \* SSML_LIMITS.maxNodes
  MaxChars,   \* SSML_LIMITS.maxTotalChars
  MaxBreak,   \* SSML_LIMITS.maxBreakMs
  Breaks,     \* the times written in the input, in ms
  SsmlMaxInput    \* bound: pieces of the input

VARIABLES
  read,      \* history: the number of pieces read
  segments,  \* the plan so far: [type, value]
  nodes,     \* nodeCount
  chars,     \* totalChars
  open,      \* openStack
  spoken,    \* history: the texts of the input, and the aliases, as they should be heard
  raw,       \* history: the texts of the input, without aliases
  phase      \* "parsing", "plan" or "fallback"

ssmlVars == <<read, segments, nodes, chars, open, spoken, raw, phase>>

Spans == {"prosody", "emphasis"}
EndOf == [s \in Spans |-> s \o "_end"]
NaN == -1
Default == 250

Segment(type, value) == [type |-> type, value |-> value]

-----------------------------------------------------------------------------
\* addText: text next to text joins it; the value of a text is the pieces in it.
WithText(segs, piece) ==
  IF segs # <<>> /\ Last(segs).type = "text"
  THEN [segs EXCEPT ![Len(segs)].value = Append(@, piece)]
  ELSE Append(segs, Segment("text", <<piece>>))

\* No plan: one text of the whole input, without its tags and without aliases.
Fallback ==
  /\ phase' = "fallback"
  /\ segments' = IF raw' = <<>> THEN <<>> ELSE <<Segment("text", raw')>>
  /\ UNCHANGED <<nodes, chars, open, spoken>>

\* What the loop has not reached when it gives up.
Rest ==
  /\ phase = "fallback" /\ read < SsmlMaxInput /\ read' = read + 1
  /\ raw' = Append(raw, read)
  /\ segments' = WithText(segments, read)
  /\ UNCHANGED <<nodes, chars, open, spoken, phase>>

\* Input without any of the tags is the plan as it is.
Plain ==
  /\ read = 0 /\ phase = "parsing" /\ phase' = "plan"
  /\ read' = 1 /\ raw' = <<0>> /\ spoken' = <<0>>
  /\ segments' = <<Segment("text", <<0>>)>>
  /\ UNCHANGED <<nodes, chars, open>>

More == phase = "parsing" /\ read < SsmlMaxInput /\ read' = read + 1

AddText(piece) ==
  IF chars = MaxChars THEN Fallback
  ELSE /\ chars' = chars + 1
       /\ segments' = WithText(segments, piece)
       /\ spoken' = Append(spoken, piece)
       /\ UNCHANGED <<nodes, open, phase>>

\* Text between tags, numbered by its place in the input; blank text leaves no trace.
Text == More /\ raw' = Append(raw, read) /\ AddText(read)

\* A tag is counted before it is looked at; too many tags and there is no plan.
Tag(effect) ==
  IF nodes = MaxNodes THEN UNCHANGED raw /\ Fallback
  ELSE nodes' = nodes + 1 /\ effect

Event(type, value) == segments' = Append(segments, Segment(type, value))

\* parseBreakTime: the time capped, the time of a strength, or the default.  A time
\* that is a unit without a number is not a number, and min and max keep it so.
BreakMs(written) == IF written = NaN \/ written < MaxBreak THEN written ELSE MaxBreak

Break ==
  /\ More
  /\ \E ms \in Breaks \cup {Default, NaN} :
       Tag(/\ Event("break", <<BreakMs(ms)>>)
           /\ UNCHANGED <<chars, open, spoken, raw, phase>>)

\* <prosody> with a rate and <emphasis> open; <prosody> without a rate leaves no trace.
Open(span) ==
  /\ More
  /\ \E rated \in IF span = "prosody" THEN BOOLEAN ELSE {TRUE} :
       Tag(/\ IF rated THEN Event(span, <<>>) /\ open' = Append(open, span)
              ELSE UNCHANGED <<segments, open>>
           /\ UNCHANGED <<chars, spoken, raw, phase>>)

\* Mutant: a close tag is an end whatever is open.
Close_Unmatched(span) ==
  /\ More
  /\ Tag(/\ Event(EndOf[span], <<>>)
         /\ open' = IF span \in Range(open) THEN RemoveAt(open, SelectLastInSeq(open, LAMBDA s : s = span)) ELSE open
         /\ UNCHANGED <<chars, spoken, raw, phase>>)

\* A close tag ends the last span of its kind, under whatever was opened since.
Close(span) ==
  /\ More
  /\ Tag(/\ LET last == SelectLastInSeq(open, LAMBDA s : s = span)
            IN IF last = 0 THEN UNCHANGED <<segments, open>>
               ELSE open' = RemoveAt(open, last) /\ Event(EndOf[span], <<>>)
         /\ UNCHANGED <<chars, spoken, raw, phase>>)

\* <sub alias="..">..</sub>: the alias is spoken and what is between is skipped.
Sub ==
  /\ More
  /\ raw' = Append(raw, read)
  /\ IF nodes = MaxNodes \/ chars = MaxChars THEN Fallback
     ELSE /\ nodes' = nodes + 1 /\ chars' = chars + 1
          /\ segments' = WithText(segments, read)
          /\ spoken' = Append(spoken, read)
          /\ UNCHANGED <<open, phase>>

\* Tags that leave no trace: unknown ones, <speak>, <say-as>, <sub> without an alias
\* or without its end, and close tags of these.
Strip == More /\ Tag(UNCHANGED <<segments, chars, open, spoken, raw, phase>>)

\* Mutant: the spans left open stay open.
Finish_NoClose ==
  /\ phase = "parsing" /\ phase' = "plan" /\ open' = <<>>
  /\ UNCHANGED <<segments, read, nodes, chars, spoken, raw>>

\* The end: what is still open is closed, the last first.
Finish ==
  /\ phase = "parsing" /\ phase' = "plan" /\ open' = <<>>
  /\ segments' = segments \o [i \in 1..Len(open) |-> Segment(EndOf[Reverse(open)[i]], <<>>)]
  /\ UNCHANGED <<read, nodes, chars, spoken, raw>>

SsmlInit ==
  /\ read = 0 /\ segments = <<>> /\ nodes = 0 /\ chars = 0 /\ open = <<>>
  /\ spoken = <<>> /\ raw = <<>> /\ phase = "parsing"

SsmlNext == Text \/ Rest \/ Plain \/ Break \/ Sub \/ Strip \/ Finish \/ \E s \in Spans : Open(s) \/ Close(s)

SsmlSpec == SsmlInit /\ [][SsmlNext]_ssmlVars

-----------------------------------------------------------------------------
\* Type invariant.
SsmlTypeOK ==
  /\ read \in 0..SsmlMaxInput /\ nodes \in 0..MaxNodes /\ chars \in 0..MaxChars
  /\ open \in Seq(Spans) /\ phase \in {"parsing", "plan", "fallback"}
  /\ spoken \in Seq(Nat) /\ raw \in Seq(Nat)
  /\ \A i \in DOMAIN segments :
       segments[i] \in [type : {"text", "break"} \cup Spans \cup {EndOf[s] : s \in Spans},
                        value : Seq(Int)]

Times(type, segs) == Len(SelectSeq(segs, LAMBDA s : s.type = type))

\* However the tags overlap, no span ends before it begins, and a plan leaves none open.
Balanced ==
  \A s \in Spans :
    /\ \A i \in DOMAIN segments :
         Times(EndOf[s], SubSeq(segments, 1, i)) <= Times(s, SubSeq(segments, 1, i))
    /\ phase = "plan" => Times(EndOf[s], segments) = Times(s, segments)

\* The plan says every text and alias once, in their order.
SaysEverything ==
  LET texts == SelectSeq(segments, LAMBDA s : s.type = "text")
  IN phase = "plan" => FlattenSeq([i \in DOMAIN texts |-> texts[i].value]) = spoken

(***************************************************************************)
(* The two inline notations of core: {emotion}..{/emotion} spans           *)
(* (emotion/parser.ts), read here from left to right as the input is       *)
(* chosen, and [effect] tags (sfx/parser.ts), whose functions share one    *)
(* regular expression that remembers where its last search ended.          *)
(***************************************************************************)
CONSTANTS
  Names,      \* what emotion tags are named
  Known,      \* EMOTION_NAMES, a part of Names
  TagsMaxInput,   \* bound: pieces of an emotion text
  Texts,      \* texts with effects: sequences of "word", "effect" and "unknown"
  MaxCalls    \* bound: calls of the effect functions

VARIABLES
  piece,      \* history: the number of pieces read
  words,      \* history: those of them that are text
  opened,     \* the name of the first open tag since the last span, or ""
  held,       \* what was read since lastIndex; an open tag is its first piece
  spans,      \* the spans: [emotion, pieces]
  parsed,     \* the emotion text has ended
  lastIndex,  \* of SFX_TAG_RE, in pieces
  sfxCalls    \* history: the number of calls

emotionVars == <<piece, words, opened, held, spans, parsed>>
sfxVars == <<lastIndex, sfxCalls>>
inlineVars == <<piece, words, opened, held, spans, parsed, lastIndex, sfxCalls>>

None == ""
Neutral == "neutral"

-----------------------------------------------------------------------------
\* A span of what is not blank.
WithSpan(emotion, pieces) ==
  IF pieces = <<>> THEN spans ELSE Append(spans, [emotion |-> emotion, pieces |-> pieces])

Read == ~parsed /\ piece < TagsMaxInput /\ piece' = piece + 1

\* Text; blank text counts only between other pieces and is left out.
Word ==
  /\ Read /\ held' = Append(held, piece) /\ words' = words \cup {piece}
  /\ UNCHANGED <<opened, spans, parsed, sfxVars>>

\* The first open tag begins a match; up to the close tag others are text in it.
\* What is before it is neutral.
OpenTag(name) ==
  /\ Read
  /\ IF opened = None
     THEN opened' = name /\ spans' = WithSpan(Neutral, held) /\ held' = <<piece>>
     ELSE held' = Append(held, piece) /\ UNCHANGED <<opened, spans>>
  /\ UNCHANGED <<words, parsed, sfxVars>>

\* Mutant: a mismatched pair is dropped with its text.
CloseTag_DropsMismatch(name) ==
  /\ Read
  /\ IF opened = None THEN held' = Append(held, piece) /\ UNCHANGED <<opened, spans>>
     ELSE /\ spans' = IF name = opened THEN WithSpan(name, Tail(held)) ELSE spans
          /\ held' = <<>> /\ opened' = None
  /\ UNCHANGED <<words, parsed, sfxVars>>

\* The first close tag after it ends the match.  Tags of one name make a span, of the
\* emotion or neutral when it is unknown; tags of two names are text themselves.
CloseTag(name) ==
  /\ Read
  /\ IF opened = None THEN held' = Append(held, piece) /\ UNCHANGED <<opened, spans>>
     ELSE /\ spans' = IF name = opened
                      THEN WithSpan(IF name \in Known THEN name ELSE Neutral, Tail(held))
                      ELSE WithSpan(Neutral, Append(held, piece))
          /\ held' = <<>> /\ opened' = None
  /\ UNCHANGED <<words, parsed, sfxVars>>

\* The tail is neutral, with an open tag that was never closed.
EndText ==
  /\ ~parsed /\ parsed' = TRUE
  /\ spans' = WithSpan(Neutral, held) /\ held' = <<>> /\ opened' = None
  /\ UNCHANGED <<piece, words, sfxVars>>

-----------------------------------------------------------------------------
IsTag(p) == p \in {"effect", "unknown"}

\* RegExp.test of a global expression: the search begins at lastIndex, which becomes
\* the end of the match, or 0 when there is none.
Match(text, from) ==
  LET ends == {i \in DOMAIN text : i > from /\ IsTag(text[i])}
  IN IF ends = {} THEN 0 ELSE CHOOSE i \in ends : \A j \in ends : i <= j

Call == sfxCalls < MaxCalls /\ sfxCalls' = sfxCalls + 1 /\ UNCHANGED emotionVars

\* The answer is whether there is a match: no when the tags are before lastIndex.
HasSfxTags(text) == Call /\ lastIndex' = Match(text, lastIndex)

\* parseSfxTags: disabled it leaves lastIndex where its own test ended.
ParseDisabled(text) == Call /\ lastIndex' = Match(text, 0)
ParseEnabled(text) == Call /\ lastIndex' = 0

TagsInit ==
  /\ piece = 0 /\ words = {} /\ opened = None /\ held = <<>> /\ spans = <<>> /\ parsed = FALSE
  /\ lastIndex = 0 /\ sfxCalls = 0

TagsNext ==
  \/ Word \/ EndText \/ \E n \in Names : OpenTag(n) \/ CloseTag(n)
  \/ \E t \in Texts : HasSfxTags(t) \/ ParseDisabled(t) \/ ParseEnabled(t)

TagsSpec == TagsInit /\ [][TagsNext]_inlineVars

-----------------------------------------------------------------------------
\* Type invariant.
TagsTypeOK ==
  /\ piece \in 0..TagsMaxInput /\ words \subseteq 0..TagsMaxInput /\ opened \in Names \cup {None} /\ held \in Seq(Nat) /\ parsed \in BOOLEAN
  /\ \A i \in DOMAIN spans : spans[i] \in [emotion : Known \cup {Neutral}, pieces : Seq(Nat)]
  /\ lastIndex \in Nat /\ sfxCalls \in 0..MaxCalls

\* However the tags are paired, the spans say every text once and in order, and only
\* tags are left out.
NothingLost ==
  LET said == FlattenSeq([i \in DOMAIN spans |-> spans[i].pieces])
  IN /\ \A i, j \in DOMAIN said : i < j => said[i] < said[j]
     /\ parsed => words \subseteq Range(said)

=============================================================================
