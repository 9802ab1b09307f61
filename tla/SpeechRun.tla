----------------------------- MODULE SpeechRun ------------------------------
(***************************************************************************)
(* From the text of a tool call to its audio, in the TypeScript server and *)
(* core: the chunker, and a run of the call.                               *)
(***************************************************************************)
EXTENDS Integers, Sequences, SequencesExt, FiniteSets

(***************************************************************************)
(* chunkText (core/src/chunking/chunker.ts) over texts whose words have a  *)
(* size and a stop after them: nothing, a clause, a sentence or a          *)
(* paragraph. Between two words is one character, after a paragraph two.   *)
(***************************************************************************)
CONSTANTS MaxChunk, MinChunk, MaxTotal, MaxChunks  \* CHUNK_LIMITS

Gap(word) == IF word.stop = "paragraph" THEN 2 ELSE 1

\* The length of a text in characters.
Chars(text) ==
  LET upTo[i \in 0..Len(text)] ==
        IF i = 0 THEN 0
        ELSE upTo[i - 1] + text[i].size + IF i < Len(text) THEN Gap(text[i]) ELSE 0
  IN upTo[Len(text)]

\* The text after the words that end a piece is a piece of its own.
SplitAfter(text, stops) ==
  LET ends   == {j \in DOMAIN text : j = Len(text) \/ text[j].stop \in stops}
      end(i) == CHOOSE j \in ends : j >= i /\ \A k \in ends : k >= i => j <= k
      pieces[i \in 1..(Len(text) + 1)] ==
        IF i > Len(text) THEN <<>> ELSE <<SubSeq(text, i, end(i))>> \o pieces[end(i) + 1]
  IN pieces[1]

\* A word cut after n characters.
CutWord(word, n) ==
  << [word EXCEPT !.size = n, !.stop = "none"], [word EXCEPT !.size = @ - n] >>

\* hardSplit, one round: what fits, split at a space, or inside the first word.
\* Whatever the paragraphs were, in a piece there are only spaces.
Fits(text) == {k \in 1..(Len(text) - 1) : Chars(SubSeq(text, 1, k)) <= MaxChunk}

HardStep(text) ==
  LET fit == Fits(text)
      k   == CHOOSE i \in fit : \A j \in fit : j <= i
      cut == CutWord(text[1], MaxChunk)
  IN IF fit # {} THEN [piece |-> SubSeq(text, 1, k), rest |-> SubSeq(text, k + 1, Len(text))]
     ELSE [piece |-> <<cut[1]>>, rest |-> <<cut[2]>> \o Tail(text)]

\* Every round takes a character at least.
HardSplit(text) ==
  LET rounds[n \in 0..Chars(text)] ==
        IF n = 0 THEN [pieces |-> <<>>, rest |-> text]
        ELSE LET before == rounds[n - 1]
                 step   == HardStep(before.rest)
             IN IF Chars(before.rest) <= MaxChunk THEN before
                ELSE [pieces |-> Append(before.pieces, step.piece), rest |-> step.rest]
      last == rounds[Chars(text)]
  IN Append(last.pieces, last.rest)

\* refineSplits: pieces that are too long are split by the next, finer rule.
Refine(pieces, Split(_)) ==
  FlattenSeq([i \in DOMAIN pieces |->
                IF Chars(pieces[i]) <= MaxChunk THEN <<pieces[i]>> ELSE Split(pieces[i])])

\* Mutant: the space between the two is forgotten.
Merge_NoSpace(pieces) ==
  LET merged[i \in 0..Len(pieces)] ==
        IF i = 0 THEN <<>>
        ELSE LET out  == merged[i - 1]
                 prev == Last(out)
             IN IF out # <<>> /\ Chars(pieces[i]) < MinChunk
                   /\ Chars(prev) + Chars(pieces[i]) <= MaxChunk
                THEN Front(out) \o <<[prev EXCEPT ![Len(prev)].stop = "none"] \o pieces[i]>>
                ELSE Append(out, pieces[i])
  IN merged[Len(pieces)]

\* mergeTiny: a small piece joins the one before it when both fit, with a space.
Merge(pieces) ==
  LET merged[i \in 0..Len(pieces)] ==
        IF i = 0 THEN <<>>
        ELSE LET out  == merged[i - 1]
                 prev == Last(out)
             IN IF out # <<>> /\ Chars(pieces[i]) < MinChunk
                   /\ Chars(prev) + Chars(pieces[i]) + 1 <= MaxChunk
                THEN Front(out) \o <<[prev EXCEPT ![Len(prev)].stop = "none"] \o pieces[i]>>
                ELSE Append(out, pieces[i])
  IN merged[Len(pieces)]

\* truncateAtBoundary: at the last sentence in the second half of the limit, else at
\* the last word there, else inside a word.  A paragraph's end is not a space.
Truncate(text) ==
  LET end(i)      == Chars(SubSeq(text, 1, i))
      spaces      == {i \in 1..(Len(text) - 1) : text[i].stop # "paragraph" /\ end(i) < MaxTotal}
      sentences   == {i \in spaces : text[i].stop = "sentence" /\ 2 * (end(i) - 1) > MaxTotal}
      wordEnds    == {i \in spaces : 2 * end(i) > MaxTotal}
      last(s)     == CHOOSE i \in s : \A j \in s : j <= i
      whole       == {i \in 0..Len(text) : end(i) <= MaxTotal}
      room        == MaxTotal - end(last(whole)) - IF last(whole) = 0 THEN 0 ELSE Gap(text[last(whole)])
      hard        == SubSeq(text, 1, last(whole))
                     \o IF room > 0 THEN <<CutWord(text[last(whole) + 1], room)[1]>> ELSE <<>>
  IN CASE sentences # {}                   -> SubSeq(text, 1, last(sentences))
       [] sentences = {} /\ wordEnds # {}  -> SubSeq(text, 1, last(wordEnds))
       [] OTHER                            -> hard

\* The limit in all, the cascade of splits, the merge, and the limit of chunks.
Chunked(text) ==
  LET input  == IF Chars(text) > MaxTotal THEN Truncate(text) ELSE text
      split  == Refine(Refine(Refine(SplitAfter(input, {"paragraph"}),
                                     LAMBDA t : SplitAfter(t, {"sentence"})),
                              LAMBDA t : SplitAfter(t, {"clause"})),
                       HardSplit)
      merged == Merge(split)
      chunks == IF Chars(input) <= MaxChunk THEN <<input>> ELSE merged
  IN IF text = <<>> THEN [chunks |-> <<>>, truncated |-> FALSE]
     ELSE [chunks    |-> SubSeq(chunks, 1, IF Len(chunks) < MaxChunks THEN Len(chunks) ELSE MaxChunks),
           truncated |-> Chars(text) > MaxTotal \/ Len(chunks) > MaxChunks]

(***************************************************************************)
(* One voice_speak or voice_dialogue call (mcp-server/src/tools): its cues *)
(* are synthesised one after the other, a plain one with one call of the   *)
(* backend, one with emotion spans through the orchestrator                *)
(* (core/src/orchestrator), which chunks every span, makes an artifact of  *)
(* each chunk and concatenates them. Meanwhile the retention timer may     *)
(* delete old files and the caller may abort.                              *)
(***************************************************************************)
CONSTANTS
  Cues,       \* inputs: sequences of cues [kind, texts]
  Abortable   \* the caller gives an AbortSignal

VARIABLES
  cues,      \* the cues of the call
  at,        \* where the call is: [cue, span, chunk]
  chunks,    \* how many chunks each span of the cue has
  artifacts, \* of the cue: [of, file], its place, and whether its audio can be read
  lines,     \* results of the cues: [kind, audio, ms, lost], lost a history
  aborted,   \* signal.aborted
  phase      \* "start", "running", "answered" or "failed"

runVars == <<cues, at, chunks, artifacts, lines, aborted, phase>>

Cue == cues[at.cue]

\* runEmotionPlan chunks every span; cue k of some cues, if there is one.
ChunksOf(cs, k) ==
  IF k > Len(cs) THEN <<>> ELSE [i \in DOMAIN cs[k].texts |-> Len(Chunked(cs[k].texts[i]).chunks)]

\* The places of the cue's chunks, in order.
Plan == FlattenSeq([i \in DOMAIN chunks |-> [j \in 1..chunks[i] |-> <<i, j>>]])

-----------------------------------------------------------------------------
\* The backend is not ready, or the output directory is refused.
Refuse == phase = "start" /\ phase' = "failed" /\ UNCHANGED <<cues, at, chunks, artifacts, lines, aborted>>

Start ==
  /\ phase = "start" /\ phase' = "running"
  /\ cues' \in Cues /\ chunks' = ChunksOf(cues', 1)
  /\ UNCHANGED <<at, artifacts, lines, aborted>>

Running(kinds) == phase = "running" /\ at.cue <= Len(cues) /\ Cue.kind \in kinds

NextCue(audio, ms, lost) ==
  /\ lines' = Append(lines, [kind |-> Cue.kind, audio |-> audio, ms |-> ms, lost |-> lost])
  /\ artifacts' = <<>>
  /\ at' = [cue |-> at.cue + 1, span |-> 1, chunk |-> 1]
  /\ chunks' = ChunksOf(cues, at.cue + 1)
  /\ UNCHANGED <<cues, aborted, phase>>

Pause == Running({"pause"}) /\ NextCue({}, 1, {})

\* One call for a plain line.
Plain == Running({"plain"}) /\ NextCue({<<1, 1>>}, 1, {})

\* The backend throws, or buildSynthesisRequest refuses the text: the call fails,
\* whatever it made before.
Throw ==
  /\ Running({"plain", "emotion"}) /\ phase' = "failed"
  /\ UNCHANGED <<cues, at, chunks, artifacts, lines, aborted>>

\* The signal is looked at before each call of the backend, and only then.
Ended == at.span > Len(chunks)
Interrupted == aborted /\ ~Ended

\* Mutant: the counter of chunks goes on in the next span.
After_KeepsChunk == IF at.chunk < chunks[at.span] THEN [at EXCEPT !.chunk = @ + 1]
                    ELSE [at EXCEPT !.span = @ + 1]

\* The place after this one: the next chunk of the span, or the next span's first.
After == IF at.chunk < chunks[at.span] THEN [at EXCEPT !.chunk = @ + 1]
         ELSE [at EXCEPT !.span = @ + 1, !.chunk = 1]

\* Past the last chunk of a span there is none.
Synthesize ==
  /\ Running({"emotion"}) /\ ~Ended /\ ~aborted
  /\ artifacts' = IF at.chunk > chunks[at.span] THEN artifacts
                  ELSE Append(artifacts, [of |-> <<at.span, at.chunk>>, file |-> TRUE])
  /\ at' = After
  /\ UNCHANGED <<cues, chunks, lines, aborted, phase>>

\* The caller aborts while the backend works.
Abort ==
  /\ Abortable /\ ~aborted /\ Running({"emotion"}) /\ aborted' = TRUE
  /\ UNCHANGED <<cues, at, chunks, artifacts, lines, phase>>

\* A file cannot be read: cleanupOutputRoot deleted it, it is on another host, or it is
\* no WAV file.
Lose(i) ==
  /\ artifacts[i].file
  /\ artifacts' = [artifacts EXCEPT ![i].file = FALSE]
  /\ UNCHANGED <<cues, at, chunks, lines, aborted, phase>>

Places(readable) == {artifacts[i].of : i \in {j \in DOMAIN artifacts : artifacts[j].file \in readable}}

\* Mutant: one file that cannot be read and there is no concatenation.
Concat_NoneLost == Len(artifacts) > 1 /\ ~Interrupted /\ Places({FALSE}) = {}

\* A run of several artifacts is concatenated, unless it was interrupted; that fails
\* when none can be read.
Concat == Len(artifacts) > 1 /\ ~Interrupted /\ Places({TRUE}) # {}

\* The answer: the concatenation of what can be read, with its duration; or the first
\* artifact, with the duration of all.
FinishCue ==
  /\ Running({"emotion"}) /\ (Ended \/ Interrupted)
  /\ IF Concat THEN NextCue(Places({TRUE}), Cardinality(Places({TRUE})), Places({FALSE}))
     ELSE NextCue(IF artifacts = <<>> THEN {} ELSE {artifacts[1].of}, Len(artifacts), Places({FALSE}))

\* voice_dialogue answers with a result for each cue; its argument concat is not looked at.
Answer ==
  /\ phase = "running" /\ at.cue > Len(cues) /\ phase' = "answered"
  /\ UNCHANGED <<cues, at, chunks, artifacts, lines, aborted>>

Init ==
  /\ cues = <<>> /\ chunks = <<>> /\ at = [cue |-> 1, span |-> 1, chunk |-> 1]
  /\ artifacts = <<>> /\ lines = <<>> /\ aborted = FALSE /\ phase = "start"

Next ==
  \/ Refuse \/ Start \/ Pause \/ Plain \/ Throw \/ Synthesize \/ Abort \/ FinishCue \/ Answer
  \/ \E i \in DOMAIN artifacts : Lose(i)

Spec == Init /\ [][Next]_runVars

-----------------------------------------------------------------------------
\* Type invariant.
TypeOK ==
  /\ cues \in Cues \cup {<<>>} /\ chunks \in Seq(Nat) /\ at \in [cue : Nat, span : Nat, chunk : Nat]
  /\ \A i \in DOMAIN artifacts : artifacts[i] \in [of : Nat \X Nat, file : BOOLEAN]
  /\ \A i \in DOMAIN lines : lines[i].ms \in Nat
  /\ aborted \in BOOLEAN /\ phase \in {"start", "running", "answered", "failed"}

\* A letter for each character of a word.
Letters(text) == FlattenSeq([i \in DOMAIN text |-> [j \in 1..text[i].size |-> text[i].at]])

\* Whatever the text, its chunks fit and say its letters in order, and letters are only
\* missing, at the end, when the result says it was truncated.
ChunksSayTheText ==
  phase = "running" /\ at = [cue |-> 1, span |-> 1, chunk |-> 1] =>
  \A text \in UNION {Range(cues[c].texts) : c \in DOMAIN cues} :
    LET result == Chunked(text)
        said   == FlattenSeq([i \in DOMAIN result.chunks |-> Letters(result.chunks[i])])
    IN /\ \A i \in DOMAIN result.chunks : Chars(result.chunks[i]) \in 1..MaxChunk
       /\ Len(result.chunks) <= MaxChunks
       /\ IsPrefix(said, Letters(text))
       /\ result.truncated <=> said # Letters(text)

\* Span by span and chunk by chunk, what has been made is the beginning of the text,
\* and at the end all of it.
MadeInOrder ==
  Running({"emotion"}) =>
    LET made == [i \in DOMAIN artifacts |-> artifacts[i].of]
    IN IsPrefix(made, Plan) /\ (Ended => made = Plan)

\* Without an abort a line has all audio that was made but for files that were lost,
\* unless all were.
LineIsWhole ==
  \A i \in DOMAIN lines :
    LET l == lines[i]
    IN l.kind = "emotion" /\ ~aborted =>
         Cardinality(l.audio) = l.ms \/ (l.ms > 1 /\ Cardinality(l.lost) = l.ms)

=============================================================================
