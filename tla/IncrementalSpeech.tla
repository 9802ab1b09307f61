------------------------- MODULE IncrementalSpeech --------------------------
(***************************************************************************)
(* Speech from words that are still coming, in the Python library: the     *)
(* synthesizer (voice_soundboard/streaming), and the compiler              *)
(* (compiler/incremental.py).                                              *)
(***************************************************************************)
EXTENDS Integers, Sequences, SequencesExt, FiniteSets, FiniteSetsExt

(***************************************************************************)
(* IncrementalSynthesizer (voice_soundboard/streaming/synthesizer.py):     *)
(* words are synthesised as they are fed, wait in a StreamBuffer, and are  *)
(* taken back when the CorrectionDetector thinks the speaker corrects      *)
(* itself.                                                                 *)
(***************************************************************************)
CONSTANTS
  Words,       \* what may be fed: [text, commits, corrects]
  Sizes,       \* the audio of a word, in samples; 0 when its synthesis failed
  MaxSamples,  \* int(sample_rate * max_buffer_ms / 1000)
  Repetition,  \* correction_sensitivity > 0.5: a repeated word is a correction too
  SynthMaxFed       \* bound: words fed

VARIABLES
  synthFed,       \* history: the words fed so far
  words,     \* _state.words, by the number they were fed as
  pending,   \* pending_text: a sequence of tokens, the set of words in each
  glue,      \* the pending text does not end in a space
  committed, \* the number of tokens in committed_text
  marker,    \* the word_index of the last rollback marker, -1 without one
  memory,    \* _detector._history: texts
  chunks,    \* _buffer._chunks: [index, final, size, says], says the words of the audio
  total,     \* _buffer._total_samples
  heard,     \* history: the words whose audio was yielded
  twice,     \* history: what feed() yielded was not heard for the first time
  stale      \* history: how many chunks of the buffer are from before the last reset

incrementalVars == <<synthFed, words, pending, glue, committed, marker, memory, chunks, total, heard, twice, stale>>

SizeOf(cs) == FoldLeft(LAMBDA n, c : n + c.size, 0, cs)

-----------------------------------------------------------------------------
\* The detector remembers the word and looks for a word of correction, and, when it is
\* sensitive, for one of the last three words: where that stood in its own memory.
Detected(word) ==
  LET now    == Append(memory, word.text)
      n      == Len(now)
      recent == {i \in (n - 3)..(n - 1) : n > 3 /\ Repetition /\ now[i] = word.text}
  IN [correction |-> word.corrects \/ recent # {},
      to         |-> {i - 1 : i \in {k \in recent : ~word.corrects /\ \A j \in recent : j <= k}}]

\* Where _handle_rollback goes: there, or to the last marker, or to the first word.
Target(word) ==
  LET to == Detected(word).to
  IN IF to # {} THEN CHOOSE t \in to : TRUE ELSE IF marker >= 0 THEN marker ELSE 0

\* rollback_to: the chunks of later words go, from the end, committed or not.
Kept(cs, target) ==
  LET late(i) == \A j \in i..Len(cs) : cs[j].index > target
  IN SubSeq(cs, 1, Cardinality({i \in DOMAIN cs : ~late(i)}))

\* What is left of words, pending text, chunks and glue when the word was looked at.
Before(word) ==
  IF ~Detected(word).correction
  THEN [words |-> words, pending |-> pending, glue |-> glue, chunks |-> chunks]
  ELSE LET target == Target(word)
           left   == IF target + 1 < Len(words) THEN SubSeq(words, 1, target + 1) ELSE words
       IN [words   |-> left,
           pending |-> [i \in 1..(IF Len(left) > committed THEN Len(left) - committed ELSE 0)
                          |-> {left[committed + i]}],
           glue    |-> Len(left) > committed,
           chunks  |-> Kept(chunks, target)]

\* Mutant: the chunks that leave are still counted.
AddChunk_KeepsTotal(cs, n, chunk) ==
  LET all   == Append(cs, chunk)
      fits  == {k \in 0..Len(all) : SizeOf(SubSeq(all, k + 1, Len(all))) <= MaxSamples}
      first == CHOOSE k \in fits : \A j \in fits : k <= j
  IN [chunks |-> SubSeq(all, first + 1, Len(all)),
      ready  |-> SubSeq(all, 1, first),
      total  |-> n + chunk.size]

\* StreamBuffer.add: the oldest chunks leave until the rest is not too long.
AddChunk(cs, n, chunk) ==
  LET all   == Append(cs, chunk)
      fits  == {k \in 0..Len(all) : SizeOf(SubSeq(all, k + 1, Len(all))) <= MaxSamples}
      first == CHOOSE k \in fits : \A j \in fits : k <= j
  IN [chunks |-> SubSeq(all, first + 1, Len(all)),
      ready  |-> SubSeq(all, 1, first),
      total  |-> SizeOf(SubSeq(all, first + 1, Len(all)))]

Least(a, b) == IF a < b THEN a ELSE b

\* Chunks are yielded, and played.
Play(cs) ==
  LET says == [i \in DOMAIN cs |-> cs[i].says]
  IN /\ heard' = heard \cup UNION Range(says)
     /\ twice' = (twice \/ \E i \in DOMAIN says : says[i] \cap heard # {})

\* feed(word), and the caller plays what it yields.
SynthFeed(word, size) ==
  /\ synthFed < SynthMaxFed /\ synthFed' = synthFed + 1
  /\ LET b       == Before(word)
         index   == Len(b.words)
         chunk   == [index |-> index, final |-> word.commits, size |-> size, says |-> {synthFed}]
         added   == IF size = 0 THEN [chunks |-> b.chunks, ready |-> <<>>, total |-> SizeOf(b.chunks)]
                    ELSE AddChunk(b.chunks, SizeOf(b.chunks), chunk)
         text    == IF b.glue THEN [b.pending EXCEPT ![Len(b.pending)] = @ \cup {synthFed}]
                    ELSE Append(b.pending, {synthFed})
     IN /\ words' = Append(b.words, synthFed)
        /\ chunks' = added.chunks /\ total' = added.total
        /\ Play(added.ready)
        /\ stale' = Least(IF Len(b.chunks) < stale THEN Len(b.chunks) ELSE stale,
                          Len(added.chunks))
        /\ glue' = FALSE
        /\ IF word.commits
           THEN /\ pending' = <<>> /\ committed' = committed + Len(text)
                /\ marker' = index /\ memory' = <<>>
           ELSE /\ pending' = text /\ UNCHANGED <<committed, marker>>
                /\ memory' = Append(memory, word.text)

\* finalize(): what is pending is synthesised as one text, again; what that pushes out
\* of the buffer is dropped, and the rest is yielded.
SynthFinalize(size) ==
  /\ LET again == [index |-> Len(words) - 1, final |-> TRUE, size |-> size,
                   says |-> UNION Range(pending)]
         added == IF pending = <<>> \/ size = 0 THEN [chunks |-> chunks]
                  ELSE AddChunk(chunks, total, again)
     IN heard' = heard \cup UNION {added.chunks[i].says : i \in DOMAIN added.chunks}
  /\ chunks' = <<>> /\ total' = 0 /\ stale' = 0 /\ memory' = <<>>
  /\ UNCHANGED <<twice, synthFed, words, pending, glue, committed, marker>>

\* reset(): the buffer is not reset.
SynthReset ==
  /\ words # <<>>
  /\ words' = <<>> /\ pending' = <<>> /\ glue' = FALSE /\ committed' = 0 /\ marker' = -1
  /\ memory' = <<>> /\ stale' = Len(chunks)
  /\ UNCHANGED <<synthFed, chunks, total, heard, twice>>

SynthInit ==
  /\ synthFed = 0 /\ words = <<>> /\ pending = <<>> /\ glue = FALSE /\ committed = 0
  /\ marker = -1 /\ memory = <<>> /\ chunks = <<>> /\ total = 0 /\ stale = 0
  /\ heard = {} /\ twice = FALSE

SynthNext ==
  \/ SynthReset
  \/ \E size \in Sizes : SynthFinalize(size) \/ \E w \in Words : SynthFeed(w, size)

SynthSpec == SynthInit /\ [][SynthNext]_incrementalVars

-----------------------------------------------------------------------------
\* Type invariant.
SynthTypeOK ==
  /\ synthFed \in 0..SynthMaxFed
  /\ \A i \in DOMAIN pending : pending[i] \subseteq 0..SynthMaxFed
  /\ glue \in BOOLEAN /\ committed \in Nat
  /\ Len(words) <= SynthMaxFed /\ Len(memory) <= SynthMaxFed /\ marker \in -1..SynthMaxFed
  /\ \A i \in DOMAIN chunks : chunks[i].size \in Sizes
  /\ heard \subseteq 0..SynthMaxFed /\ twice \in BOOLEAN
  /\ total \in 0..MaxSamples /\ stale \in 0..Len(chunks)

\* Through corrections, the buffer counts what it holds, holds no more than it may, and
\* what it holds since the last reset is in the order of the words; and what feed() yields
\* was not heard before.
BufferAccounts ==
  /\ total = SizeOf(chunks) /\ total <= MaxSamples /\ ~twice
  /\ \A i, j \in (stale + 1)..Len(chunks) : i < j => chunks[i].index < chunks[j].index

(***************************************************************************)
(* The incremental compiler (voice_soundboard/compiler/incremental.py):    *)
(* text is fed in chunks, and segments are compiled as soon as the buffer  *)
(* has a boundary. A character is one of Chars with its place in the text; *)
(* a tag of one letter is one that is known.                               *)
(***************************************************************************)
CONSTANTS
  Chunks,     \* what is fed, over Chars
  MaxBuffer,  \* max_buffer_chars
  CompilerMaxFed      \* bound: characters fed

VARIABLES
  buffer,  \* _buffer
  textFed,     \* history: the text
  graphs,  \* history: what feed() and finalize() returned, [source, text, events]
  finals,  \* history: where finalize() ended a graph
  lost,    \* history: characters of graphs that were not returned because one raised
  raised   \* history: the last feed() raised

compilerVars == <<buffer, textFed, graphs, finals, lost, raised>>

Chars == {"w", "_", ".", ",", "[", "]"}  \* a letter, a space, an end of sentence or clause
Spaces(b) == {i \in DOMAIN b : b[i].c = "_"}

LStrip(b) == LET i == SelectInSeq(b, LAMBDA x : x.c # "_")
             IN IF i = 0 THEN <<>> ELSE SubSeq(b, i, Len(b))
Strip(b) == SubSeq(LStrip(b), 1, SelectLastInSeq(LStrip(b), LAMBDA x : x.c # "_"))

\* PARA_TAG: where the tag that begins at i ends, or 0.
TagEnd(b, i) ==
  LET ends == {j \in (i + 2)..Len(b) : b[j].c = "]" /\ \A k \in (i + 1)..(j - 1) : b[k].c = "w"}
  IN IF b[i].c = "[" /\ ends # {} THEN Min(ends) ELSE 0

\* Behind the first mark that a space or the end of the buffer follows, or 0.
AfterMark(b, mark) ==
  LET ends == {i \in DOMAIN b : b[i].c = mark /\ (i = Len(b) \/ b[i + 1].c = "_")}
  IN IF ends = {} THEN 0 ELSE IF Min(ends) = Len(b) THEN Len(b) ELSE Min(ends) + 1

\* Mutant: no space is looked for.
Forced_NoSpace(b) == IF Len(b) <= MaxBuffer THEN 0 ELSE MaxBuffer

\* A buffer that is too long is cut behind its last space, or in the word.
Forced(b) ==
  LET spaces == Spaces(b) \cap (2..MaxBuffer)
  IN IF Len(b) <= MaxBuffer THEN 0 ELSE IF spaces # {} THEN Max(spaces) ELSE MaxBuffer

\* _find_commit_boundary(): 0 for None.
Boundary(b) ==
  LET first == SelectInSeq(b, LAMBDA x : x.c # "_")
      tag   == IF first = 0 THEN 0 ELSE TagEnd(b, first)
      stop  == AfterMark(b, ".")
      pause == IF Len(b) > MaxBuffer \div 2 THEN AfterMark(b, ",") ELSE 0
  IN IF tag # 0 THEN Len(b) - Len(LStrip(SubSeq(b, tag + 1, Len(b))))
     ELSE IF stop # 0 THEN stop ELSE IF pause # 0 THEN pause ELSE Forced(b)

\* _compile_segment(): known tags become events and leave the text.
Compiled(segment) ==
  LET source == Strip(segment)
      events == {i \in DOMAIN source : TagEnd(source, i) = i + 2}
      inTag  == UNION {i..(i + 2) : i \in events}
  IN [source |-> source,
      text   |-> [i \in DOMAIN source |-> IF i \in inTag THEN [source[i] EXCEPT !.c = "tag"] ELSE source[i]],
      events |-> {source[i].at : i \in events}]

\* _flush_ready(): segments as long as there is a boundary; what is left loses the spaces
\* before it.
Flushed(b) ==
  LET step[k \in 0..Len(b)] ==
        IF k = 0 THEN [rest |-> b, segments |-> <<>>]
        ELSE LET s == step[k - 1] IN
             IF Boundary(s.rest) = 0 THEN s
             ELSE [rest     |-> LStrip(SubSeq(s.rest, Boundary(s.rest) + 1, Len(s.rest))),
                   segments |-> LET segment == SubSeq(s.rest, 1, Boundary(s.rest))
                                IN IF Strip(segment) = <<>> THEN s.segments
                                   ELSE Append(s.segments, segment)]
  IN step[Len(b)]

\* Only what has text besides its tags is given to compile_fn.
Spoken(segment) == \E x \in ToSet(Compiled(segment).text) : x.c \notin {"tag", "_"}

Positions(b) == {b[i].at : i \in DOMAIN b}

-----------------------------------------------------------------------------
\* feed(): a segment whose compilation raises takes the graphs before it in the call with
\* it, and what is behind it stays in the buffer.
CompilerFeed(chunk) ==
  LET text == [i \in DOMAIN chunk |-> [c |-> chunk[i], at |-> Len(textFed) + i]]
      f    == Flushed(buffer \o text)
      all  == buffer \o text
  IN /\ Len(textFed) + Len(chunk) <= CompilerMaxFed
     /\ textFed' = textFed \o text
     /\ \/ /\ buffer' = f.rest
           /\ graphs' = graphs \o [i \in DOMAIN f.segments |-> Compiled(f.segments[i])]
           /\ raised' = FALSE /\ UNCHANGED <<finals, lost>>
        \/ \E bad \in {i \in DOMAIN f.segments : Spoken(f.segments[i])} :
             LET last == Max(Positions(f.segments[bad]))
             IN /\ buffer' = LStrip(SelectSeq(all, LAMBDA x : x.at > last))
                /\ lost' = lost \cup UNION {Positions(f.segments[i]) : i \in 1..bad}
                /\ raised' = TRUE /\ UNCHANGED <<graphs, finals>>

\* finalize(): all that is left, as one segment; when it raises the buffer stays.
CompilerFinalize ==
  /\ Strip(buffer) # <<>>
  /\ graphs' = Append(graphs, Compiled(buffer))
  /\ buffer' = <<>> /\ finals' = finals \cup {buffer[Len(buffer)].at}
  /\ UNCHANGED <<textFed, lost, raised>>

FinalizeBlank ==
  /\ buffer # <<>> /\ Strip(buffer) = <<>> /\ buffer' = <<>>
  /\ UNCHANGED <<textFed, graphs, finals, lost, raised>>

\* reset(): what has not been compiled is dropped.
CompilerReset ==
  /\ buffer # <<>> /\ buffer' = <<>>
  /\ lost' = lost \cup Positions(buffer)
  /\ raised' = FALSE /\ UNCHANGED <<textFed, graphs, finals>>

CompilerInit == buffer = <<>> /\ textFed = <<>> /\ graphs = <<>> /\ finals = {} /\ lost = {} /\ raised = FALSE

CompilerNext == (\E chunk \in Chunks : CompilerFeed(chunk)) \/ CompilerFinalize \/ FinalizeBlank \/ CompilerReset

CompilerSpec == CompilerInit /\ [][CompilerNext]_compilerVars

-----------------------------------------------------------------------------
\* Type invariant.
CompilerTypeOK ==
  /\ Len(textFed) <= CompilerMaxFed /\ \A i \in DOMAIN textFed : textFed[i].at = i /\ textFed[i].c \in Chars
  /\ \A i \in DOMAIN buffer : buffer[i].at \in DOMAIN textFed
  /\ lost \subseteq DOMAIN textFed

Sources == FlattenSeq([i \in DOMAIN graphs |-> graphs[i].source])

\* Whatever the chunks, the text is compiled once and in order: what was returned and what
\* waits are increasing in their places, and what is in neither is a space or was lost.
SaidOnce ==
  LET said == Sources \o buffer IN
  /\ \A i, j \in DOMAIN said : i < j => said[i].at < said[j].at
  /\ \A i \in DOMAIN textFed : i \notin Positions(said) => textFed[i].c = "_" \/ i \in lost

\* No more waits than max_buffer_chars, and nothing that should have gone, but
\* after a feed() that raised.
NothingOverdue == ~raised => Len(buffer) <= MaxBuffer /\ Boundary(buffer) = 0

\* A word is cut in two only by finalize(), or because it fills the buffer: its first part
\* is as long as that allows and has no space.
WordsCutOnlyByForce ==
  \A g \in DOMAIN graphs :
    LET s == graphs[g].source
        p == s[Len(s)].at
    IN /\ p \notin finals /\ p + 1 \in DOMAIN textFed \ lost
       /\ textFed[p].c = "w" /\ textFed[p + 1].c = "w"
       => Len(s) >= MaxBuffer - 1 /\ Spaces(s) = {}

\* A known tag that is in one segment is an event and is not spoken.
TagsAreEvents ==
  \A g \in DOMAIN graphs : \A i \in DOMAIN graphs[g].source :
    TagEnd(graphs[g].source, i) = i + 2 =>
      graphs[g].source[i].at \in graphs[g].events /\ graphs[g].text[i].c = "tag"

=============================================================================
