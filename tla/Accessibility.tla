--------------------------- MODULE Accessibility ----------------------------
(***************************************************************************)
(* The accessibility package of the Python library                         *)
(* (voice_soundboard/accessibility): screen readers, a switch with reading *)
(* and descriptions, navigation and captions. They share nothing.          *)
(***************************************************************************)
EXTENDS Integers, Sequences, SequencesExt, FiniteSets

(***************************************************************************)
(* The bridge to a screen reader (accessibility/bridge.py and              *)
(* screen_readers/): an adapter that is detected when it is first needed,  *)
(* announcements that are kept, spoken and told to listeners, and the      *)
(* volume of the reader that is lowered while the soundboard speaks.       *)
(***************************************************************************)
CONSTANTS
  Readers,        \* the readers of the platform, in the order they are tried
  CanDuck,        \* readers whose adapter lowers the volume
  Listeners,
  QueueLimit,     \* maxlen of the queue of announcements
  Interval,       \* progress_interval_percent
  Percents,       \* progress that is reported
  MaxSyntheses,   \* bound: syntheses at once
  MaxAnnounced    \* bound: announcements

VARIABLES
  running,     \* environment: readers that are running
  adapter,     \* _adapter: a reader or "none"
  initialized, \* _adapter_initialized
  queue,       \* _announcement_queue: numbers of announcements
  speaking,    \* _is_speaking
  syntheses,   \* syntheses between their start and their end
  volume,      \* what the adapter last asked of its reader: "normal" or "ducked"
  listeners,   \* _listeners
  spoken,      \* history: the last announcement a reader spoke: [n, interrupt]
  announced,   \* history: how many announcements were made
  cleared,     \* history: the number of announcements before the last that cleared the queue
  ranThen      \* history: the readers that ran when detection looked

screenReaderVars == <<running, adapter, initialized, queue, speaking, syntheses, volume,
                      listeners, spoken, announced, cleared, ranThen>>

ReaderSet == Range(Readers)
Priorities == {"off", "polite", "assertive"}

\* Mutant: the last adapter whose reader is running.
Detected_Last ==
  LET found == SelectSeq(Readers, LAMBDA r : r \in running) IN
  IF found = <<>> THEN "none" ELSE found[Len(found)]

\* detect_screen_reader(): the first adapter whose reader is running.
Detected ==
  LET found == SelectSeq(Readers, LAMBDA r : r \in running) IN IF found = <<>> THEN "none" ELSE found[1]

\* _ensure_adapter(): once, and only when no adapter was given.
Ensured == IF ~initialized /\ adapter = "none" THEN Detected ELSE adapter
EnsureAdapter ==
  /\ adapter' = Ensured /\ initialized' = TRUE
  /\ ranThen' = IF initialized \/ adapter # "none" THEN ranThen ELSE running

-----------------------------------------------------------------------------
\* Environment: a screen reader is started or ended.
ReaderToggles(r) ==
  /\ running' = IF r \in running THEN running \ {r} ELSE running \cup {r}
  /\ UNCHANGED <<adapter, initialized, queue, speaking, syntheses, volume, listeners, spoken,
                 announced, cleared, ranThen>>

\* screen_reader_active, screen_reader_name
LookUp ==
  /\ ~initialized /\ EnsureAdapter
  /\ UNCHANGED <<running, queue, speaking, syntheses, volume, listeners, spoken, announced, cleared>>

\* Mutant: the queue is cleared after the announcement was put in.
Queued_ClearLate(n, clear) ==
  IF clear THEN <<>> ELSE LET all == Append(queue, n) IN
  IF Len(all) > QueueLimit THEN Tail(all) ELSE all

\* The queue with the announcement, of which the oldest falls out.
Queued(n, clear) ==
  LET all == Append(IF clear THEN <<>> ELSE queue, n) IN
  IF Len(all) > QueueLimit THEN Tail(all) ELSE all

\* announce(): kept, and spoken unless it is decorative; a reader that has ended since says
\* nothing, and errors of the listeners are swallowed.
Announce(priority, clear) ==
  LET n == announced + 1 IN
  /\ n <= MaxAnnounced
  /\ queue' = Queued(n, clear)
  /\ cleared' = IF clear THEN n - 1 ELSE cleared
  /\ EnsureAdapter
  /\ spoken' = IF Ensured # "none" /\ priority # "off" /\ Ensured \in running
               THEN [n |-> n, interrupt |-> priority = "assertive"] ELSE spoken
  /\ announced' = n
  /\ UNCHANGED <<running, speaking, syntheses, volume, listeners>>

\* on_progress(): full intervals but the last are announced politely.
Progress(percent) ==
  /\ percent > 0 /\ percent % Interval = 0 /\ percent < 100
  /\ Announce("polite", FALSE)

AddListener(l) ==
  /\ l \notin listeners /\ listeners' = listeners \cup {l}
  /\ UNCHANGED <<running, adapter, initialized, queue, speaking, syntheses, volume, spoken,
                 announced, cleared, ranThen>>

RemoveListener(l) ==
  /\ l \in listeners /\ listeners' = listeners \ {l}
  /\ UNCHANGED <<running, adapter, initialized, queue, speaking, syntheses, volume, spoken,
                 announced, cleared, ranThen>>

\* on_synthesis_start(): an adapter that is not detected yet is not ducked.
SynthesisStart ==
  /\ syntheses < MaxSyntheses /\ syntheses' = syntheses + 1
  /\ speaking' = TRUE
  /\ volume' = IF adapter \in CanDuck THEN "ducked" ELSE volume
  /\ UNCHANGED <<running, adapter, initialized, queue, listeners, spoken, announced, cleared, ranThen>>

\* Mutant: the end of the last synthesis leaves the volume as it is.
SynthesisEnd_Kept ==
  /\ syntheses > 0 /\ syntheses' = syntheses - 1
  /\ speaking' = FALSE
  /\ volume' = IF adapter \in CanDuck /\ syntheses > 1 THEN "normal" ELSE volume
  /\ UNCHANGED <<running, adapter, initialized, queue, listeners, spoken, announced, cleared, ranThen>>

\* on_synthesis_end(): of any synthesis, also when others go on.
SynthesisEnd ==
  /\ syntheses > 0 /\ syntheses' = syntheses - 1
  /\ speaking' = FALSE
  /\ volume' = IF adapter \in CanDuck THEN "normal" ELSE volume
  /\ UNCHANGED <<running, adapter, initialized, queue, listeners, spoken, announced, cleared, ranThen>>

ReaderInit ==
  /\ running \in SUBSET ReaderSet
  /\ adapter \in {"none"} \cup ReaderSet /\ initialized = FALSE
  /\ queue = <<>> /\ speaking = FALSE /\ syntheses = 0 /\ volume = "normal" /\ listeners = {}
  /\ spoken = [n |-> 0, interrupt |-> FALSE] /\ announced = 0 /\ cleared = 0 /\ ranThen = {}

ReaderNext ==
  \/ \E r \in ReaderSet : ReaderToggles(r)
  \/ LookUp
  \/ \E p \in Priorities, clear \in BOOLEAN : Announce(p, clear)
  \/ \E p \in Percents : Progress(p)
  \/ \E l \in Listeners : AddListener(l) \/ RemoveListener(l)
  \/ SynthesisStart \/ SynthesisEnd

ReaderSpec == ReaderInit /\ [][ReaderNext]_screenReaderVars

-----------------------------------------------------------------------------
\* Type invariant.
ReaderTypeOK ==
  /\ running \subseteq ReaderSet /\ ranThen \subseteq ReaderSet
  /\ adapter \in {"none"} \cup ReaderSet /\ initialized \in BOOLEAN
  /\ Range(queue) \subseteq 1..announced /\ speaking \in BOOLEAN /\ syntheses \in 0..MaxSyntheses
  /\ volume \in {"normal", "ducked"} /\ listeners \subseteq Listeners
  /\ cleared \in 0..announced
  /\ spoken.n \in 0..announced /\ spoken.interrupt \in BOOLEAN

\* bridge.py: the user's screen reader is not left quiet. With no synthesis going on the
\* volume is back, also after syntheses that overlapped and one that began before the
\* adapter was detected; and the bridge says it speaks only while one goes on.
NotLeftDucked == syntheses = 0 => volume = "normal" /\ ~speaking

\* bridge.py: the queue is the newest announcements since it was last cleared, the one that
\* cleared it the first of them.
QueueIsNewest ==
  /\ Len(queue) <= QueueLimit
  /\ \A n \in 1..announced :
       n \in Range(queue) <=> n > cleared /\ n > announced - QueueLimit
  /\ \A i, j \in DOMAIN queue : i < j => queue[i] < queue[j]

\* detection.py: an adapter that was not given is of the first reader that ran when the
\* bridge first needed one; if none ran, there is none, whatever is started later.
FirstRunning ==
  /\ adapter = "none" /\ initialized => ranThen = {}
  /\ \A i, j \in DOMAIN Readers :
       i < j /\ adapter = Readers[j] /\ Readers[j] \in ranThen => Readers[i] \notin ranThen
  /\ adapter = "none" => spoken.n = 0

(***************************************************************************)
(* Controls of accessibility/motor.py, cognitive.py and descriptions.py:   *)
(* actions that a user scans with a switch, the word of a text that is     *)
(* highlighted, and a track of timed descriptions that is sorted when it   *)
(* is read.                                                                *)
(***************************************************************************)
CONSTANTS
  Names,       \* names of actions
  TextWords,   \* the number of words of the text that is read
  Times,       \* timestamps of descriptions, and the times that are asked for
  Tolerance,   \* of at_time()
  MaxCalls     \* bound: calls

VARIABLES
  actions,      \* SwitchControl._actions: names
  position,     \* _current_index
  highlighted,  \* history: the action the last start() or move highlighted, "" for none
  disturbed,    \* history: an action was removed since, or there was none to highlight
  ran,          \* history: the last selection: what ran, what was highlighted, was it disturbed
  wordIndex,    \* ReadingDisplay.current_word_index
  descriptions, \* DescriptionTrack.descriptions: [time, n], n the order they were added in
  isSorted,     \* _sorted
  calls

assistiveVars == <<actions, position, highlighted, disturbed, ran, wordIndex, descriptions,
                   isSorted, calls>>
switchVars == <<actions, position, highlighted, disturbed, ran>>
trackVars == <<descriptions, isSorted>>

\* current_action
Current == IF position < Len(actions) THEN actions[position + 1] ELSE ""

Called == calls < MaxCalls /\ calls' = calls + 1

-----------------------------------------------------------------------------
\* add_action(): at the end.
AddAction(name) ==
  /\ Called /\ actions' = Append(actions, name)
  /\ UNCHANGED <<position, highlighted, disturbed, ran, wordIndex, trackVars>>

\* remove_action(): every action of the name; the index stays where it is.
RemoveAction(name) ==
  /\ Called /\ name \in Range(actions)
  /\ actions' = SelectSeq(actions, LAMBDA a : a # name) /\ disturbed' = TRUE
  /\ UNCHANGED <<position, highlighted, ran, wordIndex, trackVars>>

MovesTo(i) ==
  /\ Called /\ position' = i
  /\ highlighted' = IF i < Len(actions) THEN actions[i + 1] ELSE ""
  /\ disturbed' = (actions = <<>>)
  /\ UNCHANGED <<actions, ran, wordIndex, trackVars>>

\* start()
StartScan == MovesTo(0)

\* Mutant: the index runs off the end.
NextAction_NoWrap == actions # <<>> /\ MovesTo(position + 1)

\* next(): around the end, and back among the actions if some were removed.
NextAction == actions # <<>> /\ MovesTo((position + 1) % Len(actions))

\* previous(); -1 % n is n - 1 in Python as in TLA+.
PreviousAction == actions # <<>> /\ MovesTo((position - 1) % Len(actions))

\* select(): the callback of what current_action names, if it names one.
SelectAction ==
  /\ Called /\ Current # ""
  /\ ran' = <<Current, highlighted, disturbed>>
  /\ UNCHANGED <<actions, position, highlighted, disturbed, wordIndex, trackVars>>

\* Mutant: the index is limited by the number of words.
Clamped_OffByOne(i) == IF i > TextWords THEN TextWords ELSE IF i < 0 THEN 0 ELSE i

\* max(0, min(index, len(words) - 1)): 0 also when there are no words.
Clamped(i) == LET low == IF i > TextWords - 1 THEN TextWords - 1 ELSE i IN IF low < 0 THEN 0 ELSE low

\* ReadingDisplay.set_word(), next_word()
SetWord(i) == Called /\ wordIndex' = Clamped(i) /\ UNCHANGED <<switchVars, trackVars>>
NextWord ==
  /\ Called /\ wordIndex < TextWords - 1 /\ wordIndex' = wordIndex + 1
  /\ UNCHANGED <<switchVars, trackVars>>

\* Mutant: what is added leaves the track sorted.
AddDescription_KeepsFlag(t) ==
  /\ Called /\ descriptions' = Append(descriptions, [time |-> t, n |-> Len(descriptions) + 1])
  /\ UNCHANGED <<isSorted, switchVars, wordIndex>>

\* DescriptionTrack.add(), add_description()
AddDescription(t) ==
  /\ Called /\ descriptions' = Append(descriptions, [time |-> t, n |-> Len(descriptions) + 1])
  /\ isSorted' = FALSE
  /\ UNCHANGED <<switchVars, wordIndex>>

\* list.sort() by timestamp. It is stable, and descriptions of one time are in the order of n
\* to begin with.
InOrder == SortSeq(descriptions, LAMBDA d, e : d.time < e.time \/ (d.time = e.time /\ d.n < e.n))

\* get_descriptions(): sorted in place when something was added since; to_srt() and at_time()
\* read through it.
GetDescriptions ==
  /\ Called
  /\ descriptions' = IF isSorted THEN descriptions ELSE InOrder
  /\ isSorted' = TRUE
  /\ UNCHANGED <<switchVars, wordIndex>>

\* at_time() of a track that is in order: the first within the tolerance, 0 for None.
AtTime(track, t) ==
  LET near == {i \in DOMAIN track : track[i].time - t \in -Tolerance..Tolerance} IN
  IF near = {} THEN 0 ELSE CHOOSE i \in near : \A j \in near : i <= j

AssistiveInit ==
  /\ actions = <<>> /\ position = 0 /\ highlighted = "" /\ disturbed = TRUE /\ ran = <<>>
  /\ wordIndex = 0 /\ descriptions = <<>> /\ isSorted = TRUE /\ calls = 0

AssistiveNext ==
  \/ \E name \in Names : AddAction(name) \/ RemoveAction(name)
  \/ StartScan \/ NextAction \/ PreviousAction \/ SelectAction
  \/ \E i \in -1..TextWords : SetWord(i)
  \/ NextWord
  \/ \E t \in Times : AddDescription(t)
  \/ GetDescriptions

AssistiveSpec == AssistiveInit /\ [][AssistiveNext]_assistiveVars

-----------------------------------------------------------------------------
\* Type invariant.
AssistiveTypeOK ==
  /\ actions \in Seq(Names) /\ position \in Nat /\ highlighted \in Names \cup {""}
  /\ disturbed \in BOOLEAN /\ Len(ran) \in {0, 3} /\ wordIndex \in Nat
  /\ \A i \in DOMAIN descriptions : descriptions[i].time \in Times
  /\ isSorted \in BOOLEAN /\ calls \in 0..MaxCalls

\* motor.py: what a press of the switch runs is what the last move highlighted, unless an
\* action was removed in between; the highlight is lost only then, and the next move finds an
\* action again.
RunsWhatWasHighlighted ==
  /\ ran # <<>> /\ ~ran[3] => ran[1] = ran[2]
  /\ ~disturbed => Current = highlighted /\ Current # ""

\* descriptions.py: a track that says it is sorted is, with every description in it once and
\* those of one time in the order they were added; at_time() then answers with one that is
\* near enough whenever there is one, the earliest.
TrackInOrder ==
  /\ {descriptions[i].n : i \in DOMAIN descriptions} = 1..Len(descriptions)
  /\ isSorted => \A i, j \in DOMAIN descriptions : i < j =>
       /\ descriptions[i].time <= descriptions[j].time
       /\ descriptions[i].time = descriptions[j].time => descriptions[i].n < descriptions[j].n
  /\ isSorted => \A t \in Times : LET k == AtTime(descriptions, t) IN
       \A d \in Range(descriptions) : d.time - t \in -Tolerance..Tolerance =>
         k # 0 /\ descriptions[k].time <= d.time

\* cognitive.py: the highlighted word is a word of the text; the first stands for an empty text.
WordOfText == wordIndex < TextWords \/ (TextWords = 0 /\ wordIndex = 0)

(***************************************************************************)
(* Moving through content by ear: AudioLandmarks, TableNavigator and       *)
(* DocumentStructure (voice_soundboard/accessibility/navigation.py), and   *)
(* the captions made from a text (captions.py). Rows, columns and          *)
(* landmarks are numbered from 1, and 0 is no place, as -1 in the code.    *)
(***************************************************************************)
CONSTANTS
  Documents,     \* sequences of lines: "titled", "untitled" (a bare #), "list", "text"
  Tables,        \* sequences of row lengths
  Wrap,          \* wrap_navigation
  CaptionInputs  \* pairs <<words, seconds>>

VARIABLES
  document,   \* the content of the last parse
  landmarks,  \* _landmarks: the lines that are one
  cursor,     \* _current_index
  moved,      \* history: has the cursor moved in this content
  table,      \* _table: the lengths of its rows
  row, column,
  input       \* of the captions

navigationVars == <<document, landmarks, cursor, moved, table, row, column, input>>

tableVars == <<table, row, column>>
landmarkVars == <<document, landmarks, cursor, moved>>

-----------------------------------------------------------------------------
(***************************************************************************)
(* AudioLandmarks.                                                         *)
(***************************************************************************)
LinesOf(d, kinds) == SelectSeq([i \in DOMAIN d |-> i], LAMBDA i : d[i] \in kinds)

\* parse_content: the cursor stays where it was in the content before.
ParseContent(d) ==
  /\ document' = d
  /\ landmarks' = LinesOf(d, {"titled", "untitled", "list"})
  /\ moved' = FALSE
  /\ UNCHANGED <<cursor, input>> /\ UNCHANGED tableVars

Matches(i, kinds) == document[landmarks[i]] \in kinds
MoveTo(i) ==
  /\ cursor' = i /\ moved' = TRUE
  /\ UNCHANGED <<document, landmarks, input>> /\ UNCHANGED tableVars

NextLandmark(kinds) ==
  LET after == {i \in DOMAIN landmarks : i > cursor /\ Matches(i, kinds)}
  IN after # {} /\ MoveTo(CHOOSE i \in after : \A j \in after : i <= j)

\* With the cursor of longer content it raises IndexError, and nothing moves.
PreviousLandmark(kinds) ==
  LET before == {i \in 1..(cursor - 1) : Matches(i, kinds)}
  IN /\ cursor - 1 <= Len(landmarks) /\ before # {}
     /\ MoveTo(CHOOSE i \in before : \A j \in before : j <= i)

-----------------------------------------------------------------------------
(***************************************************************************)
(* TableNavigator: a move that cannot be made leaves things as they are.   *)
(***************************************************************************)
RowLength == IF table = <<>> THEN 0 ELSE table[row]
Place(r, c) == row' = r /\ column' = c /\ UNCHANGED <<table, input>> /\ UNCHANGED landmarkVars

\* load: past the header row and the header column, when there is more.
Load(t, headerRow, headerColumn) ==
  /\ table' = t
  /\ row' = IF headerRow /\ Len(t) > 1 THEN 2 ELSE 1
  /\ column' = IF headerColumn /\ t # <<>> /\ t[1] > 1 THEN 2 ELSE 1
  /\ UNCHANGED input /\ UNCHANGED landmarkVars

Right == IF column < RowLength THEN Place(row, column + 1) ELSE Wrap /\ Place(row, 1)
Left  == IF column > 1 THEN Place(row, column - 1) ELSE Wrap /\ Place(row, RowLength)
Down  == IF row < Len(table) THEN Place(row + 1, column) ELSE Wrap /\ Place(1, column)
\* Mutant: up from the first row is below the last one.
Up_PastEnd == IF row > 1 THEN Place(row - 1, column) ELSE Wrap /\ Place(Len(table) + 1, column)
Up    == IF row > 1 THEN Place(row - 1, column) ELSE Wrap /\ Place(Len(table), column)

-----------------------------------------------------------------------------
(***************************************************************************)
(* Pure functions: the sections of a document, and captions.               *)
(***************************************************************************)
Headings(d) == LinesOf(d, {"titled", "untitled"})

\* _extract_structure: from each heading to the line before the next one; a section
\* without a title is not saved.
Sections(d) ==
  LET h == Headings(d)
      end(i) == IF i = Len(h) THEN Len(d) ELSE h[i + 1] - 1
  IN {<<h[i], end(i)>> : i \in {j \in DOMAIN h : d[h[j]] = "titled"}}

Most(a, b) == IF a > b THEN a ELSE b

\* _split_into_captions, as [from, to] in words: groups of one size, and a rest.
PerCaption(words, seconds) == Most(1, words \div Most(1, seconds \div 3))

\* Mutant: what is left after the last full caption is dropped.
Captions_NoRest(words, seconds) ==
  LET size == PerCaption(words, seconds)
  IN [i \in 1..(words \div size) |-> [from |-> (i - 1) * size, to |-> i * size]]

Captions(words, seconds) ==
  LET size == PerCaption(words, seconds)
      full == [i \in 1..(words \div size) |-> [from |-> (i - 1) * size, to |-> i * size]]
  IN IF words % size = 0 THEN full
     ELSE Append(full, [from |-> words - (words % size), to |-> words])

-----------------------------------------------------------------------------
NavigationInit ==
  /\ document = <<>> /\ landmarks = <<>> /\ cursor = 0 /\ moved = FALSE
  /\ table = <<>> /\ row = 1 /\ column = 1
  /\ input \in CaptionInputs

Filters == {{"titled", "untitled", "list"}, {"titled", "untitled"}, {"list"}}

NavigationNext ==
  \/ \E d \in Documents : ParseContent(d)
  \/ \E kinds \in Filters : NextLandmark(kinds) \/ PreviousLandmark(kinds)
  \/ \E t \in Tables, r, c \in BOOLEAN : Load(t, r, c)
  \/ Right \/ Left \/ Down \/ Up

NavigationSpec == NavigationInit /\ [][NavigationNext]_navigationVars

-----------------------------------------------------------------------------
\* Type invariant.
NavigationTypeOK ==
  /\ document \in Documents \cup {<<>>} /\ cursor \in Nat
  /\ moved \in BOOLEAN
  /\ table \in Tables \cup {<<>>} /\ row \in Nat /\ column \in Nat

\* The cursors stay on something: that of the landmarks while it is in the content
\* it moved in, and that of a table in its rows; a column may be beyond a short row.
CursorsValid ==
  /\ moved => cursor \in DOMAIN landmarks
  /\ table # <<>> => row \in DOMAIN table /\ column <= Most(1, Max(Range(table)))

\* The captions follow each other from the first word to the last; the sections of a
\* document with titles cover it from its first heading on.
PiecesCover ==
  /\ LET made == Captions(input[1], input[2]) IN
       input[1] > 0 =>
         /\ made # <<>> /\ made[1].from = 0 /\ Last(made).to = input[1]
         /\ \A i \in 1..(Len(made) - 1) : made[i].to = made[i + 1].from
         /\ \A i \in DOMAIN made : made[i].from < made[i].to
  /\ \A line \in DOMAIN document :
       Cardinality({s \in Sections(document) : s[1] <= line /\ line <= s[2]}) =
         IF \E h \in Range(Headings(document)) :
              /\ h <= line /\ document[h] = "titled"
              /\ \A g \in Range(Headings(document)) : g <= line => g <= h
         THEN 1 ELSE 0

=============================================================================
