----------------------------- MODULE AudioGraph -----------------------------
(***************************************************************************)
(* The multi-track graph of v3 (voice_soundboard/v3/audio_graph.py): what  *)
(* edits it, validate() and diff().  A clone is taken at some moment and   *)
(* the edits go on; diff() is asked of the clone and the graph.            *)
(***************************************************************************)
EXTENDS Naturals, Sequences, SequencesExt, FiniteSets

CONSTANTS
  Names,      \* track names
  Effects,    \* what an effect is made from: its name, type and first parameters
  MaxDepth,   \* MAX_EFFECT_DEPTH
  MaxEdits    \* bound: edits made

VARIABLES
  graph,  \* [rate, tracks, master, plugin], tracks: a function on the names there are
  clone,  \* the clone that was kept
  edits

graphVars == <<graph, clone, edits>>

Rates == {24000, 44100, 8000}
ValidRates == {22050, 24000, 44100, 48000}
Volumes == {10, 25}  \* in tenths
MaxVolume == 20
Contents == {"none", "audio", "speech", "no speaker"}

\* The id is made of type and parameters when the effect is: later parameters leave it.
Node(e) == [id |-> e, params |-> "first"]
Nodes == [id : Effects, params : {"first", "changed"}]
Tracks == [volume : Volumes, mute : BOOLEAN, content : Contents, duck : SUBSET Names,
           rate : Rates, effects : Seq(Nodes)]

-----------------------------------------------------------------------------
\* validate(): what is wrong, as <<code, where>>.
ValidateGraph(g) ==
  {<<"INVALID_SAMPLE_RATE", "graph">> : r \in {g.rate} \ ValidRates}
  \cup {<<"EFFECT_CHAIN_TOO_DEEP", "master">> : m \in {n \in {Len(g.master)} : n > MaxDepth}}
  \cup {<<"PLUGIN_VIOLATION", p>> : p \in {q \in {g.plugin} : q = "stateful"}}

ValidateTrack(n, t) ==
  {<<"INVALID_PARAMETER", n>> : v \in {u \in {t.volume} : u > MaxVolume}}
  \cup {<<"EFFECT_CHAIN_TOO_DEEP", n>> : d \in {k \in {Len(t.effects)} : k > MaxDepth}}
  \cup {<<"MISSING_SPEAKER", n>> : c \in {t.content} \cap {"no speaker"}}

ValidateDucking(g) ==
  {<<"INVALID_DUCK_TARGET", n>> :
     n \in {m \in DOMAIN g.tracks : ~(g.tracks[m].duck \subseteq DOMAIN g.tracks)}}

Errors(g) ==
  ValidateGraph(g) \cup ValidateDucking(g)
  \cup UNION {ValidateTrack(n, g.tracks[n]) : n \in DOMAIN g.tracks}

Warnings(g) ==
  {<<"EMPTY_TRACK", n>> : n \in {m \in DOMAIN g.tracks : g.tracks[m].content = "none"}}
  \cup {<<"INCOMPATIBLE_SAMPLE_RATES", "graph">> :
          s \in {r \in {{g.tracks[n].rate : n \in DOMAIN g.tracks}} : Cardinality(r) > 1}}

\* A graph that passes; strict makes errors of the warnings.
IsValid(g, strict) == Errors(g) = {} /\ (strict => Warnings(g) = {})

-----------------------------------------------------------------------------
\* One chain against another: by id, and of an id that is there twice the last counts.
Ids(effects) == {effects[i].id : i \in DOMAIN effects}
LastOf(effects, id) ==
  effects[CHOOSE i \in DOMAIN effects : /\ effects[i].id = id
                                        /\ \A j \in DOMAIN effects : effects[j].id = id => j <= i]

DiffEffects(path, one, two) ==
  {<<"added", path, id>> : id \in Ids(two) \ Ids(one)}
  \cup {<<"removed", path, id>> : id \in Ids(one) \ Ids(two)}
  \cup {<<"modified", path, id>> : id \in {i \in Ids(one) \cap Ids(two) :
                                             LastOf(one, i).params # LastOf(two, i).params}}

\* Mutant: mute is not compared.
DiffTrack_NoMute(n, one, two) ==
  {<<"modified", n, "volume">> : v \in {one.volume} \ {two.volume}}
  \cup DiffEffects(n, one.effects, two.effects)

DiffTrack(n, one, two) ==
  {<<"modified", n, "volume">> : v \in {one.volume} \ {two.volume}}
  \cup {<<"modified", n, "mute">> : m \in {one.mute} \ {two.mute}}
  \cup DiffEffects(n, one.effects, two.effects)

Diff(one, two) ==
  {<<"modified", "graph", "sample_rate">> : r \in {one.rate} \ {two.rate}}
  \cup {<<"added", "tracks", n>> : n \in DOMAIN two.tracks \ DOMAIN one.tracks}
  \cup {<<"removed", "tracks", n>> : n \in DOMAIN one.tracks \ DOMAIN two.tracks}
  \cup UNION {DiffTrack(n, one.tracks[n], two.tracks[n]) :
                n \in DOMAIN one.tracks \cap DOMAIN two.tracks}
  \cup DiffEffects("master", one.master, two.master)

-----------------------------------------------------------------------------
Edit(g) ==
  /\ edits < MaxEdits
  /\ graph' = g /\ edits' = edits + 1
  /\ UNCHANGED clone

\* A track takes the graph's rate of the moment; a name that is there is refused.
AddTrack(n) ==
  /\ n \notin DOMAIN graph.tracks
  /\ Edit([graph EXCEPT !.tracks = [m \in DOMAIN graph.tracks \cup {n} |->
       IF m = n THEN [volume |-> 10, mute |-> FALSE, content |-> "none", duck |-> {},
                      rate |-> graph.rate, effects |-> <<>>]
       ELSE graph.tracks[m]]])

\* The tracks that duck for it still name it.
RemoveTrack(n) ==
  /\ n \in DOMAIN graph.tracks
  /\ Edit([graph EXCEPT !.tracks = [m \in DOMAIN graph.tracks \ {n} |-> graph.tracks[m]]])

\* What a caller sets on a track it was given.
SetTrack(n) ==
  /\ n \in DOMAIN graph.tracks
  /\ \/ \E v \in Volumes : Edit([graph EXCEPT !.tracks[n].volume = v])
     \/ Edit([graph EXCEPT !.tracks[n].mute = ~@])
     \/ \E c \in Contents : Edit([graph EXCEPT !.tracks[n].content = c])
     \/ \E m \in Names \ {n} : Edit([graph EXCEPT !.tracks[n].duck = @ \cup {m}])

AddEffect(n, e) ==
  /\ n \in DOMAIN graph.tracks /\ Edit([graph EXCEPT !.tracks[n].effects = Append(@, Node(e))])

\* remove_effect(): the first of that name.
RemoveEffect(n, e) ==
  /\ n \in DOMAIN graph.tracks /\ e \in Ids(graph.tracks[n].effects)
  /\ LET chain == graph.tracks[n].effects
         first == CHOOSE i \in DOMAIN chain : chain[i].id = e /\ \A j \in 1..(i - 1) : chain[j].id # e
     IN Edit([graph EXCEPT !.tracks[n].effects = SubSeq(chain, 1, first - 1)
                                                 \o SubSeq(chain, first + 1, Len(chain))])

\* The parameters of an effect of the chain are changed in place.
ChangeParams(n) ==
  /\ n \in DOMAIN graph.tracks
  /\ \E i \in DOMAIN graph.tracks[n].effects :
       Edit([graph EXCEPT !.tracks[n].effects[i].params = "changed"])

AddMasterEffect(e) == Edit([graph EXCEPT !.master = Append(@, Node(e))])

RegisterPlugin(p) == Edit([graph EXCEPT !.plugin = p])

SetRate(r) == Edit([graph EXCEPT !.rate = r])

\* clone(): a deep copy.
Clone == clone # graph /\ clone' = graph /\ UNCHANGED <<graph, edits>>

Init ==
  /\ graph = [rate |-> 24000, tracks |-> [n \in {} |-> {}], master |-> <<>>, plugin |-> "none"]
  /\ clone = graph /\ edits = 0

Next ==
  \/ \E n \in Names :
       \/ AddTrack(n) \/ RemoveTrack(n) \/ SetTrack(n) \/ ChangeParams(n)
       \/ \E e \in Effects : AddEffect(n, e) \/ RemoveEffect(n, e)
  \/ \E e \in Effects : AddMasterEffect(e)
  \/ \E p \in {"pure", "stateful"} : RegisterPlugin(p)
  \/ \E r \in Rates : SetRate(r)
  \/ Clone

Spec == Init /\ [][Next]_graphVars

-----------------------------------------------------------------------------
\* Type invariant.
TypeOK ==
  /\ edits \in 0..MaxEdits
  /\ \A g \in {graph, clone} :
       /\ g.rate \in Rates /\ g.master \in Seq(Nodes) /\ g.plugin \in {"none", "pure", "stateful"}
       /\ DOMAIN g.tracks \subseteq Names /\ \A n \in DOMAIN g.tracks : g.tracks[n] \in Tracks

Turned(change) ==
  IF change[1] = "added" THEN [change EXCEPT ![1] = "removed"]
  ELSE IF change[1] = "removed" THEN [change EXCEPT ![1] = "added"] ELSE change

\* diff() the other way round is the same list with added and removed exchanged.
DiffMirrors == Diff(graph, clone) = {Turned(c) : c \in Diff(clone, graph)}

\* What diff() does not compare: a track's rate, contents and the tracks it ducks for, the
\* plugins, and how often an effect is in a chain.
Blind(one, two) ==
  \/ one.plugin # two.plugin \/ Len(one.master) # Len(two.master)
  \/ \E n \in DOMAIN one.tracks \cap DOMAIN two.tracks :
       \/ one.tracks[n].duck # two.tracks[n].duck
       \/ one.tracks[n].content # two.tracks[n].content
       \/ one.tracks[n].rate # two.tracks[n].rate
       \/ Len(one.tracks[n].effects) # Len(two.tracks[n].effects)

\* An edit after which validate() gives another verdict shows in diff() (audio_graph.py:
\* "Understand what changed"), unless it is of what diff() does not compare.
BreakageIsDiffed ==
  \A strict \in BOOLEAN :
    IsValid(clone, strict) /\ ~IsValid(graph, strict) =>
      Diff(clone, graph) # {} \/ Blind(clone, graph)

\* When diff() is silent, the graphs have the same tracks, which differ in nothing but what
\* it is blind to.
SilentMeansSame ==
  Diff(clone, graph) = {} =>
    /\ DOMAIN clone.tracks = DOMAIN graph.tracks /\ clone.rate = graph.rate
    /\ \A n \in DOMAIN graph.tracks :
         /\ clone.tracks[n].volume = graph.tracks[n].volume
         /\ clone.tracks[n].mute = graph.tracks[n].mute
         /\ Ids(clone.tracks[n].effects) = Ids(graph.tracks[n].effects)
=============================================================================
