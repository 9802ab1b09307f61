--------------------------- MODULE VoiceLibraries ---------------------------
(***************************************************************************)
(* What the Python library keeps of voices: the database of speakers       *)
(* (voice_soundboard/speakers), and presets with voice profiles            *)
(* (v3/presets.py).                                                        *)
(***************************************************************************)
EXTENDS FiniteSets, Integers, Sequences, SequencesExt

(***************************************************************************)
(* The speaker database (voice_soundboard/speakers/database.py) over its   *)
(* directory: an index file and an embedding file per speaker              *)
(* (voice_soundboard/cloning/storage.py). A file is truncated when it is   *)
(* opened and whole when it was dumped; the process may die in between.    *)
(* Several databases of the process may be open on the directory, and take *)
(* turns.                                                                  *)
(***************************************************************************)
CONSTANTS
  Dbs,       \* the SpeakerDB objects
  Raws,      \* names as callers give them
  Speakers,  \* names that are valid
  MaxSaves   \* bound: embeddings saved

VARIABLES
  files,      \* embedding files: 0 none, Torn, or which embedding is in it
  index,      \* index.json: the names in it, or torn
  memory,     \* _index of each database
  op,         \* [pc, db, name]: the operation that goes on
  saves,      \* bound, and the number of the last embedding
  confirmed,  \* history: name -> the embedding of the last add that returned, 0 when removed
  broken,     \* history: names whose last operation was cut short
  stale,      \* history: databases that do not know of the last change
  forgotten   \* history: an index was saved by a stale database, or torn and read as empty

storeVars == <<files, index, memory, op, saves, confirmed, broken, stale, forgotten>>

Torn == MaxSaves + 1
Idle == [pc |-> "idle", db |-> 0, name |-> ""]
Whole(names) == [torn |-> FALSE, names |-> names]

\* _validate_name(): stripped and lowered, then tested; "" stands for what is refused.
Normalized(raw) == IF raw = "A " THEN "a" ELSE IF raw \in Speakers THEN raw ELSE ""

Begin(d, n, step) == op.pc = "idle" /\ op' = [pc |-> step, db |-> d, name |-> n]

-----------------------------------------------------------------------------
\* add() and add_embedding(), up to the opening of the embedding file.
Add(d, raw, overwrite) ==
  LET n == Normalized(raw) IN
  /\ saves < MaxSaves /\ n # "" /\ (n \notin memory[d] \/ overwrite)
  /\ Begin(d, n, "dump")
  /\ files' = [files EXCEPT ![n] = Torn]
  /\ UNCHANGED <<index, memory, saves, confirmed, broken, stale, forgotten>>

\* json.dump() of the embedding; a value it cannot write raises, and the file stays torn.
DumpEmbedding ==
  /\ op.pc = "dump" /\ op' = [op EXCEPT !.pc = "index"]
  /\ saves' = saves + 1 /\ files' = [files EXCEPT ![op.name] = saves + 1]
  /\ UNCHANGED <<index, memory, confirmed, broken, stale, forgotten>>

DumpRaises ==
  /\ op.pc = "dump" /\ op' = Idle
  /\ broken' = broken \cup {op.name}
  /\ UNCHANGED <<files, index, memory, saves, confirmed, stale, forgotten>>

\* The entry, and the opening of the index.
AddEntry ==
  /\ op.pc = "index" /\ op' = [op EXCEPT !.pc = "save"]
  /\ memory' = [memory EXCEPT ![op.db] = @ \cup {op.name}]
  /\ index' = [torn |-> TRUE, names |-> {}]
  /\ UNCHANGED <<files, saves, confirmed, broken, stale, forgotten>>

\* remove(): get() and remove() look for the name as it is given; the file goes first.
RemoveSpeaker(d, raw) ==
  /\ raw \in memory[d] /\ Begin(d, raw, "drop")
  /\ files' = [files EXCEPT ![raw] = 0]
  /\ UNCHANGED <<index, memory, saves, confirmed, broken, stale, forgotten>>

\* Mutant: the entry stays in the index.
DropEntry_Kept ==
  /\ op.pc = "drop" /\ op' = [op EXCEPT !.pc = "save"]
  /\ index' = [torn |-> TRUE, names |-> {}]
  /\ UNCHANGED <<files, memory, saves, confirmed, broken, stale, forgotten>>

DropEntry ==
  /\ op.pc = "drop" /\ op' = [op EXCEPT !.pc = "save"]
  /\ memory' = [memory EXCEPT ![op.db] = @ \ {op.name}]
  /\ index' = [torn |-> TRUE, names |-> {}]
  /\ UNCHANGED <<files, saves, confirmed, broken, stale, forgotten>>

\* _save_index(): the whole index, as this database knows it.
SaveIndex ==
  /\ op.pc = "save" /\ op' = Idle
  /\ index' = Whole(memory[op.db])
  /\ confirmed' = [confirmed EXCEPT ![op.name] = files[op.name]]
  /\ broken' = broken \ {op.name}
  /\ stale' = stale \cup (Dbs \ {op.db})
  /\ forgotten' = (forgotten \/ op.db \in stale)
  /\ UNCHANGED <<files, memory, saves>>

\* _load_index(): an index that cannot be read is an empty one.
Loaded == IF index.torn THEN {} ELSE index.names

Open(d) ==
  /\ op.pc = "idle" /\ memory' = [memory EXCEPT ![d] = Loaded] /\ stale' = stale \ {d}
  /\ forgotten' = (forgotten \/ index.torn)
  /\ UNCHANGED <<files, index, op, saves, confirmed, broken>>

\* The process dies, and all is loaded again.
Crash ==
  /\ memory' = [d \in Dbs |-> Loaded] /\ stale' = {} /\ op' = Idle
  /\ broken' = broken \cup (IF op.pc = "idle" THEN {} ELSE {op.name})
  /\ forgotten' = (forgotten \/ index.torn)
  /\ UNCHANGED <<files, index, saves, confirmed>>

SpeakerInit ==
  /\ files = [n \in Speakers |-> 0] /\ index = Whole({}) /\ memory = [d \in Dbs |-> {}]
  /\ op = Idle /\ saves = 0 /\ confirmed = [n \in Speakers |-> 0]
  /\ broken = {} /\ stale = {} /\ forgotten = FALSE

SpeakerNext ==
  \/ \E d \in Dbs : \/ \E raw \in Raws : \/ \E overwrite \in BOOLEAN : Add(d, raw, overwrite)
                                        \/ RemoveSpeaker(d, raw)
                    \/ Open(d)
  \/ DumpEmbedding \/ DumpRaises \/ AddEntry \/ DropEntry \/ SaveIndex \/ Crash

SpeakerSpec == SpeakerInit /\ [][SpeakerNext]_storeVars

-----------------------------------------------------------------------------
\* Type invariant.
SpeakerTypeOK ==
  /\ files \in [Speakers -> 0..Torn] /\ memory \in [Dbs -> SUBSET Speakers]
  /\ index.names \subseteq Speakers /\ index.torn \in BOOLEAN
  /\ op.pc \in {"idle", "dump", "index", "drop", "save"} /\ saves \in 0..MaxSaves
  /\ confirmed \in [Speakers -> 0..MaxSaves] /\ broken \subseteq Speakers /\ stale \subseteq Dbs

\* However operations are cut short, the embeddings of the other speakers are as they were
\* last saved, even when the index has forgotten them.
EmbeddingsSurvive ==
  \A n \in Speakers \ (broken \cup {op.name}) : files[n] = confirmed[n]

\* Between operations the index has the speakers that were added and not removed, but for
\* those whose operation was cut short, and a database that is not stale has the index;
\* unless a stale database has saved its own, or a torn index was taken for an empty one.
IndexIsRight ==
  op.pc = "idle" /\ ~forgotten =>
    /\ ~index.torn => /\ index.names \ broken = {n \in Speakers : confirmed[n] # 0} \ broken
                      /\ \A d \in Dbs \ stale : memory[d] \ broken = index.names \ broken
    /\ index.torn => broken # {}

(***************************************************************************)
(* Effect presets (voice_soundboard/v3/presets.py): the built-in ones,     *)
(* those registered and loaded from files, profiles of voices that         *)
(* override parameters, and effect nodes that share the parameters of the  *)
(* preset they are made from. The parameters of an effect are an object of *)
(* "heap": 0 as registered, 1 overridden for a voice, 2 changed by whoever *)
(* holds the node.                                                         *)
(***************************************************************************)
CONSTANTS
  Names,    \* presets that are registered beside the built-in ones
  Voices,   \* voices that have profiles
  MaxHeap   \* bound: parameter objects

VARIABLES
  presets,   \* _presets, in the order of the dict: [name, effects: sequence of [type, ref]]
  heap,      \* parameter objects
  profiles,  \* _voice_profiles: "none" or [preset, overrides]
  nodes,     \* the effects last handed out, by to_effect_nodes() or for a voice
  ofVoice,   \* "" or the voice they are for
  file       \* what was saved: "none", "torn" or "whole"

presetVars == <<presets, heap, profiles, nodes, ofVoice, file>>

\* _load_builtins(): the chain of effects of each preset.
Chains == <<
  <<"broadcast_clean", <<"eq", "compressor", "limiter">>>>,
  <<"warm_female",     <<"eq", "compressor">>>>,
  <<"broadcast_male",  <<"eq", "compressor", "limiter">>>>,
  <<"background_duck", <<"eq", "compressor">>>>,
  <<"subtle_sfx",      <<"eq", "compressor">>>>,
  <<"room_ambiance",   <<"eq">>>>,
  <<"narration",       <<"eq", "compressor", "limiter">>>>,
  <<"theatrical",      <<"eq", "compressor">>>>,
  <<"loud_clear",      <<"eq", "compressor", "limiter">>>>,
  <<"transparent",     <<"limiter">>>> >>

\* EQ(), Compressor(), Limiter() and the other factories: new parameters for each effect.
Effects(chain, base) == [i \in DOMAIN chain |-> [type |-> chain[i], ref |-> base + i]]
Preset(name, chain, base) == [name |-> name, effects |-> Effects(chain, base)]

\* A dict: a name that is there keeps its place, and loses its preset to the new one.
Register(ps, p) ==
  IF \E i \in DOMAIN ps : ps[i].name = p.name
  THEN [i \in DOMAIN ps |-> IF ps[i].name = p.name THEN p ELSE ps[i]]
  ELSE Append(ps, p)

PresetNames(ps) == {ps[i].name : i \in DOMAIN ps}
Get(name) == presets[CHOOSE i \in DOMAIN presets : presets[i].name = name]

\* Mutant: an unknown name is put in front, what is known is lost.
Register_AtEnd(ps, p) == Append(SelectSeq(ps, LAMBDA q : q.name # p.name), p)

\* register_from_file(): one after another, and the first that has no name or an effect
\* without a type ends it, after those before it were registered.
Malformed == [name |-> "", effects |-> <<>>]
Load(ps, entries) ==
  LET bad  == {i \in DOMAIN entries : entries[i] = Malformed}
      good == SelectInSeq(entries, LAMBDA e : e = Malformed)
  IN FoldLeft(Register, ps, IF bad = {} THEN entries ELSE SubSeq(entries, 1, good - 1))

Builtins ==
  LET base[i \in 1..Len(Chains)] == IF i = 1 THEN 0 ELSE base[i - 1] + Len(Chains[i - 1][2])
  IN [i \in DOMAIN Chains |-> Preset(Chains[i][1], Chains[i][2], base[i])]
BuiltinHeap == [i \in 1..22 |-> 0]

-----------------------------------------------------------------------------
RegisterPreset(name, chain) ==
  /\ Len(heap) + Len(chain) <= MaxHeap
  /\ presets' = Register(presets, Preset(name, chain, Len(heap)))
  /\ heap' = heap \o [i \in DOMAIN chain |-> 0]
  /\ UNCHANGED <<profiles, nodes, ofVoice, file>>

RemovePreset(name) ==
  /\ name \in PresetNames(presets)
  /\ presets' = SelectSeq(presets, LAMBDA p : p.name # name)
  /\ UNCHANGED <<heap, profiles, nodes, ofVoice, file>>

\* A file of two presets, of which the second may be malformed.
RegisterFromFile(name, other) ==
  /\ Len(heap) + 2 <= MaxHeap
  /\ LET second == IF other = "" THEN Malformed ELSE Preset(other, <<"limiter">>, Len(heap) + 1)
     IN presets' = Load(presets, <<Preset(name, <<"eq">>, Len(heap)), second>>)
  /\ heap' = heap \o <<0, 0>>
  /\ UNCHANGED <<profiles, nodes, ofVoice, file>>

\* A parameter that can not be written (one that was changed may be) ends the dump in the
\* middle of the opened file.
SaveToFile ==
  /\ \/ file' = "whole"
     \/ /\ \E p \in ToSet(presets) : \E e \in ToSet(p.effects) : heap[e.ref] = 2
        /\ file' = "torn"
  /\ UNCHANGED <<presets, heap, profiles, nodes, ofVoice>>

RegisterVoiceProfile(v, name, types) ==
  /\ profiles' = [profiles EXCEPT ![v] = [preset |-> name, overrides |-> types]]
  /\ UNCHANGED <<presets, heap, nodes, ofVoice, file>>

\* Preset.to_effect_nodes(): the nodes hold the preset's own parameters.
ToEffectNodes(name) ==
  /\ name \in PresetNames(presets)
  /\ nodes' = Get(name).effects /\ ofVoice' = ""
  /\ UNCHANGED <<presets, heap, profiles, file>>

\* Mutant: apply_overrides() does not copy.
Overridden_InPlace(effects, base) == effects

\* VoiceProfile.apply_overrides(): every effect with a copy of its parameters, updated when
\* its type is overridden.
Overridden(effects, base) ==
  [i \in DOMAIN effects |-> [type |-> effects[i].type, ref |-> base + i]]

GetPresetForVoice(v) ==
  /\ profiles[v].preset \in PresetNames(presets)
  /\ LET effects == Get(profiles[v].preset).effects IN
     /\ Len(heap) + Len(effects) <= MaxHeap
     /\ nodes' = Overridden(effects, Len(heap))
     /\ heap' = heap \o [i \in DOMAIN effects |->
                           IF effects[i].type \in profiles[v].overrides THEN 1
                           ELSE heap[effects[i].ref]]
  /\ ofVoice' = v
  /\ UNCHANGED <<presets, profiles, file>>

\* Whoever has a node changes a parameter of it.
EditNode(i) ==
  /\ heap' = [heap EXCEPT ![nodes[i].ref] = 2]
  /\ UNCHANGED <<presets, profiles, nodes, ofVoice, file>>

PresetInit ==
  /\ presets = Builtins /\ heap = BuiltinHeap
  /\ profiles = [v \in Voices |-> [preset |-> "", overrides |-> {}]]
  /\ nodes = <<>> /\ ofVoice = "" /\ file = "none"

PresetNext ==
  \/ \E n \in Names :
       \/ RegisterPreset(n, <<"eq", "limiter">>)
       \/ RemovePreset(n) \/ ToEffectNodes(n)
       \/ \E o \in Names \cup {""} : RegisterFromFile(n, o)
       \/ \E v \in Voices : RegisterVoiceProfile(v, n, {"limiter"})
  \/ \E v \in Voices : GetPresetForVoice(v)
  \/ \E i \in DOMAIN nodes : EditNode(i)
  \/ SaveToFile

PresetSpec == PresetInit /\ [][PresetNext]_presetVars

-----------------------------------------------------------------------------
\* Type invariant.
PresetTypeOK ==
  /\ heap \in Seq(0..2) /\ Len(heap) <= MaxHeap /\ file \in {"none", "torn", "whole"}
  /\ \A p \in ToSet(presets) : \A e \in ToSet(p.effects) : e.ref \in DOMAIN heap
  /\ \A v \in Voices : profiles[v].overrides \subseteq {"limiter"}
  /\ ofVoice \in Voices \cup {""}

Refs(effects) == {effects[i].ref : i \in DOMAIN effects}

\* What is handed out for a voice can be changed without changing a preset of the library,
\* and no two presets share parameters, whatever was registered, loaded and replaced
\* (presets.py:134-157).
PresetsAreApart ==
  /\ ofVoice # "" => \A p \in ToSet(presets) : Refs(nodes) \cap Refs(p.effects) = {}
  /\ \A i, j \in DOMAIN presets : i # j => Refs(presets[i].effects) \cap Refs(presets[j].effects) = {}

\* A library that is saved and loaded over itself is as it was, in its order; a file that
\* ends in a malformed preset leaves what was before it registered and the rest as it was
\* (presets.py:278-326).
LoadedInPlace ==
  /\ Load(presets, presets) = presets
  /\ \A n \in Names : LET after == Load(presets, <<Preset(n, <<"eq">>, 0), Malformed>>) IN
       /\ PresetNames(after) = PresetNames(presets) \cup {n}
       /\ \A i \in DOMAIN presets : presets[i].name # n => after[i] = presets[i]

=============================================================================
