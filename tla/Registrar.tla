----------------------------- MODULE Registrar -----------------------------
(***************************************************************************)
(* The audio registrar (voice_soundboard/runtime/registrar): the single    *)
(* authority for stream state.  A request names an action, an actor, a     *)
(* target stream and metadata; the registrar builds the state it would     *)
(* lead to, asks eight domain invariants and then the in-memory Registrum  *)
(* bridge, and stores, indexes and attests the outcome.                    *)
(*                                                                         *)
(* Next to the live registrar the module keeps "replayed": the registrar   *)
(* that AudioRegistrar.replay builds from the attestations recorded so     *)
(* far.  replay is a left fold that re-requests each "allowed" attestation *)
(* in order, so one more attestation is one more request to the fold.      *)
(***************************************************************************)
EXTENDS Naturals, FiniteSets

CONSTANTS
  Names,      \* stream ids the callers choose
  Uuids,      \* stream ids uuid4 makes for a request without a target
  Users,      \* actors whose id starts with "user_"
  Agents,     \* every other actor: agents, plugins, the system
  Values,     \* the values an override parameter can be given
  Targets,    \* what a caller may pass as target: names, or NoTarget
  NoTarget,   \* target=None
  Absent,     \* no entry in a dict
  Unset,      \* an override parameter that is None
  MaxOrder,   \* bound: requests accepted once there are several streams
  MaxAlone    \* bound: requests accepted while there is one stream

ASSUME IdAssumption ==
  /\ Names \cap Uuids = {}
  /\ NoTarget \notin Names \cup Uuids
  /\ Targets \subseteq Names \cup {NoTarget}
ASSUME ActorAssumption == Users \cap Agents = {}
ASSUME ValueAssumption == Unset \notin Values
ASSUME BoundAssumption == MaxOrder \in Nat /\ MaxAlone \in Nat

Ids    == Names \cup Uuids
Actors == Users \cup Agents

(***************************************************************************)
(* Stream states, actions and metadata.                                    *)
(***************************************************************************)
StreamState == {"idle", "compiling", "synthesizing", "playing",
                "interrupting", "stopped", "failed"}

ValidTransitions == [from \in StreamState |->
  CASE from = "idle"         -> {"compiling", "failed"}
    [] from = "compiling"    -> {"synthesizing", "failed"}
    [] from = "synthesizing" -> {"playing", "failed"}
    [] from = "playing"      -> {"interrupting", "stopped", "failed"}
    [] from = "interrupting" -> {"stopped", "failed"}
    [] OTHER                 -> {"idle"}]

LifecycleActions     == {"start", "compile", "synthesize", "play",
                         "interrupt", "stop", "fail", "restart"}
OwnershipActions     == {"claim", "release", "transfer"}
AccessibilityActions == {"enable_override", "disable_override", "update_override"}
PluginActions        == {"mutate_graph", "commit", "rollback"}
TransitionAction == LifecycleActions \cup OwnershipActions
                      \cup AccessibilityActions \cup PluginActions

\* AccessibilityState: "other" stands for the parameters the invariants do not
\* compare with the speech rate (pause_amplification, forced_captions, scope).
AccessibilityState == [active : BOOLEAN, rate : Values \cup {Unset},
                       other : Values \cup {Unset}]
NoOverride == [active |-> FALSE, rate |-> Unset, other |-> Unset]

AudioState == [state : StreamState, owner : Actors,
               accessibility : AccessibilityState,
               parent : Ids \cup {Absent}, version : Nat \ {0}]

Entry == [audio : AudioState, order : Nat, parent : Ids \cup {Absent}]

\* What the code reads of the metadata: the override parameters (Unset: not
\* given), the override_owner flag, whether the rollback index lies before the
\* last commit, and whether the priority is one StreamOwnership accepts (1-10).
Metadata == [rate : Values \cup {Unset}, other : Values \cup {Unset},
             overrideOwner : BOOLEAN, pastCommit : BOOLEAN, goodPriority : BOOLEAN]
TransitionRequest == [action : TransitionAction, actor : Actors,
                      target : Ids \cup {NoTarget}, metadata : Metadata]

\* The newest attestation, without its metadata and its wording.
Decision == {"allowed", "denied", "observed", "value_error", "bypass_error"}
Attestation == [action : TransitionAction, actor : Actors, target : Ids \cup {NoTarget},
                decision : Decision, accessibilityDriven : BOOLEAN]

ASSUME AbsentAssumption == Absent \notin AudioState \cup Entry \cup Attestation

VARIABLES
  states,      \* AudioRegistrar._states
  registry,    \* InMemoryRegistrumBridge._registry
  orderIndex,  \* InMemoryRegistrumBridge._order_index
  last,        \* how the newest call ended: the newest attestation, or a raise
  replayed     \* what replay(attestation_store.all()) returns

vars == <<states, registry, orderIndex, last, replayed>>

-----------------------------------------------------------------------------
(***************************************************************************)
(* Building the proposed state.  r is a request, st the registrar's        *)
(* _states: the same operators serve the live registrar and the replay.    *)
(***************************************************************************)
Known(r, st) == r.target # NoTarget /\ st[r.target] # Absent

NewState(action, current) ==
  CASE action = "start"                  -> "compiling"
    [] action = "compile"                -> "synthesizing"
    [] action \in {"synthesize", "play"} -> "playing"
    [] action = "interrupt"              -> "interrupting"
    [] action = "stop"                   -> "stopped"
    [] action = "fail"                   -> "failed"
    [] action = "restart"                -> "idle"
    [] OTHER                             -> current

\* dict.get(key, default)
Given(value, default) == IF value = Unset THEN default ELSE value

\* Mutant: a restart also resets the override.
NewAccessibility_RestartResets(action, current, metadata) ==
  IF action \in {"disable_override", "restart"}
  THEN [active |-> FALSE, rate |-> current.rate, other |-> current.other]
  ELSE [active |-> action = "enable_override" \/ current.active,
        rate   |-> Given(metadata.rate, current.rate),
        other  |-> Given(metadata.other, current.other)]

NewAccessibility(action, current, metadata) ==
  CASE action \in {"enable_override", "update_override"} ->
         [active |-> action = "enable_override" \/ current.active,
          rate   |-> Given(metadata.rate, current.rate),
          other  |-> Given(metadata.other, current.other)]
    [] action = "disable_override" ->
         [active |-> FALSE, rate |-> current.rate, other |-> current.other]
    [] OTHER -> current

\* Mutant: versions count from zero.
NewStream_VersionZero(r) ==
  [state |-> NewState(r.action, "idle"), owner |-> r.actor,
   accessibility |-> NoOverride, parent |-> Absent, version |-> 0]

NewStream(r) ==
  [state |-> NewState(r.action, "idle"), owner |-> r.actor,
   accessibility |-> NoOverride, parent |-> Absent, version |-> 1]

NextStream(r, current) ==
  [state         |-> NewState(r.action, current.state),
   owner         |-> current.owner,
   accessibility |-> NewAccessibility(r.action, current.accessibility, r.metadata),
   parent        |-> r.target,
   version       |-> current.version + 1]

Proposed(r, st) == IF Known(r, st) THEN NextStream(r, st[r.target]) ELSE NewStream(r)

\* StreamOwnership.__post_init__ raises before anything is recorded.
RaisesValueError(r, st) == ~Known(r, st) /\ ~r.metadata.goodPriority

-----------------------------------------------------------------------------
(***************************************************************************)
(* The domain invariants: TRUE when check() returns no violation.          *)
(***************************************************************************)
SingleOwner(r, st) ==
  (r.action = "claim" /\ Known(r, st)) => st[r.target].owner = r.actor

\* Mutant: stopping a stream needs no ownership.
OwnershipRequired_InterruptOnly(r, st) ==
  (r.action = "interrupt" /\ Known(r, st)) =>
     \/ st[r.target].accessibility.active /\ r.actor \in Users
     \/ st[r.target].owner = r.actor

OwnershipRequired(r, st) ==
  (r.action \in {"interrupt", "stop"} /\ Known(r, st)) =>
     \/ st[r.target].accessibility.active /\ r.actor \in Users
     \/ st[r.target].owner = r.actor

NoAgentInterrupt(r) ==
  r.action = "interrupt" => r.actor \in Users \/ r.metadata.overrideOwner

\* The one violation with classification HALT: it raises instead of denying.
SilentDisable(r, st) ==
  /\ Known(r, st)
  /\ st[r.target].accessibility.active
  /\ NoAgentInterrupt(r)
  /\ ~Proposed(r, st).accessibility.active
  /\ r.action # "disable_override"

OnlyUsersDisable(r) == r.action = "disable_override" => r.actor \in Users

RateChangeIsExplicit(r, st) ==
  r.action \notin {"update_override", "disable_override"} =>
     Proposed(r, st).accessibility.rate = st[r.target].accessibility.rate

AccessibilitySupremacy(r, st) ==
  Known(r, st) =>
    /\ OnlyUsersDisable(r)
    /\ st[r.target].accessibility.active =>
         NoAgentInterrupt(r) /\ RateChangeIsExplicit(r, st)

AccessibilityAuditable(r, st) ==
  (Known(r, st) /\ Proposed(r, st).accessibility # st[r.target].accessibility) =>
     r.action \in AccessibilityActions

NoDeadInterrupt(r, st) ==
  r.action = "interrupt" =>
     Known(r, st) /\ st[r.target].state \notin {"stopped", "failed"}

CommitBoundary(r, st) ==
  (r.action = "rollback" /\ Known(r, st)) => ~r.metadata.pastCommit

ValidTransition(r, st) ==
  r.action \notin AccessibilityActions =>
    IF Known(r, st)
    THEN Proposed(r, st).state \in ValidTransitions[st[r.target].state]
    ELSE r.action = "start" \/ Proposed(r, st).state = "idle"

PluginImmutability(r, st) ==
  (r.action = "mutate_graph" /\ Known(r, st)) =>
     st[r.target].state \notin {"synthesizing", "playing", "interrupting"}

DomainInvariants(r, st) ==
  /\ SingleOwner(r, st)            /\ OwnershipRequired(r, st)
  /\ AccessibilitySupremacy(r, st) /\ AccessibilityAuditable(r, st)
  /\ NoDeadInterrupt(r, st)        /\ CommitBoundary(r, st)
  /\ ValidTransition(r, st)        /\ PluginImmutability(r, st)

\* The bridge's one structural check that can fail: state.lineage.parent_exists.
ParentExists(r, st, reg) == Known(r, st) => reg[r.target] # Absent

Allowed(r, st, reg) == DomainInvariants(r, st) /\ ParentExists(r, st, reg)

\* Mutant: update_override is not counted.
AccessibilityDriven_NoUpdate(r, st) ==
  \/ r.action \in AccessibilityActions \ {"update_override"}
  \/ r.action = "interrupt" /\ Known(r, st) /\ st[r.target].accessibility.active

\* TransitionResult.accessibility_driven
AccessibilityDriven(r, st) ==
  \/ r.action \in AccessibilityActions
  \/ r.action = "interrupt" /\ Known(r, st) /\ st[r.target].accessibility.active

-----------------------------------------------------------------------------
(***************************************************************************)
(* Registering an accepted transition on stream id: the target, or the     *)
(* uuid made for a request without one.                                    *)
(***************************************************************************)
\* Mutant: the bridge stores the state the transition comes from.
Registered_KeepsOld(r, st, order) ==
  [audio |-> IF Known(r, st) THEN st[r.target] ELSE Proposed(r, st), order |-> order,
   parent |-> IF Known(r, st) THEN r.target ELSE Absent]

\* Mutant: the index is incremented before it is stored.
Registered_NextOrder(r, st, order) ==
  [audio |-> Proposed(r, st), order |-> order + 1,
   parent |-> IF Known(r, st) THEN r.target ELSE Absent]

Registered(r, st, order) ==
  [audio |-> Proposed(r, st), order |-> order,
   parent |-> IF Known(r, st) THEN r.target ELSE Absent]

\* One step of replay(): request the transition again of registrar R, and ignore
\* the outcome.
Replayed(R, r, id) ==
  IF \/ RaisesValueError(r, R.states)
     \/ SilentDisable(r, R.states)
     \/ ~Allowed(r, R.states, R.registry)
  THEN R
  ELSE [states     |-> [R.states EXCEPT ![id] = Proposed(r, R.states)],
        registry   |-> [R.registry EXCEPT ![id] = Registered(r, R.states, R.orderIndex)],
        orderIndex |-> R.orderIndex + 1]

\* Mutant: the attestations are replayed without their metadata.
Replay_DropsMetadata(r, id) ==
  replayed' = Replayed(replayed, [r EXCEPT !.metadata.rate = Unset,
                                           !.metadata.overrideOwner = FALSE], id)

Replay(r, id) == replayed' = Replayed(replayed, r, id)

Outcome(r, decision, accessibilityDriven) ==
  [action |-> r.action, actor |-> r.actor, target |-> r.target,
   decision |-> decision, accessibilityDriven |-> accessibilityDriven]

\* The ids a request may land on, live or replayed: uuid4 is never repeated.
LandsOn(r) ==
  IF r.target = NoTarget
  THEN {u \in Uuids : states[u] = Absent /\ replayed.states[u] = Absent}
  ELSE {r.target}

\* The bound on the requests accepted, when the next one lands on stream id.
MaxAccepted(id) ==
  IF \A other \in Ids \ {id} : states[other] = Absent THEN MaxAlone ELSE MaxOrder

Accept(r, id, replayId) ==
  /\ orderIndex < MaxAccepted(id)
  /\ ~RaisesValueError(r, states)
  /\ ~SilentDisable(r, states)
  /\ Allowed(r, states, registry)
  /\ r.target = NoTarget => id # replayId
  /\ states' = [states EXCEPT ![id] = Proposed(r, states)]
  /\ registry' = [registry EXCEPT ![id] = Registered(r, states, orderIndex)]
  /\ orderIndex' = orderIndex + 1
  /\ last' = Outcome(r, "allowed", AccessibilityDriven(r, states))
  /\ Replay(r, replayId)

Deny(r) ==
  /\ ~RaisesValueError(r, states)
  /\ ~SilentDisable(r, states)
  /\ ~Allowed(r, states, registry)
  /\ last' = Outcome(r, "denied", AccessibilityDriven(r, states))
  /\ UNCHANGED <<states, registry, orderIndex, replayed>>

\* ValueError or AccessibilityBypassError leaves request() before the
\* attestation is recorded.
Raise(r) ==
  /\ RaisesValueError(r, states) \/ SilentDisable(r, states)
  /\ last' = Outcome(r, IF RaisesValueError(r, states) THEN "value_error"
                                                      ELSE "bypass_error", FALSE)
  /\ UNCHANGED <<states, registry, orderIndex, replayed>>

\* observe(): shadow mode records an attestation that replay skips.
Observe(r) ==
  /\ last' = Outcome(r, "observed", FALSE)
  /\ UNCHANGED <<states, registry, orderIndex, replayed>>

-----------------------------------------------------------------------------
\* Streams a caller can name: its own names, and uuids a result returned to it.
Nameable == Targets \cup {u \in Uuids : states[u] # Absent}

\* Metadata is enumerated only where the code reads it.
MetadataFor(action, target) ==
  LET values == IF action \in {"enable_override", "update_override"}
                THEN Values \cup {Unset} ELSE {Unset}
      isNew == target = NoTarget \/ states[target] = Absent
  IN [rate : values, other : values,
      overrideOwner : {FALSE, action = "interrupt"},
      pastCommit    : {FALSE, action = "rollback"},
      goodPriority  : {TRUE, ~isNew}]

Init ==
  /\ states = [id \in Ids |-> Absent]
  /\ registry = [id \in Ids |-> Absent]
  /\ orderIndex = 0
  /\ last = Absent
  /\ replayed = [states |-> [id \in Ids |-> Absent],
                 registry |-> [id \in Ids |-> Absent], orderIndex |-> 0]

Request(r) ==
  \/ \E id, replayId \in LandsOn(r) : Accept(r, id, replayId)
  \/ Deny(r)
  \/ Raise(r)
  \/ Observe(r)

Next ==
  \E action \in TransitionAction, actor \in Actors, target \in Nameable :
    \E m \in MetadataFor(action, target) :
      Request([action |-> action, actor |-> actor, target |-> target, metadata |-> m])

Spec == Init /\ [][Next]_vars

-----------------------------------------------------------------------------
(***************************************************************************)
(* What the registrar promises.                                            *)
(***************************************************************************)
RegistrarType == [states     : [Ids -> AudioState \cup {Absent}],
                  registry   : [Ids -> Entry \cup {Absent}],
                  orderIndex : Nat]

Live == [states |-> states, registry |-> registry, orderIndex |-> orderIndex]

\* Type invariant: the live and the replayed registrar hold well-formed states.
TypeOK ==
  /\ Live \in RegistrarType
  /\ replayed \in RegistrarType
  /\ last \in Attestation \cup {Absent}

\* The two copies of a stream's state, AudioRegistrar._states and the bridge's
\* _registry, never disagree: a transition the domain invariants reject is in
\* neither, an accepted one in both.
RegistryAgrees ==
  \A id \in Ids :
    IF states[id] = Absent THEN registry[id] = Absent
    ELSE registry[id] # Absent /\ registry[id].audio = states[id]

\* ordering.total, monotonic and gap_free: no two streams share an order index,
\* every assigned index is below the next one, and the newest one is in use.
OrderGapFree ==
  LET live == {id \in Ids : registry[id] # Absent} IN
  /\ \A id \in live : registry[id].order < orderIndex
  /\ \A i, j \in live : registry[i].order = registry[j].order => i = j
  /\ orderIndex > 0 => \E id \in live : registry[id].order = orderIndex - 1

\* The versions a stream has had: none before it is created.
Versions(id) == IF states[id] = Absent THEN 0 ELSE states[id].version

VersionsOfStreams == UNION {{<<id, n>> : n \in 1..Versions(id)} : id \in Ids}

\* Types; order indexes are total and gap free, and each was spent on one version of
\* one stream: there are as many versions of streams as accepted transitions.
WellFormed == TypeOK /\ OrderGapFree /\ orderIndex = Cardinality(VersionsOfStreams)

\* replay(attestation_store.all()) rebuilds the registrar exactly: same streams,
\* owners, override values, versions and order indexes.
ReplayReconstructs == replayed = Live

\* The HALT of audio.accessibility.supremacy is unreachable through request():
\* no proposed state ever loses an active override by itself.
NoBypassHalt == [][last'.decision # "bypass_error"]_vars

\* Every change of a stream is the newest attestation's, an "allowed" one on that
\* stream; a change of accessibility state is marked accessibility-driven.
ChangesAreAttested ==
  [][\A id \in Ids : states'[id] # states[id] =>
        /\ last'.decision = "allowed"
        /\ last'.target \in {id, NoTarget}
        /\ (states[id] # Absent /\ states'[id].accessibility # states[id].accessibility)
              => last'.accessibilityDriven]_vars

\* While an override is active its speech rate changes only by update_override.
RateChangesAreExplicit ==
  [][\A id \in Ids :
        (states[id] # Absent /\ states[id].accessibility.active
           /\ states'[id].accessibility.rate # states[id].accessibility.rate)
        => last'.action = "update_override"]_vars

\* The abstract specification of who may do what to a stream.
Control == INSTANCE StreamControl WITH
  life     <- [id \in Ids |-> IF states[id] = Absent THEN "none" ELSE states[id].state],
  owner    <- [id \in Ids |-> IF states[id] = Absent THEN Absent ELSE states[id].owner],
  override <- [id \in Ids |-> states[id] # Absent /\ states[id].accessibility.active],
  by       <- IF last = Absent THEN Absent ELSE last.actor

\* The registrar implements it: lifecycle edges, ownership fixed at creation,
\* interrupts and stops by the owner or a user under an active override, and
\* overrides that end only by a user's hand.  Where the documents disagree about
\* interrupts (see TakeControl) this is what the code does, not what
\* docs/STATE_MODEL_REFERENCE.md:223-225 and :368-388 say.
ImplementsControl == Control!Spec

-----------------------------------------------------------------------------
(***************************************************************************)
(* What a document says of the registrar, and the code does not do.        *)
(***************************************************************************)

\* "Transfer to another agent | Must be current owner": a transfer its owner asks
\* for is granted (docs/STATE_MODEL_REFERENCE.md:122).
OwnersTransferGranted ==
  (last # Absent /\ last.decision = "denied" /\ last.action = "transfer") =>
     states[last.target].owner # last.actor
=============================================================================
