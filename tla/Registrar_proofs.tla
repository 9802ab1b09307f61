------------------------- MODULE Registrar_proofs -------------------------
(***************************************************************************)
(* Theorems about the registrar, for every set of streams, actors and      *)
(* override values.                                                        *)
(***************************************************************************)
EXTENDS Registrar, FiniteSetTheorems, TLAPS

States == [Ids -> AudioState \cup {Absent}]

\* The request a step of Next makes is well formed.
LEMMA RequestType ==
  ASSUME NEW action \in TransitionAction, NEW actor \in Actors,
         NEW target \in Nameable, NEW m \in MetadataFor(action, target)
  PROVE  [action |-> action, actor |-> actor, target |-> target, metadata |-> m]
           \in TransitionRequest
<1>1. m \in Metadata
  BY DEF MetadataFor, Metadata
<1>2. target \in Ids \cup {NoTarget}
  BY IdAssumption DEF Nameable, Ids
<1> QED
  BY <1>1, <1>2 DEF TransitionRequest

\* Every step is one of a well-formed request, and names its target if all must.
LEMMA StepRequest ==
  ASSUME Next
  PROVE  \E r \in TransitionRequest :
            Request(r) /\ (NoTarget \notin Targets => r.target # NoTarget)
<1>1. PICK action \in TransitionAction, actor \in Actors, target \in Nameable :
         \E m \in MetadataFor(action, target) :
            Request([action |-> action, actor |-> actor, target |-> target, metadata |-> m])
  BY DEF Next
<1>2. PICK m \in MetadataFor(action, target) :
         Request([action |-> action, actor |-> actor, target |-> target, metadata |-> m])
  BY <1>1
<1> DEFINE r == [action |-> action, actor |-> actor, target |-> target, metadata |-> m]
<1>3. r \in TransitionRequest
  BY RequestType
<1>4. NoTarget \notin Targets => target # NoTarget
  BY IdAssumption DEF Nameable
<1>5. r.target = target
  OBVIOUS
<1> QED
  BY <1>2, <1>3, <1>4, <1>5

\* A known stream has a state, whose parts are typed.
LEMMA KnownType ==
  ASSUME NEW r \in TransitionRequest, NEW st \in States, Known(r, st)
  PROVE  /\ r.target \in Ids
         /\ st[r.target] \in AudioState
BY DEF TransitionRequest, States, Known

LEMMA NewStateType ==
  ASSUME NEW action \in TransitionAction, NEW current \in StreamState
  PROVE  NewState(action, current) \in StreamState
BY DEF NewState, StreamState

LEMMA NewAccessibilityType ==
  ASSUME NEW action \in TransitionAction, NEW current \in AccessibilityState,
         NEW m \in Metadata
  PROVE  NewAccessibility(action, current, m) \in AccessibilityState
<1>1. CASE action \in {"enable_override", "update_override"}
  BY <1>1 DEF NewAccessibility, AccessibilityState, Metadata, Given
<1>2. CASE action = "disable_override"
  BY <1>2 DEF NewAccessibility, AccessibilityState
<1>3. CASE action \notin {"enable_override", "update_override", "disable_override"}
  BY <1>3 DEF NewAccessibility
<1> QED
  BY <1>1, <1>2, <1>3

\* The proposed state is an audio state: of a new stream or of a known one.
LEMMA ProposedType ==
  ASSUME NEW r \in TransitionRequest, NEW st \in States
  PROVE  Proposed(r, st) \in AudioState
<1> USE DEF TransitionRequest
<1>1. CASE Known(r, st)
  <2> DEFINE current == st[r.target]
  <2>1. r.target \in Ids /\ current \in AudioState
    BY <1>1, KnownType
  <2>2. NewState(r.action, current.state) \in StreamState
    BY <2>1, NewStateType DEF AudioState
  <2>3. NewAccessibility(r.action, current.accessibility, r.metadata) \in AccessibilityState
    BY <2>1, NewAccessibilityType DEF AudioState
  <2>4. current.version + 1 \in Nat \ {0}
    BY <2>1 DEF AudioState
  <2> QED
    BY <1>1, <2>1, <2>2, <2>3, <2>4 DEF Proposed, NextStream, NewStream, AudioState
<1>2. CASE ~Known(r, st)
  <2>1. NewState(r.action, "idle") \in StreamState
    BY NewStateType DEF StreamState
  <2>2. NoOverride \in AccessibilityState
    BY DEF NoOverride, AccessibilityState
  <2> QED
    BY <1>2, <2>1, <2>2 DEF Proposed, NextStream, NewStream, AudioState
<1> QED
  BY <1>1, <1>2

LEMMA RegisteredType ==
  ASSUME NEW r \in TransitionRequest, NEW st \in States, NEW order \in Nat
  PROVE  Registered(r, st, order) \in Entry
<1>1. Known(r, st) => r.target \in Ids
  BY KnownType
<1> QED
  BY <1>1, ProposedType DEF Registered, Entry

\* The ids a request lands on are ids.
LEMMA LandsOnType ==
  ASSUME NEW r \in TransitionRequest, NEW id \in LandsOn(r)
  PROVE  id \in Ids
BY DEF LandsOn, TransitionRequest, Ids

LEMMA OutcomeType ==
  ASSUME NEW r \in TransitionRequest, NEW decision \in Decision, NEW driven \in BOOLEAN
  PROVE  Outcome(r, decision, driven) \in Attestation
BY DEF Outcome, Attestation, TransitionRequest

LEMMA DrivenType ==
  ASSUME NEW r \in TransitionRequest, NEW st
  PROVE  AccessibilityDriven(r, st) \in BOOLEAN
BY DEF AccessibilityDriven

-----------------------------------------------------------------------------
\* A registrar that registers a transition stays a registrar.
LEMMA RegisterKeepsType ==
  ASSUME NEW R \in RegistrarType, NEW r \in TransitionRequest, NEW id \in Ids
  PROVE  [states     |-> [R.states EXCEPT ![id] = Proposed(r, R.states)],
          registry   |-> [R.registry EXCEPT ![id] = Registered(r, R.states, R.orderIndex)],
          orderIndex |-> R.orderIndex + 1] \in RegistrarType
<1>1. R.states \in States /\ R.registry \in [Ids -> Entry \cup {Absent}] /\ R.orderIndex \in Nat
  BY DEF RegistrarType, States
<1>2. Proposed(r, R.states) \in AudioState
  BY <1>1, ProposedType
<1>3. Registered(r, R.states, R.orderIndex) \in Entry
  BY <1>1, RegisteredType
<1>4. [R.states EXCEPT ![id] = Proposed(r, R.states)] \in States
  BY <1>1, <1>2 DEF States
<1>5. [R.registry EXCEPT ![id] = Registered(r, R.states, R.orderIndex)]
        \in [Ids -> Entry \cup {Absent}]
  BY <1>1, <1>3
<1> QED
  BY <1>1, <1>4, <1>5 DEF RegistrarType, States

\* So does a replay of one more attestation.
LEMMA ReplayKeepsType ==
  ASSUME replayed \in RegistrarType, NEW r \in TransitionRequest, NEW id \in Ids,
         Replay(r, id)
  PROVE  replayed' \in RegistrarType
BY RegisterKeepsType DEF Replay, Replayed

LEMMA InitType == Init => TypeOK
BY DEF Init, TypeOK, Live, RegistrarType

LEMMA NextType == TypeOK /\ [Next]_vars => TypeOK'
<1> SUFFICES ASSUME TypeOK, [Next]_vars PROVE TypeOK'
  OBVIOUS
<1>1. CASE UNCHANGED vars
  BY <1>1 DEF vars, TypeOK, Live
<1>2. ASSUME NEW r \in TransitionRequest, Request(r) PROVE TypeOK'
  <2>1. ASSUME NEW id \in LandsOn(r), NEW replayId \in LandsOn(r), Accept(r, id, replayId)
        PROVE  TypeOK'
    <3>1. id \in Ids /\ replayId \in Ids
      BY LandsOnType
    <3>2. Live' = [states     |-> [Live.states EXCEPT ![id] = Proposed(r, Live.states)],
                   registry   |-> [Live.registry EXCEPT
                                     ![id] = Registered(r, Live.states, Live.orderIndex)],
                   orderIndex |-> Live.orderIndex + 1]
      BY <2>1 DEF Accept, Live
    <3>3. Live' \in RegistrarType
      BY <3>1, <3>2, RegisterKeepsType DEF TypeOK
    <3>4. replayed' \in RegistrarType
      BY <2>1, <3>1, ReplayKeepsType DEF TypeOK, Accept
    <3>5. last' \in Attestation
      BY <2>1, OutcomeType, DrivenType DEF Accept, Decision
    <3> QED
      BY <3>3, <3>4, <3>5 DEF TypeOK
  <2>2. ASSUME Deny(r) PROVE TypeOK'
    <3>1. last' \in Attestation
      BY <2>2, OutcomeType, DrivenType DEF Deny, Decision
    <3> QED
      BY <2>2, <3>1 DEF Deny, TypeOK, Live
  <2>3. ASSUME Raise(r) PROVE TypeOK'
    <3>1. last' \in Attestation
      BY <2>3, OutcomeType DEF Raise, Decision
    <3> QED
      BY <2>3, <3>1 DEF Raise, TypeOK, Live
  <2>4. ASSUME Observe(r) PROVE TypeOK'
    <3>1. last' \in Attestation
      BY <2>4, OutcomeType DEF Observe, Decision
    <3> QED
      BY <2>4, <3>1 DEF Observe, TypeOK, Live
  <2> QED
    BY <1>2, <2>1, <2>2, <2>3, <2>4 DEF Request
<1> QED
  BY <1>1, <1>2, StepRequest

\* The live registrar, the replayed one and the newest attestation are well formed
\* in every reachable state.
THEOREM TypeCorrect == Spec => []TypeOK
<1>1. Init => TypeOK
  BY InitType
<1>2. TypeOK /\ [Next]_vars => TypeOK'
  BY NextType
<1> QED
  BY <1>1, <1>2, PTL DEF Spec

-----------------------------------------------------------------------------
\* AudioRegistrar._states and the bridge's _registry hold the same streams in the
\* same states, so the bridge's parent_exists check never denies on its own.
THEOREM RegistryAgreement == Spec => []RegistryAgrees
<1>1. Init => RegistryAgrees
  BY DEF Init, RegistryAgrees
<1>2. TypeOK /\ RegistryAgrees /\ [Next]_vars => RegistryAgrees'
  <2> SUFFICES ASSUME TypeOK, RegistryAgrees, [Next]_vars PROVE RegistryAgrees'
    OBVIOUS
  <2>1. CASE UNCHANGED vars
    BY <2>1 DEF vars, RegistryAgrees
  <2>2. ASSUME NEW r \in TransitionRequest, NEW id \in LandsOn(r),
               NEW replayId \in LandsOn(r), Accept(r, id, replayId)
        PROVE  RegistryAgrees'
    <3>1. states \in States /\ registry \in [Ids -> Entry \cup {Absent}] /\ orderIndex \in Nat
      BY DEF TypeOK, Live, RegistrarType, States
    <3>2. Proposed(r, states) # Absent /\ Registered(r, states, orderIndex) # Absent
      BY <3>1, ProposedType, RegisteredType, AbsentAssumption
    <3>3. Registered(r, states, orderIndex).audio = Proposed(r, states)
      BY DEF Registered
    <3>4. /\ states' = [states EXCEPT ![id] = Proposed(r, states)]
          /\ registry' = [registry EXCEPT ![id] = Registered(r, states, orderIndex)]
      BY <2>2 DEF Accept
    <3> QED
      BY <3>1, <3>2, <3>3, <3>4 DEF RegistryAgrees, States
  <2>3. ASSUME NEW r, Deny(r) \/ Raise(r) \/ Observe(r) PROVE RegistryAgrees'
    BY <2>3 DEF Deny, Raise, Observe, RegistryAgrees
  <2> QED
    BY <2>1, <2>2, <2>3, StepRequest DEF Request
<1> QED
  BY <1>1, <1>2, TypeCorrect, PTL DEF Spec

-----------------------------------------------------------------------------
\* A transition registered under a fresh index leaves the registry ordered: the other
\* streams keep indexes below the one this stream now has.
LEMMA AcceptKeepsOrder ==
  ASSUME TypeOK, OrderGapFree, NEW r \in TransitionRequest, NEW id \in LandsOn(r),
         NEW replayId \in LandsOn(r), Accept(r, id, replayId)
  PROVE  OrderGapFree'
<1> DEFINE new == Registered(r, states, orderIndex)
           live == {i \in Ids : registry[i] # Absent}
<1>1. /\ states \in States /\ registry \in [Ids -> Entry \cup {Absent}]
      /\ orderIndex \in Nat /\ id \in Ids
  BY LandsOnType DEF TypeOK, Live, RegistrarType, States
<1>2. new # Absent /\ new.order = orderIndex
  BY <1>1, RegisteredType, AbsentAssumption DEF Registered
<1>3. registry' = [registry EXCEPT ![id] = new] /\ orderIndex' = orderIndex + 1
  BY DEF Accept
<1>4. /\ registry'[id] = new
      /\ \A i \in Ids \ {id} : registry'[i] = registry[i]
  BY <1>1, <1>3
<1>5. \A i \in live : registry[i].order \in Nat /\ registry[i].order < orderIndex
  BY <1>1 DEF OrderGapFree, Entry
<1>6. \A i \in Ids \ {id} : registry'[i] # Absent =>
         registry'[i].order \in Nat /\ registry'[i].order < orderIndex
  BY <1>4, <1>5
<1> DEFINE after == {i \in Ids : registry'[i] # Absent}
<1> HIDE DEF new
<1>7. \A i \in after : registry'[i].order < orderIndex'
  BY <1>1, <1>2, <1>3, <1>4, <1>6
<1>8. ASSUME NEW i \in after, NEW j \in after, registry'[i].order = registry'[j].order
      PROVE  i = j
  <2>1. CASE i = id \/ j = id
    BY <1>1, <1>2, <1>4, <1>6, <1>8, <2>1
  <2>2. CASE i # id /\ j # id
    BY <1>4, <1>8, <2>2 DEF OrderGapFree
  <2> QED
    BY <2>1, <2>2
<1>9. id \in after /\ registry'[id].order = orderIndex' - 1
  BY <1>1, <1>2, <1>3, <1>4
<1> QED
  BY <1>7, <1>8, <1>9 DEF OrderGapFree

\* The order indexes of the accepted transitions are total, monotonic and gap free: no
\* two streams share one, all lie below the next one, and the newest one is in use.
THEOREM OrderIsGapFree == Spec => []OrderGapFree
<1>1. Init => OrderGapFree
  BY DEF Init, OrderGapFree
<1>2. TypeOK /\ OrderGapFree /\ [Next]_vars => OrderGapFree'
  <2> SUFFICES ASSUME TypeOK, OrderGapFree, [Next]_vars PROVE OrderGapFree'
    OBVIOUS
  <2>1. CASE UNCHANGED vars
    BY <2>1 DEF vars, OrderGapFree
  <2>2. ASSUME NEW r, Deny(r) \/ Raise(r) \/ Observe(r) PROVE OrderGapFree'
    BY <2>2 DEF Deny, Raise, Observe, OrderGapFree
  <2> QED
    BY <2>1, <2>2, AcceptKeepsOrder, StepRequest DEF Request
<1> QED
  BY <1>1, <1>2, TypeCorrect, PTL DEF Spec

\* An order index is spent on one version of one stream.
SpendsOneIndex ==
  /\ orderIndex' = orderIndex + 1
  /\ \E id \in Ids : /\ Versions(id)' = Versions(id) + 1
                     /\ \A other \in Ids \ {id} : Versions(other)' = Versions(other)

LEMMA AcceptSpendsOneIndex ==
  ASSUME TypeOK, NEW r \in TransitionRequest, NEW id \in LandsOn(r),
         NEW replayId \in LandsOn(r), Accept(r, id, replayId)
  PROVE  SpendsOneIndex
<1> DEFINE new == Proposed(r, states)
<1>1. states \in States /\ id \in Ids
  BY LandsOnType DEF TypeOK, Live, RegistrarType, States
<1>2. new \in AudioState /\ new # Absent
  BY <1>1, ProposedType, AbsentAssumption
<1>3. new.version = Versions(id) + 1
  <2>1. CASE Known(r, states)
    <3>1. id = r.target /\ states[id] # Absent
      BY <2>1 DEF Known, LandsOn
    <3> QED
      BY <2>1, <3>1 DEF Proposed, NextStream, Versions
  <2>2. CASE ~Known(r, states)
    <3>1. states[id] = Absent
      BY <2>2 DEF Known, LandsOn
    <3> QED
      BY <2>2, <3>1 DEF Proposed, NewStream, Versions
  <2> QED
    BY <2>1, <2>2
<1>4. states' = [states EXCEPT ![id] = new] /\ orderIndex' = orderIndex + 1
  BY DEF Accept
<1> HIDE DEF new
<1>5. states'[id] = new /\ \A other \in Ids \ {id} : states'[other] = states[other]
  BY <1>1, <1>4 DEF States
<1>6. Versions(id)' = Versions(id) + 1
  BY <1>2, <1>3, <1>5 DEF Versions
<1>7. \A other \in Ids \ {id} : Versions(other)' = Versions(other)
  BY <1>5 DEF Versions
<1> QED
  BY <1>1, <1>4, <1>6, <1>7 DEF SpendsOneIndex

\* Every step spends one order index on one version of one stream, or spends none and
\* leaves every stream: so the versions of the streams add up to the order index.
THEOREM IndexesAreVersions ==
  Spec => [][SpendsOneIndex \/ UNCHANGED <<states, orderIndex>>]_vars
<1>1. TypeOK /\ [Next]_vars => [SpendsOneIndex \/ UNCHANGED <<states, orderIndex>>]_vars
  <2> SUFFICES ASSUME TypeOK, Next
               PROVE  SpendsOneIndex \/ UNCHANGED <<states, orderIndex>>
    OBVIOUS
  <2>1. ASSUME NEW r, Deny(r) \/ Raise(r) \/ Observe(r)
        PROVE  UNCHANGED <<states, orderIndex>>
    BY <2>1 DEF Deny, Raise, Observe
  <2> QED
    BY <2>1, AcceptSpendsOneIndex, StepRequest DEF Request
<1> QED
  BY <1>1, TypeCorrect, PTL DEF Spec

\* The versions of all streams are as many as the order indexes that were spent, also
\* when Ids is infinite: finitely many of them exist.
VersionsCounted ==
  IsFiniteSet(VersionsOfStreams) /\ orderIndex = Cardinality(VersionsOfStreams)

LEMMA SpendingCounts ==
  ASSUME TypeOK, VersionsCounted, SpendsOneIndex
  PROVE  VersionsCounted'
<1>1. PICK id \in Ids : /\ Versions(id)' = Versions(id) + 1
                        /\ \A other \in Ids \ {id} : Versions(other)' = Versions(other)
  BY DEF SpendsOneIndex
<1> DEFINE new == <<id, Versions(id) + 1>>
<1>2. Versions(id) \in Nat
  <2>1. states[id] # Absent => states[id].version \in Nat
    BY DEF TypeOK, Live, RegistrarType, AudioState
  <2> QED BY <2>1 DEF Versions
<1>3. VersionsOfStreams' = VersionsOfStreams \cup {new}
  <2> DEFINE Of(i)  == {<<i, n>> : n \in 1..Versions(i)}
             Now(i) == {<<i, n>> : n \in 1..Versions(i)'}
  <2>1. \A i \in Ids \ {id} : Now(i) = Of(i)
    BY <1>1
  <2>2. Now(id) = Of(id) \cup {new}
    <3>1. 1..Versions(id)' = 1..Versions(id) \cup {Versions(id) + 1}
      BY <1>1, <1>2
    <3> QED BY <3>1
  <2>3. VersionsOfStreams = UNION {Of(i) : i \in Ids}
    BY DEF VersionsOfStreams
  <2>4. VersionsOfStreams' = UNION {Now(i) : i \in Ids}
    BY DEF VersionsOfStreams
  <2> HIDE DEF Of, Now, new
  <2> QED BY <2>1, <2>2, <2>3, <2>4
<1>4. new \notin VersionsOfStreams
  <2> SUFFICES ASSUME NEW i \in Ids, NEW n \in 1..Versions(i), new = <<i, n>> PROVE FALSE
    BY DEF VersionsOfStreams
  <2>1. i = id /\ n = Versions(id) + 1
    OBVIOUS
  <2> QED BY <1>2, <2>1
<1>5. /\ IsFiniteSet(VersionsOfStreams')
      /\ Cardinality(VersionsOfStreams') = Cardinality(VersionsOfStreams) + 1
  <2> HIDE DEF new
  <2> QED BY <1>3, <1>4, FS_AddElement DEF VersionsCounted
<1> QED BY <1>5 DEF VersionsCounted, SpendsOneIndex

\* The registrar's states are well formed, its order indexes are total and gap free, and
\* each was spent on one version of one stream: nothing else consumes one, and no version
\* appears without one.
THEOREM WellFormedKept == Spec => []WellFormed
<1>1. Init => VersionsCounted
  <2> SUFFICES ASSUME Init PROVE VersionsOfStreams = {} /\ orderIndex = 0
    BY FS_EmptySet DEF VersionsCounted
  <2>1. \A id \in Ids : Versions(id) = 0
    BY DEF Init, Versions
  <2>2. 1..0 = {}
    OBVIOUS
  <2> QED BY <2>1, <2>2 DEF Init, VersionsOfStreams
<1>2. TypeOK /\ VersionsCounted /\ [SpendsOneIndex \/ UNCHANGED <<states, orderIndex>>]_vars
        => VersionsCounted'
  <2> SUFFICES ASSUME TypeOK, VersionsCounted, UNCHANGED <<states, orderIndex>>
               PROVE  VersionsCounted'
    BY SpendingCounts DEF vars
  <2>1. VersionsOfStreams' = VersionsOfStreams
    BY DEF VersionsOfStreams, Versions
  <2> QED BY <2>1 DEF VersionsCounted
<1>3. TypeOK /\ OrderGapFree /\ VersionsCounted => WellFormed
  BY DEF VersionsCounted, WellFormed
<1> QED
  BY <1>1, <1>2, <1>3, TypeCorrect, OrderIsGapFree, IndexesAreVersions, PTL DEF Spec

\* When every request names its target, replaying the attestation log rebuilds the
\* registrar exactly, whatever was asked, by whom, and in whatever order.
THEOREM ReplayFidelity ==
  ASSUME NoTarget \notin Targets
  PROVE  Spec => []ReplayReconstructs
<1>1. Init => ReplayReconstructs
  BY DEF Init, ReplayReconstructs, Live
<1>2. ReplayReconstructs /\ [Next]_vars => ReplayReconstructs'
  <2> SUFFICES ASSUME ReplayReconstructs, [Next]_vars PROVE ReplayReconstructs'
    OBVIOUS
  <2>1. CASE UNCHANGED vars
    BY <2>1 DEF vars, ReplayReconstructs, Live
  <2>2. ASSUME NEW r, r.target # NoTarget,
               NEW id \in LandsOn(r), NEW replayId \in LandsOn(r), Accept(r, id, replayId)
        PROVE  ReplayReconstructs'
    <3>1. id = r.target /\ replayId = r.target
      BY <2>2 DEF LandsOn
    <3>2. /\ replayed.states = states
          /\ replayed.registry = registry
          /\ replayed.orderIndex = orderIndex
      BY DEF ReplayReconstructs, Live
    <3>3. ~RaisesValueError(r, states) /\ ~SilentDisable(r, states) /\ Allowed(r, states, registry)
      BY <2>2 DEF Accept
    <3> QED
      BY <2>2, <3>1, <3>2, <3>3 DEF Accept, Replay, Replayed, ReplayReconstructs, Live
  <2>3. ASSUME NEW r, Deny(r) \/ Raise(r) \/ Observe(r) PROVE ReplayReconstructs'
    BY <2>3 DEF Deny, Raise, Observe, ReplayReconstructs, Live
  <2> QED
    BY <2>1, <2>2, <2>3, StepRequest DEF Request
<1> QED
  BY <1>1, <1>2, PTL DEF Spec

-----------------------------------------------------------------------------
\* What a proposed state does with the override of a known stream.
LEMMA ProposedOverride ==
  ASSUME NEW r \in TransitionRequest, NEW st \in States, Known(r, st)
  PROVE  LET now == st[r.target].accessibility
             next == Proposed(r, st).accessibility IN
         /\ r.action = "enable_override" => next.active
         /\ r.action = "disable_override" => ~next.active
         /\ r.action \notin {"enable_override", "disable_override"} => next.active = now.active
         /\ r.action \notin AccessibilityActions => next = now
<1>1. st[r.target].accessibility.active \in BOOLEAN
  BY KnownType DEF AudioState, AccessibilityState
<1> QED
  BY <1>1 DEF Proposed, NextStream, NewStream, NewAccessibility, AccessibilityActions

\* The HALT of AccessibilitySupremacyInvariant cannot be reached through request().
LEMMA NeverSilent ==
  ASSUME NEW r \in TransitionRequest, NEW st \in States
  PROVE  ~SilentDisable(r, st)
BY ProposedOverride DEF SilentDisable

\* No request ever ends in AccessibilityBypassError.
THEOREM NoHalt == Spec => NoBypassHalt
<1>1. TypeOK /\ [Next]_vars => [last'.decision # "bypass_error"]_vars
  <2> SUFFICES ASSUME TypeOK, Next PROVE last'.decision # "bypass_error"
    BY DEF vars
  <2>1. states \in States
    BY DEF TypeOK, Live, RegistrarType, States
  <2>2. PICK r \in TransitionRequest : Request(r)
    BY StepRequest
  <2> QED
    BY <2>1, <2>2, NeverSilent DEF Request, Accept, Deny, Raise, Observe, Outcome
<1> QED
  BY <1>1, TypeCorrect, PTL DEF Spec, NoBypassHalt

\* A step that changes a stream is an accepted request on that stream.
LEMMA ChangeIsAccept ==
  ASSUME TypeOK, Next, NEW id \in Ids, states'[id] # states[id]
  PROVE  \E r \in TransitionRequest, replayId \in Ids :
            /\ Accept(r, id, replayId)
            /\ r.target \in {id, NoTarget}
            /\ states'[id] = Proposed(r, states)
            /\ states[id] # Absent => Known(r, states) /\ r.target = id
<1>1. PICK r \in TransitionRequest : Request(r)
  BY StepRequest
<1>2. PICK i \in LandsOn(r), replayId \in LandsOn(r) : Accept(r, i, replayId)
  BY <1>1 DEF Request, Deny, Raise, Observe
<1>3. states \in States
  BY DEF TypeOK, Live, RegistrarType, States
<1>4. i = id /\ states'[id] = Proposed(r, states)
  BY <1>2, <1>3, LandsOnType DEF Accept, States
<1>5. r.target \in {id, NoTarget} /\ (states[id] # Absent => r.target = id)
  BY <1>2, <1>4 DEF LandsOn
<1>6. r.target = id => r.target # NoTarget
  BY IdAssumption DEF Ids
<1>7. replayId \in Ids
  BY LandsOnType
<1> QED
  BY <1>2, <1>4, <1>5, <1>6, <1>7 DEF Known

\* Every change of a stream is the newest attestation's, and every change of its
\* accessibility state is attested as accessibility-driven.
THEOREM Attested == Spec => ChangesAreAttested
<1> DEFINE A(id) == states'[id] # states[id] =>
        /\ last'.decision = "allowed"
        /\ last'.target \in {id, NoTarget}
        /\ (states[id] # Absent /\ states'[id].accessibility # states[id].accessibility)
              => last'.accessibilityDriven
<1>1. TypeOK /\ [Next]_vars => [\A id \in Ids : A(id)]_vars
  <2> SUFFICES ASSUME TypeOK, Next, NEW id \in Ids, states'[id] # states[id]
               PROVE  A(id)
    BY DEF vars
  <2>1. PICK r \in TransitionRequest, replayId \in Ids :
            /\ Accept(r, id, replayId)
            /\ r.target \in {id, NoTarget}
            /\ states'[id] = Proposed(r, states)
            /\ states[id] # Absent => Known(r, states) /\ r.target = id
    BY ChangeIsAccept
  <2>2. last' = Outcome(r, "allowed", AccessibilityDriven(r, states))
    BY <2>1 DEF Accept
  <2>3. states[id] # Absent /\ states'[id].accessibility # states[id].accessibility
          => r.action \in AccessibilityActions
    BY <2>1 DEF Accept, Allowed, DomainInvariants, AccessibilityAuditable
  <2> QED
    BY <2>1, <2>2, <2>3 DEF Outcome, AccessibilityDriven
<1> QED
  BY <1>1, TypeCorrect, PTL DEF Spec, ChangesAreAttested

\* While an override is active its speech rate changes only by update_override.
THEOREM RateExplicit == Spec => RateChangesAreExplicit
<1> DEFINE A(id) == (states[id] # Absent /\ states[id].accessibility.active
                       /\ states'[id].accessibility.rate # states[id].accessibility.rate)
                    => last'.action = "update_override"
<1>1. TypeOK /\ [Next]_vars => [\A id \in Ids : A(id)]_vars
  <2> SUFFICES ASSUME TypeOK, Next, NEW id \in Ids,
                      states[id] # Absent, states[id].accessibility.active,
                      states'[id].accessibility.rate # states[id].accessibility.rate
               PROVE  last'.action = "update_override"
    BY DEF vars
  <2>1. PICK r \in TransitionRequest, replayId \in Ids :
            /\ Accept(r, id, replayId)
            /\ states'[id] = Proposed(r, states)
            /\ Known(r, states) /\ r.target = id
    BY ChangeIsAccept
  <2>2. last'.action = r.action
    BY <2>1 DEF Accept, Outcome
  <2>3. r.action \in {"update_override", "disable_override"}
    BY <2>1 DEF Accept, Allowed, DomainInvariants, AccessibilitySupremacy, RateChangeIsExplicit
  <2>4. r.action # "disable_override"
    BY <2>1 DEF Proposed, NextStream, NewStream, NewAccessibility
  <2> QED
    BY <2>2, <2>3, <2>4
<1> QED
  BY <1>1, TypeCorrect, PTL DEF Spec, RateChangesAreExplicit

-----------------------------------------------------------------------------
(***************************************************************************)
(* The registrar implements StreamControl.                                 *)
(***************************************************************************)
Life     == [id \in Ids |-> IF states[id] = Absent THEN "none" ELSE states[id].state]
Owner    == [id \in Ids |-> IF states[id] = Absent THEN Absent ELSE states[id].owner]
Override == [id \in Ids |-> states[id] # Absent /\ states[id].accessibility.active]
By       == IF last = Absent THEN Absent ELSE last.actor

\* What an accepted request does to the abstract state.
LEMMA AcceptMaps ==
  ASSUME TypeOK, NEW r \in TransitionRequest, NEW id \in LandsOn(r),
         NEW replayId \in LandsOn(r), Accept(r, id, replayId)
  PROVE  /\ id \in Ids
         /\ Life' = [Life EXCEPT ![id] = Proposed(r, states).state]
         /\ Owner' = [Owner EXCEPT ![id] = Proposed(r, states).owner]
         /\ Override' = [Override EXCEPT ![id] = Proposed(r, states).accessibility.active]
         /\ By' = r.actor
         /\ Known(r, states) => id = r.target
         /\ ~Known(r, states) => states[id] = Absent
<1>1. states \in States /\ id \in Ids
  BY LandsOnType DEF TypeOK, Live, RegistrarType, States
<1>2. states' = [states EXCEPT ![id] = Proposed(r, states)]
  BY DEF Accept
<1>3. Proposed(r, states) \in AudioState
  BY <1>1, ProposedType
<1>4. Proposed(r, states) # Absent
  BY <1>3, AbsentAssumption
<1>5. Proposed(r, states).accessibility.active \in BOOLEAN
  BY <1>3 DEF AudioState, AccessibilityState
<1>6. Life' = [Life EXCEPT ![id] = Proposed(r, states).state]
  BY <1>1, <1>2, <1>4 DEF Life, States
<1>7. Owner' = [Owner EXCEPT ![id] = Proposed(r, states).owner]
  BY <1>1, <1>2, <1>4 DEF Owner, States
<1>8. Override' = [Override EXCEPT ![id] = Proposed(r, states).accessibility.active]
  BY <1>1, <1>2, <1>4, <1>5 DEF Override, States
<1>9. By' = r.actor
  <2>1. last' \in Attestation
    BY OutcomeType, DrivenType DEF Accept, Decision
  <2>2. last' = Outcome(r, "allowed", AccessibilityDriven(r, states))
    BY DEF Accept
  <2> QED
    BY <2>1, <2>2, AbsentAssumption DEF By, Outcome
<1>10. Known(r, states) => id = r.target
  BY DEF Known, LandsOn
<1>11. ~Known(r, states) => states[id] = Absent
  BY DEF Known, LandsOn
<1> QED
  BY <1>1, <1>6, <1>7, <1>8, <1>9, <1>10, <1>11

\* A request that is not accepted has no effect on the abstract state.
LEMMA OtherMaps ==
  ASSUME NEW r \in TransitionRequest, Deny(r) \/ Raise(r) \/ Observe(r)
  PROVE  UNCHANGED <<Life, Owner, Override>> /\ By' = r.actor
<1>1. UNCHANGED states
  BY DEF Deny, Raise, Observe
<1>2. \E decision \in Decision, driven \in BOOLEAN : last' = Outcome(r, decision, driven)
  BY DrivenType DEF Deny, Raise, Observe, Decision
<1>3. last' \in Attestation /\ last'.actor = r.actor
  BY <1>2, OutcomeType DEF Outcome
<1> QED
  BY <1>1, <1>3, AbsentAssumption DEF Life, Owner, Override, By

\* A request on a known stream is one abstract step on it.
LEMMA KnownStep ==
  ASSUME TypeOK, NEW r \in TransitionRequest, NEW id \in LandsOn(r),
         NEW replayId \in LandsOn(r), Accept(r, id, replayId), Known(r, states)
  PROVE  \/ Control!NoEffect(r.actor)
         \/ Control!Advance(id, r.actor)
         \/ Control!TakeControl(id, r.actor)
         \/ Control!StartOverride(id, r.actor)
         \/ Control!EndOverride(id, r.actor)
<1> DEFINE now == states[id]
           next == Proposed(r, states)
<1>1. /\ id \in Ids /\ id = r.target /\ now \in AudioState /\ now # Absent
      /\ Life' = [Life EXCEPT ![id] = next.state]
      /\ Owner' = [Owner EXCEPT ![id] = next.owner]
      /\ Override' = [Override EXCEPT ![id] = next.accessibility.active]
      /\ By' = r.actor
  <2>1. states \in States
    BY DEF TypeOK, Live, RegistrarType, States
  <2>2. id = r.target
    BY AcceptMaps
  <2>3. now \in AudioState /\ now # Absent
    BY <2>1, <2>2, KnownType, AbsentAssumption
  <2> QED
    BY <2>2, <2>3, AcceptMaps
<1> USE DEF Life, Owner, Override, By
<1>2. Life[id] = now.state /\ Owner[id] = now.owner /\ Override[id] = now.accessibility.active
  BY <1>1, KnownType DEF AudioState, AccessibilityState
<1>3. next.owner = now.owner /\ UNCHANGED Owner
  <2>1. next.owner = now.owner
    BY <1>1 DEF Proposed, NextStream, NewStream
  <2> QED
    BY <1>1, <1>2, <2>1
<1>4. DomainInvariants(r, states)
  BY DEF Accept, Allowed
<1>5. states \in States
  BY DEF TypeOK, Live, RegistrarType, States
<1>6. r.action \notin AccessibilityActions => UNCHANGED Override
  <2> SUFFICES ASSUME r.action \notin AccessibilityActions PROVE UNCHANGED Override
    OBVIOUS
  <2>1. next.accessibility = now.accessibility
    BY <1>1, <1>5, ProposedOverride
  <2> QED
    BY <1>1, <1>2, <2>1
<1>7. r.action \in AccessibilityActions => UNCHANGED Life
  <2> SUFFICES ASSUME r.action \in AccessibilityActions PROVE UNCHANGED Life
    OBVIOUS
  <2>1. next.state = now.state
    BY <1>1 DEF Proposed, NextStream, NewStream, NewState, AccessibilityActions
  <2> QED
    BY <1>1, <1>2, <2>1
<1>8. CASE r.action \in {"interrupt", "stop"}
  <2>1. now.owner = r.actor \/ (now.accessibility.active /\ r.actor \in Users)
    BY <1>1, <1>4, <1>8 DEF DomainInvariants, OwnershipRequired
  <2>2. next.state \in ValidTransitions[now.state] /\ next.state \in {"interrupting", "stopped"}
    BY <1>1, <1>4, <1>8 DEF DomainInvariants, ValidTransition, AccessibilityActions,
                            Proposed, NextStream, NewStream, NewState
  <2>3. <<now.state, next.state>> \in Control!ControlEdges
    BY <1>1, <2>2 DEF AudioState, StreamState, ValidTransitions, Control!ControlEdges
  <2> QED
    BY <1>1, <1>2, <1>3, <1>6, <1>8, <2>1, <2>3 DEF Control!TakeControl, AccessibilityActions
<1>9. CASE r.action \notin {"interrupt", "stop"} \cup AccessibilityActions
  <2>1. next.state \in ValidTransitions[now.state]
    BY <1>1, <1>4, <1>9 DEF DomainInvariants, ValidTransition
  <2>2. next.state \in {"compiling", "synthesizing", "playing", "failed", "idle", now.state}
    BY <1>1, <1>9 DEF Proposed, NextStream, NewStream, NewState
  <2>3. <<now.state, next.state>> \in Control!FreeEdges
    BY <1>1, <2>1, <2>2 DEF AudioState, StreamState, ValidTransitions, Control!FreeEdges
  <2> QED
    BY <1>1, <1>2, <1>3, <1>6, <1>9, <2>3 DEF Control!Advance
<1>10. CASE r.action = "enable_override"
  BY <1>1, <1>2, <1>3, <1>5, <1>7, <1>10, ProposedOverride
     DEF Control!StartOverride, AccessibilityActions, AudioState, StreamState
<1>11. CASE r.action = "disable_override"
  <2>1. r.actor \in Users
    BY <1>4, <1>11 DEF DomainInvariants, AccessibilitySupremacy, OnlyUsersDisable
  <2>2. next.accessibility.active = FALSE
    BY <1>5, <1>11, ProposedOverride DEF Proposed, NextStream, NewStream, NewAccessibility
  <2> QED
    BY <1>1, <1>3, <1>7, <1>11, <2>1, <2>2 DEF Control!EndOverride, AccessibilityActions
<1>12. CASE r.action = "update_override"
  <2>1. next.accessibility.active = now.accessibility.active
    BY <1>1, <1>5, <1>12, ProposedOverride
  <2> QED
    BY <1>1, <1>2, <1>3, <1>7, <1>12, <2>1 DEF Control!NoEffect, AccessibilityActions
<1> QED
  BY <1>8, <1>9, <1>10, <1>11, <1>12 DEF AccessibilityActions

\* A request on an unknown stream creates it.
LEMMA UnknownStep ==
  ASSUME TypeOK, NEW r \in TransitionRequest, NEW id \in LandsOn(r),
         NEW replayId \in LandsOn(r), Accept(r, id, replayId), ~Known(r, states)
  PROVE  Control!Create(id, r.actor)
<1> DEFINE next == Proposed(r, states)
<1> USE DEF Life, Owner, Override, By
<1>1. /\ id \in Ids /\ states[id] = Absent
      /\ Life' = [Life EXCEPT ![id] = next.state]
      /\ Owner' = [Owner EXCEPT ![id] = next.owner]
      /\ Override' = [Override EXCEPT ![id] = next.accessibility.active]
      /\ By' = r.actor
  BY AcceptMaps
<1>2. next.owner = r.actor /\ next.accessibility.active = FALSE
  BY DEF Proposed, NextStream, NewStream, NoOverride
<1>3. next.state \in {"idle", "compiling"}
  <2>1. DomainInvariants(r, states)
    BY DEF Accept, Allowed
  <2> QED
    BY <2>1 DEF DomainInvariants, ValidTransition, Proposed, NextStream, NewStream, NewState, AccessibilityActions
<1> QED
  BY <1>1, <1>2, <1>3 DEF Control!Create

\* The registrar implements the abstract specification of stream control.
THEOREM Implementation == Spec => ImplementsControl
<1>1. Init => Control!Init
  BY DEF Init, Control!Init
<1>2. TypeOK /\ [Next]_vars => [Control!Next]_(Control!vars)
  <2> SUFFICES ASSUME TypeOK, [Next]_vars PROVE [Control!Next]_(Control!vars)
    OBVIOUS
  <2>1. CASE UNCHANGED vars
    BY <2>1 DEF vars, Control!vars
  <2>2. CASE Next
    <3>1. PICK r \in TransitionRequest : Request(r)
      BY <2>2, StepRequest
    <3>2. r.actor \in Users \cup Agents
      BY DEF TransitionRequest, Actors
    <3>3. ASSUME NEW id \in LandsOn(r), NEW replayId \in LandsOn(r), Accept(r, id, replayId)
          PROVE  Control!Next
      <4>1. id \in Ids
        BY LandsOnType
      <4> QED
        BY <3>2, <3>3, <4>1, KnownStep, UnknownStep DEF Control!Next
    <3>4. CASE Deny(r) \/ Raise(r) \/ Observe(r)
      BY <3>2, <3>4, OtherMaps DEF Control!Next, Control!NoEffect, Life, Owner, Override, By
    <3> QED
      BY <3>1, <3>3, <3>4 DEF Request
  <2> QED
    BY <2>1, <2>2
<1> QED
  BY <1>1, <1>2, TypeCorrect, PTL DEF Spec, ImplementsControl, Control!Spec
=============================================================================
