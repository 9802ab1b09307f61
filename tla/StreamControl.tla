--------------------------- MODULE StreamControl ---------------------------
(***************************************************************************)
(* What the registrar promises to the agents that share audio streams:     *)
(* the life of a stream, who owns it, whether an accessibility override is *)
(* active on it, and who may change which of the three.                    *)
(***************************************************************************)
CONSTANTS
  Ids,      \* stream ids
  Users,    \* actors that may act under an accessibility override
  Agents,   \* every other actor
  Absent    \* no owner, no actor

VARIABLES
  life,      \* of each stream: "none" until it is created
  owner,     \* of each stream: fixed when it is created
  override,  \* of each stream: is an accessibility override active
  by         \* who asked for the newest step

vars == <<life, owner, override, by>>

\* Edges anyone may take, and edges that take control of the stream.
FreeEdges ==
  {<<"idle", "compiling">>, <<"compiling", "synthesizing">>,
   <<"synthesizing", "playing">>, <<"stopped", "idle">>, <<"failed", "idle">>}
    \cup {<<from, "failed">> : from \in {"idle", "compiling", "synthesizing",
                                        "playing", "interrupting"}}
ControlEdges ==
  {<<"playing", "interrupting">>, <<"playing", "stopped">>, <<"interrupting", "stopped">>}

Init ==
  /\ life = [id \in Ids |-> "none"]
  /\ owner = [id \in Ids |-> Absent]
  /\ override = [id \in Ids |-> FALSE]
  /\ by = Absent

\* Whoever creates a stream owns it for good.
Create(id, actor) ==
  /\ life[id] = "none"
  /\ \E first \in {"idle", "compiling"} : life' = [life EXCEPT ![id] = first]
  /\ owner' = [owner EXCEPT ![id] = actor]
  /\ by' = actor
  /\ UNCHANGED override

Advance(id, actor) ==
  /\ \E edge \in FreeEdges :
       edge[1] = life[id] /\ life' = [life EXCEPT ![id] = edge[2]]
  /\ by' = actor
  /\ UNCHANGED <<owner, override>>

\* An interrupt or a stop: by the owner, or by a user under an active override.  This
\* is the code's rule, and docs/ROADMAP_v2.8.md:155's ("override blocks agent
\* interrupt").  docs/STATE_MODEL_REFERENCE.md:223-225, :368-388 has another: anyone
\* under an active override, and anyone when the stream is interruptible.
TakeControl(id, actor) ==
  /\ owner[id] = actor \/ (override[id] /\ actor \in Users)
  /\ \E edge \in ControlEdges :
       edge[1] = life[id] /\ life' = [life EXCEPT ![id] = edge[2]]
  /\ by' = actor
  /\ UNCHANGED <<owner, override>>

StartOverride(id, actor) ==
  /\ life[id] # "none"
  /\ override' = [override EXCEPT ![id] = TRUE]
  /\ by' = actor
  /\ UNCHANGED <<life, owner>>

\* Only a user ends an override.
EndOverride(id, actor) ==
  /\ actor \in Users
  /\ override' = [override EXCEPT ![id] = FALSE]
  /\ by' = actor
  /\ UNCHANGED <<life, owner>>

\* A request that is denied, fails, is only observed, or changes nothing here.
NoEffect(actor) == by' = actor /\ UNCHANGED <<life, owner, override>>

Next ==
  \E actor \in Users \cup Agents :
    \/ NoEffect(actor)
    \/ \E id \in Ids :
         \/ Create(id, actor)
         \/ Advance(id, actor)
         \/ TakeControl(id, actor)
         \/ StartOverride(id, actor)
         \/ EndOverride(id, actor)

Spec == Init /\ [][Next]_vars
=============================================================================
