---------------------------- MODULE MCMcpServer -----------------------------
(***************************************************************************)
(* The Python MCP server and what guards it: the server with its sessions  *)
(* and streams, the interrupt handler, the policy's limits, the secrets    *)
(* and the sandbox of plugins, and small values of their constants for     *)
(* TLC. The code does not call the others from the first: a behaviour of   *)
(* this module is a behaviour of one of them, and the others stay in their *)
(* initial state.                                                          *)
(***************************************************************************)
EXTENDS McpServer, McpGuards, SecretsAndSandbox

\* The default policy, and one agent that may only interrupt.
SmallPolicy ==
  [a1 |-> [deny |-> {}, allowAll |-> TRUE, allow |-> {}, capable |-> Tools \ {"absent"}],
   a2 |-> [deny |-> {"speak"}, allowAll |-> FALSE, allow |-> {"interrupt", "speak"},
           capable |-> {}]]

\* The limits of the default policy, and those of one that is set for the agent later.
AgentPolicies ==
  [default |-> [tools |-> {"speak"}, voices |-> {"v", "w"}, backends |-> {"k", "openai"},
                external |-> TRUE, text |-> 2, requests |-> 2, chars |-> 3, streams |-> 2],
   agent   |-> [tools |-> {"speak"}, voices |-> {"v"}, backends |-> {"k", "openai"},
                external |-> FALSE, text |-> 1, requests |-> 1, chars |-> 2, streams |-> 1]]
SomeRequests == {[tool |-> "speak", length |-> 1, voice |-> "w", backend |-> ""],
                 [tool |-> "speak", length |-> 2, voice |-> "w", backend |-> "openai"]}

VARIABLE part  \* the component this behaviour is of

hostVars == <<part, vars, interruptVars, policyVars, secretVars, sandboxVars>>

Parts == {"server", "interrupts", "policy", "secrets", "sandbox"}

HostInit ==
  part \in Parts /\ Init /\ InterruptInit /\ PolicyInit /\ SecretInit /\ SandboxInit

HostNext ==
  /\ UNCHANGED part
  /\ \/ /\ part = "server" /\ Next
        /\ UNCHANGED <<interruptVars, policyVars, secretVars, sandboxVars>>
     \/ /\ part = "interrupts" /\ InterruptNext
        /\ UNCHANGED <<vars, policyVars, secretVars, sandboxVars>>
     \/ /\ part = "policy" /\ PolicyNext
        /\ UNCHANGED <<vars, interruptVars, secretVars, sandboxVars>>
     \/ /\ part = "secrets" /\ SecretNext
        /\ UNCHANGED <<vars, interruptVars, policyVars, sandboxVars>>
     \/ /\ part = "sandbox" /\ SandboxNext
        /\ UNCHANGED <<vars, interruptVars, policyVars, secretVars>>

HostSpec == HostInit /\ [][HostNext]_hostVars /\ Fairness

-----------------------------------------------------------------------------
\* Type invariant of the server and of every other component.
WellTyped == TypeOK /\ InterruptTypeOK /\ PolicyTypeOK /\ SecretTypeOK /\ SandboxTypeOK

\* sessions.py, interrupts.py: an agent's sessions are those the index gives it, and the
\* rollback points of a stream are in order and within what may be taken back.
\* secrets.py, sandbox.py: a secret that was set or deleted is answered so at once, unless a
\* lookup of another thread was overtaken; a run in the sandbox that no other overlaps measures
\* its own time, and its context and its monitor go with it.
RecordsAgree ==
  /\ SessionsIndexed /\ PointsInOrder
  /\ CacheFollowsWrites
  /\ OutcomeIsOwn /\ ContextsOfRuns

\* server.py, sessions.py, policy.py: permits come back however a call ends; a session has
\* no more streams than it may; the calls of a minute
\* and the streams at a time exceed the limits they were checked under by those that overlap,
\* and no more, also when the agent's policy is replaced; what works was granted by one policy.
LimitsKept ==
  PermitsAccounted /\ StreamsLimited /\ MinuteBound /\ StreamsCounted /\ GrantedByOne
=============================================================================
