---------------------------- MODULE MCRegistrar ----------------------------
(***************************************************************************)
(* Small instances of Registrar for TLC.                                   *)
(***************************************************************************)
EXTENDS Registrar, TLC

\* "last" is written by every request and read by none: two states that differ
\* only there have the same future, so TLC explores one of them.  The properties
\* that speak of last are action properties, checked on every step TLC takes.
WithoutLast == <<states, registry, orderIndex, replayed>>

\* The names, the agents and the users are interchangeable.
Symmetric == Permutations(Names) \cup Permutations(Agents)
=============================================================================
