-------------------------- MODULE MCSynthesisQueue --------------------------
(***************************************************************************)
(* Small instances of SynthesisQueue for TLC.                              *)
(***************************************************************************)
EXTENDS SynthesisQueue, TLC

CONSTANTS j1, j2, j3

(* Two jobs of different priority, and one whose priority no thread reads. *)
ThreeJobs == {j1, j2, j3}
Priorities == j1 :> 0 @@ j2 :> 1 @@ j3 :> 2

(* Two threads and a limit of one: below this the limit never blocks.      *)
MinActive == -1

Memory(js, n) == [backend |-> "memory", jobs |-> js, trouble |-> n]
Redis(js, n) == [backend |-> "redis", jobs |-> js, trouble |-> n]
Systems == {Memory({j1, j2}, 1), Memory({j3}, 0), Redis({j1}, 1), Redis({j3}, 1), Redis({j1, j2}, 0)}
OneJob == {Memory({j1}, 1)}
=============================================================================
