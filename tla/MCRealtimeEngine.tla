-------------------------- MODULE MCRealtimeEngine --------------------------
(***************************************************************************)
(* Small instances of RealtimeEngine for TLC.                              *)
(***************************************************************************)
EXTENDS RealtimeEngine, TLC

CONSTANTS s1, s2, r1, r2, r3, now

(* Two requests to one session, the second more urgent and of one chunk as *)
(* long as the ring; one to another session, longer than the ring; and one *)
(* speak_immediate, longer too.                                            *)
Texts == {r1, r2, r3, now}
Session == r1 :> s1 @@ r2 :> s1 @@ r3 :> s2 @@ now :> Direct
Priority == r1 :> 0 @@ r2 :> 1 @@ r3 :> 0 @@ now :> 0

Counts == r1 :> 2 @@ r2 :> 1 @@ r3 :> 1 @@ now :> 1
Lengths == r1 :> 1 @@ r2 :> 2 @@ r3 :> 3 @@ now :> 3

With(rs, p, es) == [requests |-> rs, policy |-> p, interrupts |-> {s1}, events |-> es]
Systems == {With({r1, r2}, "block", {}), With({r1, r2}, "drop_oldest", {"stop"}),
            With({r1}, "block", {"stop", "clear"}),
            With({r1, now}, "drop_oldest", {"raise", "clear"}), With({r1, now}, "block", {}),
            With({r1, r3}, "drop_oldest", {}), With({r1, r3}, "block", {})}
OneRequest == {With({r1}, "drop_oldest", {})}
=============================================================================
