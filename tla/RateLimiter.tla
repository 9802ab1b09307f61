---------------------------- MODULE RateLimiter ----------------------------
(***************************************************************************)
(* The sliding-window limiter of one tool (mcp-server/src/rateLimit.ts):   *)
(* a bucket of the times of admitted calls, pruned at each call.           *)
(*                                                                         *)
(* The bucket forgets; admitted, a history variable, does not.  Time is    *)
(* Date.now(), taken not to be set back between two calls.                 *)
(***************************************************************************)
EXTENDS Integers, Sequences

CONSTANTS
  MaxCalls,   \* config.maxCalls
  WindowMs,   \* config.windowMs
  MaxTime,    \* bound: the last time of the clock
  MaxHistory  \* bound: calls admitted

ASSUME MaxCallsAssumption == MaxCalls \in Nat \ {0}
ASSUME WindowAssumption == WindowMs \in Nat
ASSUME BoundsAssumption == MaxTime \in Nat /\ MaxHistory \in Nat

VARIABLES
  now,         \* Date.now()
  timestamps,  \* this.buckets.get(toolName)
  admitted,    \* times of all the calls ever admitted
  refused      \* was the last call refused

vars == <<now, timestamps, admitted, refused>>

\* Mutant: an entry expires one tick late.
Expired_Late(k) ==
  /\ k \in 0..Len(timestamps)
  /\ \A i \in 1..k : timestamps[i] < now - WindowMs
  /\ k < Len(timestamps) => timestamps[k + 1] >= now - WindowMs

\* Mutant: an entry expires one tick early.
Expired_Early(k) ==
  /\ k \in 0..Len(timestamps)
  /\ \A i \in 1..k : timestamps[i] <= now - WindowMs + 1
  /\ k < Len(timestamps) => timestamps[k + 1] > now - WindowMs + 1

\* The first k entries of the bucket have expired, and no more.
Expired(k) ==
  /\ k \in 0..Len(timestamps)
  /\ \A i \in 1..k : timestamps[i] <= now - WindowMs
  /\ k < Len(timestamps) => timestamps[k + 1] > now - WindowMs

\* The bucket without its first k entries.
Rest(k) == SubSeq(timestamps, k + 1, Len(timestamps))

\* Mutant: refused calls count too.
Refuse_Records ==
  \E k \in 0..Len(timestamps) :
    /\ Expired(k)
    /\ Len(timestamps) - k >= MaxCalls
    /\ timestamps' = Append(Rest(k), now)
    /\ refused' = TRUE
    /\ UNCHANGED <<now, admitted>>

\* check(): no room in the window.
Refuse ==
  \E k \in 0..Len(timestamps) :
    /\ Expired(k)
    /\ Len(timestamps) - k >= MaxCalls
    /\ timestamps' = Rest(k)
    /\ refused' = TRUE
    /\ UNCHANGED <<now, admitted>>

\* check(): the call is recorded.
Admit ==
  \E k \in 0..Len(timestamps) :
    /\ Expired(k)
    /\ Len(timestamps) - k < MaxCalls
    /\ Len(admitted) < MaxHistory
    /\ timestamps' = Append(Rest(k), now)
    /\ admitted' = Append(admitted, now)
    /\ refused' = FALSE
    /\ UNCHANGED now

Tick ==
  /\ \E t \in 0..MaxTime : t > now /\ now' = t
  /\ refused' = FALSE
  /\ UNCHANGED <<timestamps, admitted>>

Init == now = 0 /\ timestamps = <<>> /\ admitted = <<>> /\ refused = FALSE

Next == Admit \/ Refuse \/ Tick

Spec == Init /\ [][Next]_vars

-----------------------------------------------------------------------------
(***************************************************************************)
(* What the limiter promises.                                              *)
(***************************************************************************)
\* Type invariant.
TypeOK ==
  /\ now \in Nat
  /\ timestamps \in Seq(Nat) /\ Len(timestamps) <= MaxCalls
  /\ admitted \in Seq(Nat)
  /\ refused \in BOOLEAN

\* No window of windowMs holds more than maxCalls admitted calls: maxCalls + 1
\* successive ones take at least windowMs.
WindowBound ==
  \A i \in 1..Len(admitted) :
    i + MaxCalls <= Len(admitted) => admitted[i + MaxCalls] - admitted[i] >= WindowMs

\* A call is refused only if the window that ends now is full of admitted calls.
RefusedWhenFull ==
  refused => /\ Len(admitted) >= MaxCalls
             /\ admitted[Len(admitted) - MaxCalls + 1] > now - WindowMs

\* The window is exact: what it admits never exceeds the limit, and it refuses only
\* what would.
WindowExact == WindowBound /\ RefusedWhenFull
=============================================================================
