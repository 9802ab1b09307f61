--------------------------- MODULE RealtimeEngine ---------------------------
(***************************************************************************)
(* Real-time synthesis: the ring buffer of realtime/buffer.py and the      *)
(* sessions of realtime/engine.py that write to it.                        *)
(*                                                                         *)
(* Each session has a worker thread.  The caller queues requests,          *)
(* interrupts and stops the session from threads of its own, and a player  *)
(* reads the buffer.  Only the buffer has a lock: what a thread reads      *)
(* outside it may be out of date when the thread acts on it.               *)
(***************************************************************************)
EXTENDS Integers, Sequences, FiniteSets, SequencesExt

CONSTANTS Sessions,
          Requests,  \* texts: one speak or speak_immediate each
          Of,        \* the session each request is spoken to, or Direct
          Prio,      \* the priority it is spoken with
          Chunks,    \* the chunks each request is synthesised to
          ChunkLen,  \* samples in each of them: a sentence, for some back ends
          Size,      \* size of the ring buffer, in samples
          Setups,    \* bounds: the requests made together, the backpressure
                     \* policy, the sessions whose caller interrupts, and whether
                     \* things may fail, stop or be cleared
          Direct, None

ASSUME RealtimeAssumption ==
  /\ Of \in [Requests -> Sessions \cup {Direct}] /\ Direct \notin Sessions
  /\ Prio \in [Requests -> Int] /\ None \notin Requests
  /\ Chunks \in [Requests -> Nat \ {0}] /\ ChunkLen \in [Requests -> Nat \ {0}]
  /\ \A r \in Requests : Of[r] = Direct => Chunks[r] = 1
  /\ Size \in Nat \ {0}
  /\ Setups \subseteq [requests : SUBSET Requests, policy : {"block", "drop_oldest"},
                         interrupts : SUBSET Sessions, events : SUBSET {"raise", "stop", "clear"}]

VARIABLES
  setup,
  cells, wpos, rpos, count,  \* the ring: _buffer, _write_pos, _read_pos, _count
  born,                      \* the requests in the order their markers were made
  kept, position, committed, \* _markers, and the fields of each request's marker
  state,                     \* session._state
  pending,                   \* session._queue, in the order of the time stamps
  event, stop,               \* _interrupt_event and _stop_event
  pc, current, marker,       \* the worker; _current_request and _current_marker
  written,                   \* chunks of each request written so far
  caller, target,            \* the thread inside interrupt(), and the marker it undoes
  spoken,                    \* requests made so far
  completed,                 \* requests on_complete was called for
  ended,                     \* requests that are over, one way or another
  intact, dropped, late      \* history: see the properties

ring == <<cells, wpos, rpos, count>>
marks == <<born, kept, position, committed>>
worker == <<pc, current, marker, written>>
user == <<caller, target, spoken>>
history == <<completed, ended, late>>
vars == <<setup, ring, marks, state, pending, event, stop, worker, user, intact, dropped, history>>

Sample(r, k, i) == <<r, k, i>>
Samples == UNION {{Sample(r, k, i) : k \in 1 .. Chunks[r], i \in 1 .. ChunkLen[r]} : r \in Requests}
Chunk(r, k) == [i \in 1 .. ChunkLen[r] |-> Sample(r, k, i)]
Silence == <<None, 0, 0>>
Slots == 0 .. (Size - 1)
Open == {Of[r] : r \in setup.requests} \ {Direct}
Free == Size - count
Buffered == [i \in 1 .. count |-> cells[(rpos + i - 1) % Size]]

Init ==
  /\ setup \in Setups
  /\ cells = [i \in Slots |-> Silence] /\ wpos = 0 /\ rpos = 0 /\ count = 0
  /\ born = <<>> /\ kept = {} /\ position = [r \in Requests |-> 0] /\ committed = {}
  /\ state = [s \in Sessions |-> "idle"]
  /\ pending = [s \in Sessions |-> <<>>]
  /\ event = [s \in Sessions |-> FALSE] /\ stop = [s \in Sessions |-> FALSE]
  /\ pc = [s \in Sessions |-> "top"]
  /\ current = [s \in Sessions |-> None] /\ marker = [s \in Sessions |-> None]
  /\ written = [r \in Requests |-> 0]
  /\ caller = [s \in Sessions |-> "out"] /\ target = [s \in Sessions |-> None]
  /\ spoken = {}
  /\ completed = {} /\ ended = {}
  /\ intact = TRUE /\ dropped = FALSE /\ late = [s \in Sessions |-> 0]

-----------------------------------------------------------------------------
(* The buffer.  Each operation holds its lock.                             *)

\* Bug: the oldest samples are overwritten, the read position stays.
Write_KeepsReader(audio) ==
  LET end == IF Len(audio) > Size THEN SubSeq(audio, Len(audio) - Size + 1, Len(audio)) ELSE audio
      n == Len(end)
      over == IF n > Free THEN n - Free ELSE 0
  IN /\ cells' = [i \in Slots |-> LET k == (i - wpos) % Size
                                 IN IF k < n THEN end[k + 1] ELSE cells[i]]
     /\ wpos' = (wpos + n) % Size
     /\ rpos' = rpos
     /\ count' = count - over + n
     /\ dropped' = (dropped \/ over > 0)

\* Bug: the dropped samples are still counted.
Write_KeepsCount(audio) ==
  LET end == IF Len(audio) > Size THEN SubSeq(audio, Len(audio) - Size + 1, Len(audio)) ELSE audio
      n == Len(end)
      over == IF n > Free THEN n - Free ELSE 0
  IN /\ cells' = [i \in Slots |-> LET k == (i - wpos) % Size
                                 IN IF k < n THEN end[k + 1] ELSE cells[i]]
     /\ wpos' = (wpos + n) % Size
     /\ rpos' = (rpos + over) % Size
     /\ count' = count + n
     /\ dropped' = (dropped \/ over > 0)

(* write with allow_drop: more than fits pushes the oldest samples by *)
(* moving the read position on.  Audio longer than the ring loses its      *)
(* beginning.                                                              *)
Write(audio) ==
  LET end == IF Len(audio) > Size THEN SubSeq(audio, Len(audio) - Size + 1, Len(audio)) ELSE audio
      n == Len(end)
      over == IF n > Free THEN n - Free ELSE 0
  IN /\ cells' = [i \in Slots |-> LET k == (i - wpos) % Size
                                 IN IF k < n THEN end[k + 1] ELSE cells[i]]
     /\ wpos' = (wpos + n) % Size
     /\ rpos' = (rpos + over) % Size
     /\ count' = count - over + n
     /\ dropped' = (dropped \/ over > 0)

(* read of n samples: it returns the oldest ones buffered, and silence for *)
(* those that are missing.                                                 *)
Read(n) ==
  LET got == IF n < count THEN n ELSE count
  IN /\ rpos' = (rpos + got) % Size
     /\ count' = count - got
     /\ UNCHANGED <<setup, cells, wpos, marks, state, pending, event, stop, worker, user, intact, dropped, history>>

Newer(r) == {q \in Requests : \E i, k \in DOMAIN born : i < k /\ born[i] = r /\ born[k] = q}

(* rollback: the distance is taken around the ring, the write position     *)
(* goes back, the count is not made negative, and newer markers are        *)
(* forgotten.  The fade is left out.                                       *)
Rollback(r) ==
  LET back == (wpos - position[r]) % Size
  IN /\ wpos' = position[r]
     /\ count' = IF back > count THEN 0 ELSE count - back
     /\ intact' = (intact /\ back <= count)
     /\ kept' = kept \ Newer(r)
     /\ UNCHANGED <<cells, rpos, born, position, committed, dropped>>

(* clear of the buffer, and of every queue.  The markers in the hands of   *)
(* the sessions stay as they are.                                          *)
Clear ==
  /\ "clear" \in setup.events /\ (count > 0 \/ \E s \in Sessions : pending[s] # <<>>)
  /\ cells' = [i \in Slots |-> Silence] /\ wpos' = 0 /\ rpos' = 0 /\ count' = 0
  /\ kept' = {} /\ intact' = TRUE
  /\ pending' = [s \in Sessions |-> <<>>]
  /\ ended' = ended \cup UNION {Range(pending[s]) : s \in Sessions}
  /\ UNCHANGED <<setup, born, position, committed, state, event, stop, worker, user, dropped, completed, late>>

-----------------------------------------------------------------------------
(* The caller *)

(* speak; with interrupt_current it is interrupt and then speak.           *)
Speak(s, r) ==
  /\ r \in setup.requests \ spoken /\ Of[r] = s
  /\ caller[s] = "out" /\ state[s] # "closed"
  /\ pending' = [pending EXCEPT ![s] = Append(@, r)]
  /\ spoken' = spoken \cup {r}
  /\ UNCHANGED <<setup, ring, marks, state, event, stop, worker, caller, target, intact, dropped, history>>

(* speak_immediate: compiles, synthesises and writes the whole audio, as   *)
(* one chunk, whatever the policy.                                         *)
SpeakImmediate(r) ==
  /\ r \in setup.requests \ spoken /\ Of[r] = Direct
  /\ Write(Chunk(r, 1))
  /\ written' = [written EXCEPT ![r] = 1]
  /\ spoken' = spoken \cup {r}
  /\ UNCHANGED <<setup, marks, state, pending, event, stop, pc, current, marker, caller, target, intact, history>>

(* interrupt: asks a session whether it is synthesising ...                *)
Interrupt(s) ==
  /\ s \in setup.interrupts
  /\ caller[s] = "out" /\ state[s] = "synthesizing"
  /\ caller' = [caller EXCEPT ![s] = "event"]
  /\ UNCHANGED <<setup, ring, marks, state, pending, event, stop, worker, target, spoken, intact, dropped, history>>

(* ... sets its event, whatever it has turned to meanwhile ...             *)
SetEvent(s) ==
  /\ caller[s] = "event"
  /\ event' = [event EXCEPT ![s] = TRUE]
  /\ late' = [late EXCEPT ![s] = IF event[s] THEN @ ELSE 0]
  /\ caller' = [caller EXCEPT ![s] = "flag"]
  /\ UNCHANGED <<setup, ring, marks, state, pending, stop, worker, target, spoken, intact, dropped, completed, ended>>

(* ... says so, and looks whether there is a marker to roll back to ...    *)
Flag(s) ==
  /\ caller[s] = "flag"
  /\ state' = [state EXCEPT ![s] = "interrupted"]
  /\ caller' = [caller EXCEPT ![s] = IF marker[s] \in committed \cup {None} THEN "out" ELSE "undo"]
  /\ UNCHANGED <<setup, ring, marks, pending, event, stop, worker, target, spoken, intact, dropped, history>>

(* ... calls rollback with the marker that is there by now, and raises     *)
(* when there is none, or a committed one ...                              *)
EnterRollback(s) ==
  /\ caller[s] = "undo"
  /\ LET m == marker[s]
     IN IF m \in committed \cup {None}
        THEN caller' = [caller EXCEPT ![s] = "out"] /\ UNCHANGED target
        ELSE caller' = [caller EXCEPT ![s] = "lock"] /\ target' = [target EXCEPT ![s] = m]
  /\ UNCHANGED <<setup, ring, marks, state, pending, event, stop, worker, spoken, intact, dropped, history>>

(* ... and which takes the lock after that test and rolls back.            *)
Undo(s) ==
  /\ caller[s] = "lock"
  /\ Rollback(target[s])
  /\ target' = [target EXCEPT ![s] = None]
  /\ caller' = [caller EXCEPT ![s] = "out"]
  /\ UNCHANGED <<setup, state, pending, event, stop, worker, spoken, history>>

(* _stop, at the end of the with block.                                    *)
Stop(s) ==
  /\ "stop" \in setup.events /\ ~stop[s]
  /\ stop' = [stop EXCEPT ![s] = TRUE]
  /\ state' = [state EXCEPT ![s] = "closed"]
  /\ UNCHANGED <<setup, ring, marks, pending, event, worker, user, intact, dropped, history>>

-----------------------------------------------------------------------------
(* The worker *)

Goto(s, l) == pc' = [pc EXCEPT ![s] = l]

Leave(s) ==
  /\ pc[s] = "top" /\ stop[s]
  /\ Goto(s, "dead")
  /\ UNCHANGED <<setup, ring, marks, state, pending, event, stop, current, marker, written, user, intact, dropped, history>>

(* The stop event is tested before the queue is asked, not after.          *)
Poll(s) ==
  /\ pc[s] = "top" /\ ~stop[s]
  /\ Goto(s, "get")
  /\ UNCHANGED <<setup, ring, marks, state, pending, event, stop, current, marker, written, user, intact, dropped, history>>

(* The request of the highest priority, the oldest of several, or none     *)
(* within a tenth of a second.                                             *)
Urgent(q) == {i \in DOMAIN q : \A k \in DOMAIN q :
                Prio[q[k]] < Prio[q[i]] \/ (Prio[q[k]] = Prio[q[i]] /\ i <= k)}

\* Bug: a request is taken only by an idle session.
Take_WhenIdle(s) ==
  /\ pc[s] = "get" /\ state[s] = "idle"
  /\ \E i \in Urgent(pending[s]) :
       /\ pending' = [pending EXCEPT ![s] = RemoveAt(@, i)]
       /\ current' = [current EXCEPT ![s] = pending[s][i]]
  /\ state' = [state EXCEPT ![s] = "synthesizing"]
  /\ Goto(s, "clear")
  /\ UNCHANGED <<setup, ring, marks, event, stop, marker, written, user, intact, dropped, history>>

Take(s) ==
  /\ pc[s] = "get"
  /\ \E i \in Urgent(pending[s]) :
       /\ pending' = [pending EXCEPT ![s] = RemoveAt(@, i)]
       /\ current' = [current EXCEPT ![s] = pending[s][i]]
  /\ state' = [state EXCEPT ![s] = "synthesizing"]
  /\ Goto(s, "clear")
  /\ UNCHANGED <<setup, ring, marks, event, stop, marker, written, user, intact, dropped, history>>

Nothing(s) ==
  /\ pc[s] = "get" /\ pending[s] = <<>>
  /\ Goto(s, "top")
  /\ UNCHANGED <<setup, ring, marks, state, pending, event, stop, current, marker, written, user, intact, dropped, history>>

ClearEvent(s) ==
  /\ pc[s] = "clear"
  /\ event' = [event EXCEPT ![s] = FALSE]
  /\ Goto(s, "mark")
  /\ UNCHANGED <<setup, ring, marks, state, pending, stop, current, marker, written, user, intact, dropped, history>>

Mark(s) ==
  /\ pc[s] = "mark"
  /\ born' = Append(born, current[s]) /\ kept' = kept \cup {current[s]}
  /\ position' = [position EXCEPT ![current[s]] = wpos]
  /\ marker' = [marker EXCEPT ![s] = current[s]]
  /\ Goto(s, "chunk")
  /\ UNCHANGED <<setup, ring, committed, state, pending, event, stop, current, written, user, intact, dropped, history>>

\* Bug: the event is tested before the synthesis only.
Test_StartOnly(s) ==
  /\ pc[s] = "chunk"
  /\ Goto(s, IF (event[s] /\ written[current[s]] = 0) \/ written[current[s]] = Chunks[current[s]] THEN "verdict" ELSE "space")
  /\ UNCHANGED <<setup, ring, marks, state, pending, event, stop, current, marker, written, user, intact, dropped, history>>

(* Before the synthesis and before each chunk the event is tested; the     *)
(* last chunk is followed by one more test, in the worker loop.            *)
Test(s) ==
  /\ pc[s] = "chunk"
  /\ Goto(s, IF event[s] \/ written[current[s]] = Chunks[current[s]] THEN "verdict" ELSE "space")
  /\ UNCHANGED <<setup, ring, marks, state, pending, event, stop, current, marker, written, user, intact, dropped, history>>

\* Bug: a full buffer counts as one with space.
Space_NoWait(s) ==
  /\ pc[s] = "space" /\ (setup.policy = "block" => Free >= 0)
  /\ Goto(s, "write")
  /\ UNCHANGED <<setup, ring, marks, state, pending, event, stop, current, marker, written, user, intact, dropped, history>>

\* Bug: a chunk that fills the buffer counts as one too long.
Space_LeavesOne(s) ==
  /\ pc[s] = "space" /\ (setup.policy = "block" => Free > ChunkLen[current[s]])
  /\ Goto(s, "write")
  /\ UNCHANGED <<setup, ring, marks, state, pending, event, stop, current, marker, written, user, intact, dropped, history>>

(* With the policy BLOCK the worker waits until all of the chunk fits,     *)
(* without a look at the event: for ever, if it is longer than the ring.   *)
Space(s) ==
  /\ pc[s] = "space" /\ (setup.policy = "block" => Free >= ChunkLen[current[s]])
  /\ Goto(s, "write")
  /\ UNCHANGED <<setup, ring, marks, state, pending, event, stop, current, marker, written, user, intact, dropped, history>>

WriteChunk(s) ==
  /\ pc[s] = "write"
  /\ Write(Chunk(current[s], written[current[s]] + 1))
  /\ written' = [written EXCEPT ![current[s]] = @ + 1]
  /\ late' = [late EXCEPT ![s] = IF event[s] THEN @ + 1 ELSE 0]
  /\ Goto(s, "chunk")
  /\ UNCHANGED <<setup, marks, state, pending, event, stop, current, marker, user, intact, completed, ended>>

\* Bug: no test of the event after the synthesis.
Verdict_Always(s) ==
  /\ pc[s] = "verdict"
  /\ Goto(s, "commit")
  /\ UNCHANGED <<setup, ring, marks, state, pending, event, stop, current, marker, written, user, intact, dropped, history>>

Verdict(s) ==
  /\ pc[s] = "verdict"
  /\ Goto(s, IF event[s] THEN "finally" ELSE "commit")
  /\ UNCHANGED <<setup, ring, marks, state, pending, event, stop, current, marker, written, user, intact, dropped, history>>

(* commit of the marker and of the older ones the buffer still keeps, and  *)
(* on_complete.                                                            *)
Commit(s) ==
  /\ pc[s] = "commit"
  /\ committed' = committed \cup {marker[s]} \cup {q \in kept : marker[s] \in Newer(q)}
  /\ completed' = completed \cup {current[s]}
  /\ Goto(s, "idle")
  /\ UNCHANGED <<setup, ring, born, kept, position, state, pending, event, stop, current, marker, written, user, intact, dropped, ended, late>>

Idle(s) ==
  /\ pc[s] = "idle"
  /\ state' = [state EXCEPT ![s] = "idle"]
  /\ Goto(s, "finally")
  /\ UNCHANGED <<setup, ring, marks, pending, event, stop, current, marker, written, user, intact, dropped, history>>

Finally(s) ==
  /\ pc[s] = "finally"
  /\ ended' = ended \cup {current[s]}
  /\ current' = [current EXCEPT ![s] = None] /\ marker' = [marker EXCEPT ![s] = None]
  /\ Goto(s, "top")
  /\ UNCHANGED <<setup, ring, marks, state, pending, event, stop, written, user, intact, dropped, completed, late>>

(* The compiler or the backend raises: the worker rolls back and dies, and *)
(* the session goes on saying that it synthesises.                         *)
Raise(s) ==
  /\ "raise" \in setup.events /\ pc[s] = "chunk"
  /\ IF marker[s] \in committed THEN UNCHANGED <<ring, marks, intact, dropped>> ELSE Rollback(marker[s])
  /\ ended' = ended \cup {current[s]}
  /\ current' = [current EXCEPT ![s] = None] /\ marker' = [marker EXCEPT ![s] = None]
  /\ Goto(s, "dead")
  /\ UNCHANGED <<setup, state, pending, event, stop, written, user, completed, late>>

Work(s) == \/ Leave(s) \/ Poll(s) \/ Take(s) \/ Nothing(s) \/ ClearEvent(s) \/ Mark(s) \/ Test(s)
           \/ Space(s) \/ WriteChunk(s) \/ Verdict(s) \/ Commit(s) \/ Idle(s) \/ Finally(s)

Next ==
  \/ \E s \in Open : \/ Work(s) \/ Raise(s) \/ Interrupt(s) \/ SetEvent(s) \/ Flag(s) \/ EnterRollback(s)
                     \/ Undo(s) \/ Stop(s)
                     \/ \E r \in Requests : Speak(s, r)
  \/ \E r \in Requests : SpeakImmediate(r)
  \/ \E n \in 1 .. Size : Read(n)
  \/ Clear

Spec == Init /\ [][Next]_vars

(* The threads go on, and the player goes on reading.                      *)
FairSpec == Spec /\ WF_vars(Read(1)) /\ \A s \in Sessions : WF_vars(s \in Open /\ Work(s))

-----------------------------------------------------------------------------
(* Properties *)

(* Types; the ring positions and the count stay within the ring.           *)
TypeOK ==
  /\ setup \in Setups
  /\ cells \in [Slots -> Samples \cup {Silence}]
  /\ wpos \in Slots /\ rpos \in Slots /\ count \in 0 .. Size
  /\ born \in Seq(Requests) /\ kept \subseteq Requests
  /\ position \in [Requests -> Slots] /\ committed \subseteq Requests
  /\ state \in [Sessions -> {"idle", "synthesizing", "interrupted", "closed"}]
  /\ pending \in [Sessions -> Seq(Requests)]
  /\ event \in [Sessions -> BOOLEAN] /\ stop \in [Sessions -> BOOLEAN]
  /\ pc \in [Sessions -> {"top", "get", "clear", "mark", "chunk", "space", "write", "verdict",
                          "commit", "idle", "finally", "dead"}]
  /\ current \in [Sessions -> Requests \cup {None}] /\ marker \in [Sessions -> Requests \cup {None}]
  /\ written \in [Requests -> Nat] /\ \A r \in Requests : written[r] <= Chunks[r]
  /\ caller \in [Sessions -> {"out", "event", "flag", "undo", "lock"}] /\ target \in [Sessions -> Requests \cup {None}]
  /\ spoken \subseteq Requests
  /\ completed \subseteq Requests /\ ended \subseteq Requests
  /\ intact \in BOOLEAN /\ dropped \in BOOLEAN /\ late \in [Sessions -> Nat]

(* The ring is a queue of the newest Size samples for as long as no        *)
(* rollback overtakes the reader: wrapping, dropping and rolling back      *)
(* neither lose, repeat nor reorder what is buffered.                      *)
Fifo == INSTANCE AudioFifo WITH
          Audio <- UNION {{Chunk(r, k) : k \in 1 .. Chunks[r]} : r \in Requests}, Capacity <- Size,
          fifo <- IF intact THEN Buffered ELSE <<>>, intact <- intact
ImplementsFifo == Fifo!FifoSpec

(* on_complete is called only for a request whose every chunk was written: *)
(* one that an interrupt cut short is not reported as complete, whenever   *)
(* the interrupt comes.                                                    *)
CompletedWasWhole == \A r \in completed : written[r] = Chunks[r]

(* After the interrupt event is set at most one more chunk is written, the *)
(* one whose test came before, and not one for each wait for space.        *)
OneChunkLate == \A s \in Sessions : late[s] <= 1

(* With the policy BLOCK and a single writer nothing is ever dropped:      *)
(* the space a worker waited for is still there when it writes.            *)
BlockNeverDrops ==
  (setup.policy = "block" /\ \E s \in Sessions : \A r \in setup.requests : Of[r] = s) => ~dropped

(* What is heard and reported is whole (realtime/engine.py, buffer.py):    *)
(* through interrupts, backpressure and clears a request that completed    *)
(* was written, one that was interrupted stops, and BLOCK keeps audio.     *)
AudioIsWhole == CompletedWasWhole /\ OneChunkLate /\ BlockNeverDrops

(* With the policy BLOCK the chunks of a session fit into the ring.        *)
ChunksFit(s) ==
  setup.policy = "block" => \A r \in setup.requests : Of[r] = s => ChunkLen[r] <= Size

(* Every request of a session ends, completed, interrupted or cleared,     *)
(* unless the session is stopped or its worker has died.  Under BLOCK this *)
(* takes chunks that fit (engine.py:505 waits for the whole chunk, and     *)
(* nothing ensures that the ring is as long): a worker that waits for more *)
(* than the ring holds waits for ever, and with it its session, but no     *)
(* other one.                                                              *)
EveryRequestEnds ==
  \A r \in Requests :
    ChunksFit(Of[r]) => (r \in spoken ~>
                           Of[r] = Direct \/ r \in ended \/ stop[Of[r]] \/ pc[Of[r]] = "dead")

(* What the marker's documentation says (buffer.py:71: "Whether this       *)
(* position has been committed (cannot rollback)"; :355: "Commit a marker, *)
(* preventing rollback past this point"): no rollback takes a committed    *)
(* marker's audio back.                                                    *)
CommittedStays ==
  [][\A s \in Sessions : caller[s] = "lock" /\ caller'[s] = "out" =>
       target[s] \notin committed]_vars
=============================================================================
