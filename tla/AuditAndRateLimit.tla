------------------------- MODULE AuditAndRateLimit --------------------------
(***************************************************************************)
(* Two parts of the security of the Python library                         *)
(* (voice_soundboard/security): the audit log, and the token bucket.       *)
(***************************************************************************)
EXTENDS Sequences, SequencesExt, FiniteSets, Integers

(***************************************************************************)
(* The audit log (voice_soundboard/security/audit.py): AuditLogger with    *)
(* its buffer, its flush thread and close(), and the rotating file behind  *)
(* it. What appends and flushes does so under the logger's lock, so a      *)
(* whole flush is one step. Every event has size 1.                        *)
(***************************************************************************)
CONSTANTS
  MinSeverity,  \* min_severity
  BufferSize,   \* buffer_size
  FileSize,     \* max_file_size_mb, in events
  MaxFiles,     \* max_files
  MaxEvents     \* bound: events logged

VARIABLES
  buffer,    \* _buffer
  current,   \* the file
  oldFiles,  \* path.1, path.2, ...
  handle,    \* _file: open, stale (closed but not None) or none
  closing,   \* close(): "no", "flushed", "synced", "done", or "failed"
  logged,    \* history: the events accepted, [id, serializable]
  gone,      \* history: events of files that rotation removed
  lost       \* history: events whose write raised, which nobody hears of

auditVars == <<buffer, current, oldFiles, handle, closing, logged, gone, lost>>

\* AuditSeverity, as its values sort: they are compared as strings.
Severities == <<"critical", "debug", "error", "info", "warning">>
Rank(s) == CHOOSE i \in DOMAIN Severities : Severities[i] = s
Passes(s) == Rank(s) >= Rank(MinSeverity)

Events == [id : 1..MaxEvents, serializable : BOOLEAN]

\* What fails in a rotation, if there is one; with a rename (or the removal of the oldest
\* file), how many of the old files are still to be moved.
NoFault == [at |-> "none", left |-> 0]
Faults == {NoFault, [at |-> "open", left |-> 0]} \cup {[at |-> "rename", left |-> n] : n \in 0..(MaxFiles - 1)}

State == [current |-> current, oldFiles |-> oldFiles, handle |-> handle, gone |-> gone, lost |-> lost]

\* Mutant: the oldest file is overwritten one rotation early.
Shifted_Early(s) ==
  LET kept == MaxFiles - 2
  IN [s EXCEPT !.current = <<>>, !.oldFiles = SubSeq(<<s.current>> \o s.oldFiles, 1, kept)]

\* The files move up by one and the last is removed; with max_files 1 the one is replaced.
Shifted(s) ==
  LET kept == IF MaxFiles > 1 THEN MaxFiles - 1 ELSE 1
      all  == <<s.current>> \o s.oldFiles
  IN [s EXCEPT !.current = <<>>,
               !.oldFiles = IF Len(all) > kept THEN SubSeq(all, 1, kept) ELSE all,
               !.gone = @ \cup (IF Len(all) > kept THEN ToSet(all[kept + 1]) ELSE {})]

\* The old files move up from the last one on, so that those not reached stay, with nothing
\* between them and the others; the current file stays too.
Halted(s, left) ==
  LET all == SubSeq(s.oldFiles, 1, left) \o <<<<>>>> \o SubSeq(s.oldFiles, left + 1, Len(s.oldFiles))
  IN IF MaxFiles = 1 \/ left >= Len(s.oldFiles) THEN s
     ELSE [s EXCEPT !.oldFiles = IF Len(all) >= MaxFiles THEN SubSeq(all, 1, MaxFiles - 1) ELSE all,
                    !.gone = @ \cup (IF Len(all) >= MaxFiles THEN ToSet(all[MaxFiles]) ELSE {})]

\* _rotate(): the file is closed first, and stays so when anything after that fails.
Rotate(s, fault) ==
  CASE fault.at = "none"   -> [Shifted(s) EXCEPT !.handle = "open"]
    [] fault.at = "rename" -> [Halted(s, fault.left) EXCEPT !.handle = "stale"]
    [] fault.at = "open"   -> [Shifted(s) EXCEPT !.handle = "stale"]

\* FileAuditBackend.write(): a file that is None is opened again, to append; what raises
\* is swallowed by _write_event().
Write(s, e, fault) ==
  IF ~e.serializable \/ s.handle = "stale"
  THEN [s EXCEPT !.lost = @ \cup {e}, !.handle = IF @ = "none" THEN "open" ELSE @]
  ELSE LET written == [s EXCEPT !.current = Append(@, e), !.handle = "open"]
       IN IF Len(written.current) >= FileSize THEN Rotate(written, fault) ELSE written

WriteAll(events, fault) == FoldLeft(LAMBDA s, e : Write(s, e, fault), State, events)

Becomes(s) ==
  /\ current' = s.current /\ oldFiles' = s.oldFiles /\ handle' = s.handle
  /\ gone' = s.gone /\ lost' = s.lost

-----------------------------------------------------------------------------
\* log(): the filter, the buffer, and the flush of a full one.
Log(severity, serializable) ==
  LET e == [id |-> Len(logged) + 1, serializable |-> serializable] IN
  /\ Len(logged) < MaxEvents /\ Passes(severity)
  /\ logged' = Append(logged, e)
  /\ IF Len(buffer) + 1 >= BufferSize
     THEN \E fault \in Faults : buffer' = <<>> /\ Becomes(WriteAll(Append(buffer, e), fault))
     ELSE buffer' = Append(buffer, e) /\ UNCHANGED <<current, oldFiles, handle, gone, lost>>
  /\ UNCHANGED closing

\* Mutant: the buffer is not cleared.
Flush_NoClear ==
  /\ buffer # <<>>
  /\ \E fault \in Faults : Becomes(WriteAll(buffer, fault))
  /\ UNCHANGED <<buffer, closing, logged>>

\* flush(), of its callers at any time, and of the flush thread until it is told to stop or
\* the flush of the file raises, which nobody catches.
Flush ==
  /\ buffer # <<>>
  /\ buffer' = <<>>
  /\ \E fault \in Faults : Becomes(WriteAll(buffer, fault))
  /\ UNCHANGED <<closing, logged>>

\* close(): the thread is told to stop, and not waited for; a last flush of the buffer ...
CloseFlush ==
  /\ closing = "no" /\ closing' = "flushed"
  /\ buffer' = <<>>
  /\ \E fault \in Faults : Becomes(WriteAll(buffer, fault))
  /\ UNCHANGED logged

\* ... and of the file, which raises when a rotation has left it closed: close() gets no
\* further ...
CloseSync ==
  /\ closing = "flushed"
  /\ closing' = IF handle = "stale" THEN "failed" ELSE "synced"
  /\ UNCHANGED <<buffer, current, oldFiles, handle, logged, gone, lost>>

\* ... then the file is closed, while other threads may go on to log.
CloseFile ==
  /\ closing = "synced" /\ closing' = "done" /\ handle' = "none"
  /\ UNCHANGED <<buffer, current, oldFiles, logged, gone, lost>>

AuditInit ==
  /\ buffer = <<>> /\ current = <<>> /\ oldFiles = <<>> /\ handle = "open"
  /\ closing = "no" /\ logged = <<>> /\ gone = {} /\ lost = {}

AuditNext ==
  \/ \E s \in ToSet(Severities), ok \in BOOLEAN : Log(s, ok)
  \/ Flush \/ CloseFlush \/ CloseSync \/ CloseFile

AuditSpec == AuditInit /\ [][AuditNext]_auditVars

-----------------------------------------------------------------------------
\* What is kept, the oldest first.
Kept == FlattenSeq(Reverse(oldFiles)) \o current \o buffer

\* Type invariant.
AuditTypeOK ==
  /\ buffer \in Seq(Events) /\ current \in Seq(Events) /\ oldFiles \in Seq(Seq(Events))
  /\ handle \in {"open", "stale", "none"}
  /\ closing \in {"no", "flushed", "synced", "done", "failed"}
  /\ logged \in Seq(Events) /\ gone \subseteq Events /\ lost \subseteq Events

\* An accepted event is in the files or the buffer once and in the order of the log, or in
\* a file that was older than all that is kept and was rotated away, or its write raised:
\* it was not serializable, or a rotation had failed and left the file closed.
EventsKept ==
  /\ \A i, j \in DOMAIN Kept : i < j => Kept[i].id < Kept[j].id
  /\ ToSet(logged) = ToSet(Kept) \cup gone \cup lost
  /\ gone \cap (ToSet(Kept) \cup lost) = {} /\ lost \cap ToSet(Kept) = {}
  /\ \A e \in gone, k \in ToSet(Kept) : e.id < k.id

\* The files are within their number and size and the buffer within its own; a file is over
\* it by one only when its rotation failed and it was opened again after close().
FilesBounded ==
  /\ Len(buffer) < BufferSize
  /\ Len(oldFiles) <= IF MaxFiles > 1 THEN MaxFiles - 1 ELSE 1
  /\ \A f \in ToSet(oldFiles) \cup {current} :
       Len(f) <= FileSize + IF closing = "done" THEN 1 ELSE 0

\* As long as no rotation fails and the file is not closed, a serializable event is never lost.
LostByFaultOnly == (\E e \in lost : e.serializable) => handle = "stale" \/ closing = "done"

(***************************************************************************)
(* RateLimiter of voice_soundboard/security/rate_limit.py, for one client: *)
(* threads that call check(), which acquires tokens under the bucket's     *)
(* lock and then reads current_tokens, which refills the bucket without    *)
(* it. A step is one access of the bucket's fields.                        *)
(***************************************************************************)
CONSTANTS
  Threads,
  Capacity,   \* burst_size
  Rate,       \* requests_per_second, a tick being a second
  EndTime,    \* bound of the clock
  MaxChecks   \* bound: calls of check(), and of reset() and set_client_limit()

VARIABLES
  time,
  tokens, lastRefill,  \* of the bucket
  lock,      \* the thread that holds the bucket's lock, or Free
  thread,    \* [pc, locked, elapsed, value]: value is what it read of tokens
  granted,   \* history: requests admitted since the bucket was made
  made,      \* history: when it was made
  raced,     \* history: did a refill without the lock overlap another
  calls      \* calls so far

bucketVars == <<time, tokens, lastRefill, lock, thread, granted, made, raced, calls>>

Free == 0  \* threads are numbered from 1
Low(a, b) == IF a < b THEN a ELSE b
At(t, pc) == thread[t].pc = pc
Refilling == {t \in Threads : ~(thread[t].pc \in {"idle", "peek"})}
GoTo(t, pc) == thread' = [thread EXCEPT ![t].pc = pc]

-----------------------------------------------------------------------------
\* check() of one token: try_acquire() takes the lock.
Acquire(t) ==
  /\ At(t, "idle") /\ lock = Free /\ calls < MaxChecks
  /\ lock' = t /\ calls' = calls + 1
  /\ thread' = [thread EXCEPT ![t] = [@ EXCEPT !.pc = "refill", !.locked = TRUE]]
  /\ raced' = (raced \/ Refilling # {})
  /\ UNCHANGED <<time, tokens, lastRefill, granted, made>>

\* current_tokens, of check() or get_status().
Peek(t) ==
  /\ At(t, "peek")
  /\ thread' = [thread EXCEPT ![t] = [@ EXCEPT !.pc = "refill", !.locked = FALSE]]
  /\ raced' = (raced \/ Refilling # {})
  /\ UNCHANGED <<time, tokens, lastRefill, lock, granted, made, calls>>

\* _refill, in its four accesses.
Elapsed(t) ==
  /\ At(t, "refill")
  /\ thread' = [thread EXCEPT ![t] = [@ EXCEPT !.pc = "read", !.elapsed = time - lastRefill]]
  /\ UNCHANGED <<time, tokens, lastRefill, lock, granted, made, raced, calls>>

ReadTokens(t) ==
  /\ At(t, "read")
  /\ thread' = [thread EXCEPT ![t] = [@ EXCEPT !.pc = "write", !.value = tokens]]
  /\ UNCHANGED <<time, tokens, lastRefill, lock, granted, made, raced, calls>>

\* Mutant: a refill goes over the capacity.
WriteTokens_NoCap(t) ==
  /\ At(t, "write")
  /\ tokens' = thread[t].value + thread[t].elapsed * Rate
  /\ GoTo(t, "stamp")
  /\ UNCHANGED <<time, lastRefill, lock, granted, made, raced, calls>>

WriteTokens(t) ==
  /\ At(t, "write")
  /\ tokens' = Low(Capacity, thread[t].value + thread[t].elapsed * Rate)
  /\ GoTo(t, "stamp")
  /\ UNCHANGED <<time, lastRefill, lock, granted, made, raced, calls>>

\* Mutant: a refill does not move the time of the last one.
Stamp_Kept(t) ==
  /\ At(t, "stamp")
  /\ GoTo(t, IF thread[t].locked THEN "test" ELSE "idle")
  /\ UNCHANGED <<time, tokens, lastRefill, lock, granted, made, raced, calls>>

\* The refill ends with the time; time.monotonic() was read at its beginning, and no
\* tick of the model falls inside a refill.
Stamp(t) ==
  /\ At(t, "stamp")
  /\ lastRefill' = time
  /\ GoTo(t, IF thread[t].locked THEN "test" ELSE "idle")
  /\ UNCHANGED <<time, tokens, lock, granted, made, raced, calls>>

RefuseToken(t) ==
  /\ At(t, "test") /\ tokens < 1
  /\ lock' = Free
  /\ GoTo(t, "peek")
  /\ UNCHANGED <<time, tokens, lastRefill, granted, made, raced, calls>>

GrantToken(t) ==
  /\ At(t, "test") /\ tokens >= 1
  /\ GoTo(t, "take")
  /\ UNCHANGED <<time, tokens, lastRefill, lock, granted, made, raced, calls>>

TakeToken(t) ==
  /\ At(t, "take")
  /\ tokens' = tokens - 1
  /\ lock' = Free
  /\ granted' = granted + 1
  /\ GoTo(t, "peek")
  /\ UNCHANGED <<time, lastRefill, made, raced, calls>>

\* reset() and set_client_limit() drop the bucket: the next check makes a full one.
\* A thread inside the old bucket is left out.
Reset ==
  /\ calls < MaxChecks /\ Refilling = {}
  /\ calls' = calls + 1
  /\ tokens' = Capacity /\ lastRefill' = time
  /\ granted' = 0 /\ made' = time /\ raced' = FALSE
  /\ UNCHANGED <<time, lock, thread>>

SecondPasses ==
  /\ time < EndTime /\ Refilling = {}
  /\ time' = time + 1
  /\ UNCHANGED <<tokens, lastRefill, lock, thread, granted, made, raced, calls>>

BucketInit ==
  /\ time = 0 /\ tokens = Capacity /\ lastRefill = 0 /\ lock = Free
  /\ thread = [t \in Threads |-> [pc |-> "idle", locked |-> FALSE, elapsed |-> 0, value |-> 0]]
  /\ granted = 0 /\ made = 0 /\ raced = FALSE /\ calls = 0

BucketNext ==
  \/ Reset \/ SecondPasses
  \/ \E t \in Threads : \/ Acquire(t) \/ Peek(t) \/ Elapsed(t) \/ ReadTokens(t) \/ WriteTokens(t)
                        \/ Stamp(t) \/ RefuseToken(t) \/ GrantToken(t) \/ TakeToken(t)

BucketSpec == BucketInit /\ [][BucketNext]_bucketVars

-----------------------------------------------------------------------------
\* Type invariant.
BucketTypeOK ==
  /\ time \in 0..EndTime /\ lastRefill \in 0..EndTime /\ made \in 0..EndTime
  /\ tokens \in Int /\ tokens <= Capacity
  /\ lock \in Threads \cup {Free} /\ raced \in BOOLEAN /\ calls \in 0..MaxChecks
  /\ granted \in Nat

\* As long as no refill overlapped another, the bucket admits its burst and what the
\* time refilled, and never goes below empty.
BurstUnlessRaced == ~raced => tokens >= 0 /\ granted <= Capacity + Rate * (time - made)

=============================================================================
