---------------------------- MODULE HttpBackend ----------------------------
(***************************************************************************)
(* One HttpBackend.synthesize() (mcp-server/src/backends/httpBackend.ts)   *)
(* against a server that may answer anything, late or never.  The timer    *)
(* runs until the headers have come; the body, and the download a body may *)
(* ask for, are read without one.                                          *)
(***************************************************************************)
EXTENDS Naturals

CONSTANTS
  TimeLimit,   \* config.timeout, in ticks
  MaxSize,   \* maxResponseSize
  Sizes,     \* of bodies and downloads
  EndTime    \* bound: ticks of a request

VARIABLES
  stage,     \* "idle", "fetching", "body", "download", "writing", "ok" or "error"
  mode,      \* "path" or "base64"
  elapsed,   \* history: ticks since the fetch
  declared,  \* the server gave a content-length
  held,      \* history: the most it has held of one answer in memory
  from       \* where the audio comes from: "none", "bytes", "url" or "server"

httpVars == <<stage, mode, elapsed, declared, held, from>>

Settled == {"idle", "ok", "error"}

-----------------------------------------------------------------------------
Synthesize ==
  /\ stage \in Settled
  /\ \E m \in {"path", "base64"} : mode' = m
  /\ stage' = "fetching" /\ elapsed' = 0 /\ held' = 0 /\ from' = "none" /\ declared' = FALSE

\* fetch fails: the server cannot be reached.
Unreachable == stage = "fetching" /\ stage' = "error" /\ UNCHANGED <<mode, elapsed, declared, held, from>>

\* Mutant: the timer is not armed.
TimeOut_Never == FALSE /\ UNCHANGED httpVars

\* The timer aborts the fetch, which rejects.
TimeOut ==
  /\ stage = "fetching" /\ elapsed = TimeLimit /\ stage' = "error"
  /\ UNCHANGED <<mode, elapsed, declared, held, from>>

\* The headers: an error status, or a length that is too large, is the end; from here
\* no timer runs.
Headers(size) ==
  /\ stage = "fetching"
  /\ \E ok, length \in BOOLEAN :
       /\ declared' = length
       /\ stage' = IF ~ok \/ (length /\ size > MaxSize) THEN "error" ELSE "body"
  /\ UNCHANGED <<mode, elapsed, held, from>>

\* Mutant: only a declared length is checked.
TooLarge_OnlyDeclared(size) == declared /\ size > MaxSize

TooLarge(size) == size > MaxSize

\* The whole body is in memory before its size is looked at; then its kind and shape:
\* audio bytes, the address of the audio, a path of the server, or nothing known.
Body(size) ==
  /\ stage = "body" /\ (declared => size <= MaxSize) /\ held' = size
  /\ \E shape \in {"bytes", "url", "server", "bad"} :
       IF TooLarge(size) \/ shape = "bad" \/ (shape = "server" /\ mode = "base64")
       THEN stage' = "error" /\ UNCHANGED from
       ELSE /\ from' = shape
            /\ stage' = IF shape = "url" THEN "download"
                        ELSE IF shape = "bytes" /\ mode = "path" THEN "writing" ELSE "ok"
  /\ UNCHANGED <<mode, elapsed, declared>>

\* The download: no timer, and no limit of size.
Download(size) ==
  /\ stage = "download" /\ held' = size
  /\ \/ stage' = "error"
     \/ stage' = IF mode = "path" THEN "writing" ELSE "ok"
  /\ UNCHANGED <<mode, elapsed, declared, from>>

\* writeFile resolves or rejects.
Written ==
  /\ stage = "writing" /\ stage' \in {"ok", "error"}
  /\ UNCHANGED <<mode, elapsed, declared, held, from>>

\* The timer fires when it is due.
Tick ==
  /\ stage \notin Settled /\ elapsed < EndTime
  /\ stage = "fetching" => elapsed < TimeLimit
  /\ elapsed' = elapsed + 1
  /\ UNCHANGED <<stage, mode, declared, held, from>>

Init ==
  /\ stage = "idle" /\ mode = "path" /\ elapsed = 0 /\ declared = FALSE
  /\ held = 0 /\ from = "none"

Next ==
  \/ Synthesize \/ Unreachable \/ TimeOut \/ Written \/ Tick
  \/ \E size \in Sizes : Headers(size) \/ Body(size) \/ Download(size)

Spec == Init /\ [][Next]_httpVars

\* Timers fire and the file system answers; the server may be silent for ever.
Fairness == WF_httpVars(TimeOut) /\ WF_httpVars(Written) /\ WF_httpVars(Tick)

-----------------------------------------------------------------------------
\* Type invariant.
TypeOK ==
  /\ stage \in Settled \cup {"fetching", "body", "download", "writing"}
  /\ mode \in {"path", "base64"} /\ elapsed \in 0..EndTime /\ declared \in BOOLEAN
  /\ held \in Sizes \cup {0} /\ from \in {"none", "bytes", "url", "server"}

\* A server that sends no headers is given up, whatever it did before.
SilenceEnds == stage = "fetching" ~> stage # "fetching"

\* Audio that is handed on is of a size that was allowed, unless it was downloaded.
SizeRespected == stage \in {"ok", "writing"} /\ from # "url" => held <= MaxSize
=============================================================================
