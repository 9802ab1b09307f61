# Voice Soundboard: TLA+ models, model checking and proofs

This directory is a verification development of the repository beside it. It
holds TLA+ modules that model the parts of the system that keep state,
configurations that model-check them with TLC on small instances, and theorems
about them that the TLA+ proof system TLAPS checks for every value of the
constants. Paths below are relative to the repository's root unless they end in
`.tla` or `.cfg`.

Contents

1. [The system](#1-the-system): its parts, their state, how they interact, what is hard
2. [The modules](#2-the-modules): what models what, and how it corresponds to the code
3. [The runs](#3-the-runs): what TLC checks, the bounds and why they are enough
4. [Fairness](#4-fairness): what liveness assumes and why the code justifies it
5. [The proofs](#5-the-proofs): what is proved, from what, along which argument
6. [What the code does otherwise](#6-what-the-code-does-otherwise): disagreements with docs and comments
7. [What is not modelled](#7-what-is-not-modelled)
8. [Plan](#8-plan)
9. [Running it](#9-running-it)

## 1. The system

The repository holds two programs that share a subject and little code.

*The MCP server* (`packages/`, TypeScript) gives an AI agent five tools over
stdio: `voice_speak`, `voice_dialogue`, `voice_status`, `voice_interrupt`,
`voice_inner_monologue`. A synthesis call passes a rate limiter, a request
timeout and a concurrency semaphore (`server.ts`), is parsed, chunked and planned
by the core package, and reaches a TTS backend: a mock, an HTTP proxy or a Python
child process spoken to over pipes. Everything runs on one event loop: handlers
interleave at `await` and nowhere else.

*The Python library* (`voice_soundboard/`) compiles text to a control graph and
synthesises it. Around that core stand components with state of their own, many
of which the library offers and nothing in it calls: the audio registrar, a
real-time engine, a job queue and a cluster, a Python MCP server with sessions and
policies, caches, plugins, conversations, scenes, audio graphs, monitoring,
accounting, accessibility. These use real threads and, where they lock at all,
lock little.

### 1.1 Components with state

The TypeScript server:

| Component | State it keeps | Operations | Talks to |
|---|---|---|---|
| Synthesis gate (`concurrency.ts`, `timeout.ts`, guards of `server.ts`) | count of running syntheses, one place in a waiting line, timers | a tool call runs, waits or is refused; a synthesis settles; a timeout rejects the client | rate limiter before it, backend behind it |
| Tool rate limiter (`rateLimit.ts`) | per tool, the times of admitted calls | `check` admits or refuses, pruning the bucket | called by the gate's wrapper |
| Parsers (`core/src/ssml`, `emotion`, `sfx`, `dialogue`) | per call: open tags, segments; a global regular expression's `lastIndex`; casting | read a text piece by piece | the tools |
| Chunker, orchestrator, retention (`chunking`, `orchestrator`, `retention.ts`) | chunks and files of the call | synthesise chunk by chunk, concatenate, delete old artifacts | backend, file system |
| Ambient emitter (`core/src/ambient`) | queue, cool-downs | emit, expire, clear | `voice_inner_monologue` |
| Python backend (`backends/pythonBackend.ts`, `soundboard_bridge/__main__.py`) | child process, ready flag, pending requests with timers, a line buffer | synthesis, spawn, kill; events of the child | child process through three pipes |
| HTTP backend (`httpBackend.ts`) | per call: a timer, a body | fetch, read, download, write | an HTTP service |

The Python library:

| Component | State it keeps | Operations |
|---|---|---|
| Audio registrar (`runtime/registrar`) | streams, the bridge's copy, an order index, the attestation log | `request`, `observe`, `replay` |
| Real-time engine (`realtime/`) | ring buffer with markers; per session a queue, two events, a state, a thread | speak, interrupt, stop, clear, read |
| Job queue (`distributed/queue.py`) | job records, lists, active workers, a stop event | submit, cancel, start and stop workers, dequeue, retry, report |
| Cluster (`distributed/cluster.py`) | nodes, health, connection counts | synthesize with retries, add, remove, health loop |
| Python MCP server (`mcp/server.py`, `sessions.py`, `tools.py`) | semaphore, sessions, streams | requests, timeouts, speak, stream, interrupt, expiry, start, stop |
| Interrupt handler, policy, observability (`mcp/`) | positions and rollback points; per agent a record of requests; trackers | register, update, roll back; check and record; collect |
| Engine (`engine/`, `adapters/api.py`, `compiler/`) | back ends and loaded models, files on disk, unfinished text | `speak`, compile whole or in chunks |
| Incremental synthesizer and compiler (`streaming/`, `compiler/incremental.py`) | pending and committed words, audio | feed, correct, force, finalize, reset |
| Cache, batch, timeline, ducking (`runtime/`) | an LRU list, items with errors, ducking state | get, put; compile and synthesise; pause, event, speech |
| Plugins (`plugins/`) | hooks by event; a registry with a load order | register, fire, unregister; load and unload |
| Conversation (`conversation/`) | turns, speakers | parse a script, render |
| Security (`security/`) | tokens; audit buffer and files; secrets and their cache; sandbox contexts and monitor | acquire; log, flush, rotate; get, set, delete; execute |
| Monitoring (`monitoring/`) | cached health, a thread; counters and histograms | check, start, stop; record, export |
| Analytics (`analytics/`) | costs, usage buckets, quality samples and alerts | attribute, record, query, forecast |
| v3 (`v3/`) and scenes (`scenes/`) | tracks and effects, spatial paths, turns, presets, metrics; a builder's cursor | add, remove, diff, clone, render |
| Speakers (`speakers/`, `cloning/storage.py`) | embeddings on disk and an index | add, get, remove |
| Accessibility (`accessibility/`) | cursors, a screen-reader queue, scanning position | move, announce, duck, select |
| Audio events, formats (`adapters/audio_events.py`, `formats/`) | a manifest, a cache of recordings | load, render, negotiate |

What is left is listed in `PROJECT.json` with the reason.

### 1.2 What is hard, and the properties that make each part correct

| Component | Hard behaviour | What must hold |
|---|---|---|
| Synthesis gate | the slot is tested before an `await` and counted after it; a timeout rejects a client whose synthesis goes on | the limit holds; a slot is held exactly while a synthesis is in progress; nobody overtakes the waiter; every call is answered |
| Rate limiter, token bucket, policy | the edge of a window in a bucket that forgets; a refill without the lock; checks that overlap records | no window admits too much, nothing is refused without need; what exceeds a limit is bounded by what overlapped |
| Markup, chunker, orchestrator | tags that overlap or stay open; words longer than a chunk; files lost while a line is made | the plan says every text once and in order; a line has all its audio but what was lost |
| Backends | processes whose exit, output and timers arrive late; bodies larger than announced | whoever waits has an entry and a timer; ready means a started process; every call is answered |
| Registrar | eight checks over two copies of the state | only the owner, or a user under an override, takes control; the log replays to the same state |
| Real-time engine | interrupts, commits, writes and reads of different threads over a ring that wraps | the ring is a queue; only whole requests complete; every request ends |
| Job queue, cluster | stale copies, crashes, nodes that come and go | a job is in one place; every job settles; connections are those of calls in progress |
| Python MCP server | a cancel during a timeout; sessions closed while a stream runs; restart with another semaphore | permits return; an interrupt is heard within a chunk; every call is answered |
| Engine and compiler | models that appear after a back end was chosen; text cut anywhere | a result's file holds what it spoke; text in chunks is said whole |
| Stores, caches, logs | eviction, rotation, two objects over one directory, operations cut short | the right entry is answered; what was confirmed is not lost but by a fault |
| Hooks and plugins | hooks that come and go while they are called; callbacks that raise half way | order by priority; nothing of a plugin is left behind |
| Graphs, scenes, turns | edits in any order, overlaps, shared objects | pieces stand where their durations put them; a silent diff means the same graph |

`PROJECT.json` lists under `hazards` each place in the code where one of these
bites, with the properties that would catch it going wrong, or why none does yet.

## 2. The modules

A module models a component, or the components of one package that share no
state; the latter has a section for each, with its own variables, its own
`...Init`, `...Next`, `...Spec` and type invariant.

| Module | Models | Checked by |
|---|---|---|
| `SynthesisGate` | semaphore, request timeout and the tools' wrapper on the event loop | `tool_server` |
| `RateLimiter` | one bucket of the tool rate limiter | `services` |
| `SpeechMarkup` | SSML-lite; emotion spans and sound effects | `tool_server` |
| `SpeechRun` | the chunker; a tool call from cues to concatenated audio | `tool_server` |
| `DialogueAndAmbient` | dialogue casting; the ambient emitter | `tool_server` |
| `PythonBackend` | the backend object, its child processes, pipes, timers and the bridge's loop | `backends` |
| `HttpBackend` | one synthesis over HTTP | `backends` |
| `SpeechCompiler` | tokens, pauses, numbers; voice, speed, emotion and style (pure operators) | `backends` |
| `VoiceEngine` | `speak()`, back ends and files; compilation of text in chunks | `backends` |
| `McpServer` | the Python MCP server with sessions, streams and policy access | `mcp_server` |
| `McpGuards` | interrupt handler; policy enforcer | `mcp_server` |
| `SecretsAndSandbox` | secrets with cache and threads; the plugin sandbox | `mcp_server` |
| `Registrar` | `AudioRegistrar` with the in-memory bridge and replay | `registrar` |
| `StreamControl` | who may do what to a stream | abstract, implemented by `Registrar` |
| `SynthesisQueue` | the job queue with clients and worker threads, in memory and in Redis | `queue` |
| `RealtimeEngine` | ring buffer and sessions composed | `realtime` |
| `AudioFifo` | a bounded queue of samples with take-back | abstract, implemented by `RealtimeEngine` |
| `Cluster` | nodes, calls with retries, health checks | `tool_server` |
| `Runtime` | graph cache; batch; timeline with ducking | `services` |
| `IncrementalSpeech` | incremental synthesizer; incremental compiler | `services` |
| `Plugins` | hooks; plugin registry | `services` |
| `Conversation` | turns and their audio; script parser | `services` |
| `AuditAndRateLimit` | audit log; token bucket | `services` |
| `Monitoring` | health check; metrics | `tool_server` |
| `Observability` | metadata of MCP syntheses; metrics and alert rules of v3 | `services` |
| `Analytics` | cost attribution; usage; quality | `services` |
| `AudioGraph` | v3 graph: tracks, effects, validation, clone and diff | `services` |
| `Scenes` | scene builder and mixer; spatial sources; v3 conversation | `services` |
| `VoiceLibraries` | speaker database; v3 presets and voice profiles | `services` |
| `Accessibility` | screen readers; switch, reading and descriptions; navigation and captions | `services` |
| `AudioEvents` | recorded events rendered into speech | `services` |
| `FormatNegotiation` | `negotiate()` | `services` |
| `MC*.tla`, `*.cfg` | small instances | model checking |
| `Registrar_proofs`, `SynthesisQueue_proofs`, `RealtimeEngine_proofs`, end of `Cluster` | theorems of that component | TLAPS |
| `SynthesisGate_proofs` | theorems of the gate, the cast, the emitter and the health check | TLAPS |
| `PythonBackend_proofs` | theorems of the bridge, HTTP and `speak()` | TLAPS |
| `McpServer_proofs` | theorems of the server, its guards and its host | TLAPS |
| `Services_proofs` | theorems of limiter, speakers, token bucket, batch, screen reader, alerts and spatial graph | TLAPS |

`PROJECT.json` maps each definition to the lines it stands for. Definitions whose
name has a suffix (`Admit_OffByOne`) are mutants: a plausible bug in the same
code. Replacing the definition by its mutant makes the property of the same name
in `PROJECT.json` fail, which shows that the property depends on that code.

*Hosts.* `MCToolServer`, `MCBackends`, `MCMcpServer` and `MCServices` put several
components on small instances beside each other. Their variable `part` is chosen
in `HostInit` and says which component a behaviour is of: `HostNext` takes steps of
that component only, and the others stay in their initial state. The state space is
the sum of the components' and not their product. This is faithful because these
components share no state. A property of a host is the conjunction of what the
components promise on one subject, so that a subject is read in one place; the
conjuncts are properties of the component's own module, with their own comment.
A part's `Init` often has several initial states; a host fixes them while another
part runs. `MCMcpServer` extends its parts, whose constants its configuration gives
values, so that its properties are theorems for all of them; the other hosts
instantiate theirs on values that stand in the module.

### 2.1 SynthesisGate

JavaScript runs one callback at a time. `micro` is the microtask queue: a
macrotask (a chunk on stdin, the end of I/O, a timer) runs only when it is empty,
and every continuation of an `await` joins its end. This order decides whether
the semaphore is right, so it is modelled and not abstracted.

| Model | Code |
|---|---|
| `running`, `queue` | `SynthesisSemaphore.running`, `.queue` |
| `Receive` | one chunk of stdin with any messages in any order; `hops` counts the awaits of argument validation |
| `RateLimited` | `server.ts` answers before `run()` |
| `Admit`, `Wait`, `Refuse` | the three outcomes of `SynthesisSemaphore.run` up to its first `await` |
| `Resume` | the line after that `await`: `running++` without a second test |
| `BackendDone`, `Settle` | the promise of `fn()` settles; then the `finally` block |
| `Timeout` | the timer of `withTimeout`, which rejects and cancels nothing |
| `StartSynthesis` | the call of `fn()`, which settles after I/O, or inside the microtask queue: with any backend when a script does not parse (`voiceDialogue.ts:70-78`) or when, with base64 artifacts, a request is not valid or the backend is not ready (`voiceSpeak.ts:66-86`); with the mock backend always. `early` records which calls settled so |

### 2.2 RateLimiter

`check()` prunes, compares and records in one synchronous step: `Admit` or
`Refuse`. `Tick` moves `Date.now()`. The bucket forgets what it prunes;
`admitted`, a history variable, does not, and the properties are about it.

### 2.3 PythonBackend

| Model | Code |
|---|---|
| `proc`, `ready`, `pending`, `torn` | `this.proc`, `this._ready`, keys of `this.pending`, is `this.buffer` not empty |
| `starting` | processes whose 10 s start timer is armed |
| `CallWithProcess`, `CallSpawns`, `CallSpawnFails` | `ensureProcess()` and `send()` |
| `SpeakNotReady` | the tools' test of `backend.ready` |
| `Serve`, `Die` | the bridge's `main` loop; the process ending, perhaps in the middle of a line |
| `ReadTorn`, `ReadSkipped`, `ReadReply`, `ReadStarted` | the `data` handler, line by line |
| `Exit` | the `exit` handler, the same for every process ever spawned |
| `RequestTimeout`, `StartTimeout` | the two timers; the second calls `kill()` |

`Faults` is the set of things that go wrong in an instance. `this.proc.killed` is
left out: only `kill()` sets it, and `kill()` sets `this.proc` to null at once.

### 2.4 Registrar

One request is one step: the code takes no lock and hands over control nowhere.
`Accept`, `Deny`, `Raise` and `Observe` are the ways a call ends. `Proposed`
builds the state the request would lead to; the eight domain invariants are eight
operators under their own names (`SingleOwner` ... `PluginImmutability`);
`ParentExists` is the one structural check of the bridge that can fail.
`Registered` is the bridge's copy.

`replayed` is what `AudioRegistrar.replay(log)` returns for the log so far.
Replay is a left fold over the log, so one more attestation is one more step of
the fold. That makes "the log reconstructs the registrar" an invariant.

Metadata is enumerated only where the code reads it. `Values` are values of an
override parameter; `other` stands for the parameters no invariant compares.

`StreamControl` says what the agents that share streams rely on: the edges of a
stream's life, an owner fixed at creation, control (interrupt, stop) only by the
owner or by a user under an active override, and overrides that only a user ends.
`Registrar!Control` is the refinement mapping.

### 2.5 SynthesisQueue

The backend is chosen at construction, so it is a part of `setup`, fixed in
`Init`. In memory a job is one object everybody shares and each call is a step
under the lock. In Redis every command is a step of its own and threads work on
copies (`copy`).

| Model | Code |
|---|---|
| `store`, `queue` | `get_job`'s records, the list of each priority |
| `SubmitInMemory`, `SubmitPushes`, `SubmitConfirms`, `SubmitRaises` | `submit` and the backend's `enqueue` |
| `CancelReads`, `CancelWrites` | `cancel`, which reads, decides and writes |
| `Enter`, `Leave` | the top of `_worker_loop` under its lock |
| `Poll`, `WakeUp`, `LockFree` | at the limit a thread sleeps with that lock (`queue.py:484-487`): nobody else enters or counts itself out |
| `Dequeue`; `Pop`, `Fetch`, `Claim` | `dequeue` in memory; in Redis |
| `Miss`, `CountOut`, `Finally` | nothing to do: one decrement, and a second in `finally` |
| `Succeed`, `FailAndRetry`, `FailForGood` | the engine's call and the two ends of its `except` |
| `Requeue`, `Confirm`, `Update`, `Notify` | `enqueue` of a retry, `update_job`, webhook and callbacks |
| `StartWorkers`, `StopWorkers` | the same; a thread that outlives the 5 s join runs on |
| `RedisError`, `Crash`, `Expire` | what goes wrong around it |

SET followed by RPUSH is one step where nobody else can see the difference: a
new id is unknown to others, and the end of a list moves past what others do.

### 2.6 RealtimeEngine

The buffer's operations hold its lock and are one step each (`Write`, `Read`,
`Rollback`, `Clear`). Everything else is a step per access to what threads share:
the worker (`Poll`, `Take`, `ClearEvent`, `Mark`, `Test`, `Space`, `WriteChunk`,
`Verdict`, `Commit`, `Idle`, `Finally`, `Raise`), the caller of `interrupt`
(`Interrupt`, `SetEvent`, `Flag`, `EnterRollback`, `Undo`), `Speak`, `SpeakImmediate`,
`Stop`. A request comes in chunks of as many samples as the back end puts into them
(`ChunkLen`: Piper yields whole sentences, whatever `chunk_size_samples` says), and a
chunk may be longer than the ring. Sample *i* of chunk *k* of request *r* is
`<<r, k, i>>`, so loss, repetition and reordering are visible. `intact`, `dropped` and `late` are history
variables.

`AudioFifo` is the promise without ring positions: first in first out, a write to
a full queue pushes the oldest out, a rollback takes the newest back. A rollback
that takes back more than is buffered (the reader was faster) leaves the code's
write position behind its read position; the abstract specification promises
nothing from there until the buffer is cleared.

### 2.7 The other TypeScript components

*SpeechMarkup.* SSML-lite is read piece by piece: `Text`, `Open`, `Close`, `Break`
push and pop a stack of tags, `Finish` closes what is left open. `spoken` and `raw`
are histories of what the input said. Emotion spans (`OpenTag`, `CloseTag`) and the
sound-effect parser with the `lastIndex` of its global expression form the second
section.

*SpeechRun.* The chunker's cascade (paragraphs, sentences, clauses, hard split,
merge, two truncations) works on texts of words that have a size and a stop after
them, so a chunk's length in characters is exact and its letters are left out. A
run takes the cues of a call one after the other; a plain cue is one call, an
emotion cue is planned, chunked, synthesised and concatenated. `Lose` is the
retention timer deleting a file, or a file that cannot be read; `Abort` is the
caller's signal.

*DialogueAndAmbient.* Lines of a script become cues; a speaker without a voice
gets the next one of a pool that no speaker of the cast has, until the pool is
used up. The emitter's clock ticks; `EmitThought` accepts, `PruneExpired` forgets.

*HttpBackend.* `Synthesize`, `Headers`, `Body` or `Download`, and `TimeOut`, which covers the
wait for headers and nothing after it, as in the code.

### 2.8 The Python MCP server

*McpServer.* Tasks on one asyncio loop: a step lasts from one suspension to the
next. `Receive` takes a permit of the semaphore or joins its queue (`waiters`, one per
semaphore, since a `start()` makes another); an answer hands its permit to the head of
that queue (`Answered`). `speak()` of the engine is called on the loop (`tools.py:250`,
and `:363` for an engine without `stream()`): a handler that is in it is "speaking", and
until `EngineReturns` no other step is taken (`LoopFree`), no timer's either. `Speak`,
`BeginStream`, `Chunk`, `EndStream`, `Interrupt` are tool calls with the policy's verdict, the
session that is found or made (`Resolve`) and the streams in it; `Timeout` cancels
a handler at a suspension; `CloseSessions`, `CleanupExpired` end sessions; `Start`
and `Stop` replace the semaphore. A stream whose session is closed counts as
interrupted (`IsInterrupted`).

*McpGuards.* The interrupt handler keeps a position per stream and a bounded list
of rollback points, which a player that jumps back leaves ahead of it. The
enforcer's `CheckAll` and `Record` are two calls with the work of a request
between them: `overlap` counts what was checked before and recorded after.

*SecretsAndSandbox.* A lookup reads the cache, the memory, the environment with the
prefix and without, and stores what it found: steps between which another thread may
set or delete and the environment may change. The sandbox is one object: `Enter` and
`Leave` of runs that overlap share its monitor, which limits clock and CPU time. A run
returns, raises, or leaves by a `BaseException`, which no `except` of `execute` catches.

### 2.9 The engine of the library

*SpeechCompiler* holds operators: normalisation, sentences, clauses and pauses over
texts of symbols (a word, a title, an abbreviation, a number, marks, a space), the
reading of numbers, and the choice of voice, speed, emotion and style. Speeds are
logarithms, so that factors add up.

*VoiceEngine.* `speak()` compiles, lowers for the back end in use (Kokoro, Piper or
the mock), synthesises and writes a file whose name depends on the voice and the
text; models may be installed after the engine was made, and a call fails without
them. `Stream` yields the same result in cuts. The second section feeds text in
chunks to `compile_stream`.

### 2.10 Services of the library

- *Cluster*: selection by strategy, `Send`, `Reply`, `Fail` with failover, the health
  thread's snapshot and verdicts; nodes change under both.
- *Runtime*: the cache with threads that compile outside its lock, from requests with
  options that its key leaves out and a voice its key takes for none; a batch whose
  items fail while compiled, synthesised or saved; a timeline of speech, pauses and
  events, where a pause is absorbed as far as the code does.
- *IncrementalSpeech*: words that are speculated, committed and corrected, with the
  audio of each; text fed to the compiler in any cuts, with clause, sentence and
  forced commits and tags that become events.
- *Plugins*: registration, priorities and calls that change the list they iterate,
  with `list.sort()` emptying it meanwhile; a registry with dependencies, whose
  callbacks raise half way, and which keeps what `register_hook` was given.
- *Conversation*: a script's lines under three formats; turns, their timeline and
  the audio that is made of them.
- *AuditAndRateLimit*: buffer, flush thread, rotation and faults between them, a
  rename that fails after some of the others and a `close()` that raises included; a
  bucket whose `current_tokens` refills without the lock.
- *Monitoring*: a cached check, a monitor thread that may outlive its stop; metrics
  recorded while an export iterates.
- *Observability*, *Analytics*: trackers that nest and end out of order; alert rules
  that raise; attribution under a concurrent clean-up; tiers of prices; buckets of
  usage with retention; a cooldown of alerts that is tested and set in two steps.
- *AudioGraph*, *Scenes*, *VoiceLibraries*: objects under any sequence of edits.
  Where Python shares an object, the model has a heap (`VoiceLibraries`); where it
  writes files, an operation may be cut short after any of its writes.
- *Accessibility*: cursors over documents and tables, caption pieces, a screen
  reader that is found once, ducks and queues, a switch that scans, a track of
  descriptions that is sorted when asked.
- *AudioEvents*, *FormatNegotiation*: variants by intensity, recordings that vanish,
  events at any place of a speech; four strategies over two capabilities.

## 3. The runs

Every passing run checks a type invariant and the properties named; each property
has mutants that break it. Deadlock is checked where the system never stops
(registrar, real-time engine). Elsewhere the calls, jobs or edits of a small
instance may be over, which is a proper end.

| Run | Question | Distinct states |
|---|---|---|
| `registrar` | Do two streams, a user and two agents keep the registrar's promises, whatever they ask? | 5.6 k |
| `tool_server` | Is every call answered within the limits, and does it say its whole text; are the library's nodes and monitors accounted for? | 446 k |
| `backends` | Do calls survive crashes, late starts, torn lines and silent servers, and is the audio what was asked for? | 360 k |
| `mcp_server` | Are interrupts heard, permits returned, limits kept and secrets current? | 287 k |
| `queue` | Does each job stay in one place, settle and keep its result, in memory and in Redis? | 340 k |
| `realtime` | Is the ring a queue, and do interrupts, completion and backpressure do what they say? | 190 k |
| `services` | Do the other components of the library keep their promises under threads, faults and edits? | 765 k |
| `registrar_transfer`, `gate_limit`, `python_backend_orphan`, `queue_cancel`, `realtime_commit` | One disagreement each, see [section 6](#6-what-the-code-does-otherwise) | |

### registrar

- `WellFormed`: types; order indexes are distinct and gap free; the versions of all
  streams add up to the number of accepted transitions.
- `ReplayReconstructs`: the registrar rebuilt from the log equals the live one.
- `RegistryAgrees`: the registrar's and the bridge's copies agree.
- `NoBypassHalt`: the HALT of the accessibility invariant is unreachable through
  `request`.
- `ChangesAreAttested`: every change is the newest attestation's, and marked when
  it concerns accessibility.
- `ImplementsControl`: refinement of `StreamControl`.

*Bounds.* Two streams, because only they can exchange order indexes; two agents
and a user, so that owner, other agent and overriding user are three actors; one
override value beside "not given". `MaxAlone = 7` accepted requests while there is
one stream: five lead to a user interrupting a stream it does not own under an
override, seven to its restart and the end of the override. `MaxOrder = 4` once
there are two. Denied and observed requests are not bounded. `VIEW WithoutLast`
leaves out `last`, which every request overwrites and none reads: two states that
differ there have the same futures, and the properties that mention it are about
steps, each of which TLC evaluates. The names and the agents are used
symmetrically and no liveness is checked, so symmetry is sound.

### tool_server

- `SlotsHeld`, `EveryRequestAnswered` (even when backends hang), `SlotsReturned` (when
  backends end): the gate. The limit itself is not kept (`gate_limit`, section 6); what
  is kept is `LimitButForEarly`: it is passed by no more than the calls that settled
  without I/O, those who are about to resume counted in. `NoOvertaking`: a call never
  takes a slot from who is in the queue, and from a woken waiter only after such a
  call. The excess is not made up for: an ending synthesis hands its slot to a waiter
  without looking at the counter.
- `SpeechIsWhole`: `Balanced`, `SaysEverything` and `NothingLost` of the markup;
  `ChunksSayTheText`, `MadeInOrder` and `LineIsWhole` of the run.
- `LimitsKept`: `SpacedAndNewest` of the emitter, `NewVoiceWhileItLasts` of the cast;
  of what serves calls in the library, the cluster (`ConnectionsCounted`), health
  (`CachedIsFresh`, `MonitoredWhenStarted`, `WorstReported`) and metrics
  (`CountsObserved`, `HistogramAgrees`, `ExportIsWhole`).

*Bounds.* Two slots and four requests: two run, one waits, one is refused or arrives
at the moment the waiter is woken. `MaxHops = 1` makes handlers arrive at the
semaphore in another order than they were called. Chunks of three characters with at least two, eight in a text: words of
one, two and four characters fit, are merged, and are cut. Four pieces of SSML with
breaks longer than the limit; five pieces in an input. Four speakers for three
places and three voices of a pool of which the cast has one. Two calls over a node and
one that is added, with one retry and a threshold of two failures. Five half seconds
of health: the cache is good for two, the join of a stop for four. Two threads record
three syntheses of two backends while an export goes on.

### backends

- `AwaitedIsPending`: whoever waits, and only they, has an entry and thus a timer.
- `ProcessInUse`: ready means a started process; unless a start was given up, the
  process that runs is the one in use. That qualification is where the code breaks
  the promise; `python_backend_orphan` shows it.
- `AudioAsAsked`: `SizeRespected` over HTTP; `ResultStands`, `VoiceAsAsked`,
  `TempoFollows`, `StreamIsWhole` of the engine; `EveryWordOnce`, `CutsDoNotMatter`,
  `PauseFollowsMark`, `NumberReadBack` of the compiler.
- `EveryCallReturns`: every call of the bridge is answered, and so is a fetch that a
  server leaves silent.

*Bounds.* Two processes, so that events of an old one meet a new one; three calls:
one starts it, one joins while it starts, one comes after. Sizes one and two around
a limit of one. Two `speak()` calls over every set of installed packages, so that a
second call meets the files and the models of the first. Five symbols fed in pieces:
enough for an abbreviation, its period and what follows, cut at each place.

### mcp_server

- `StopsAreHeard`: at most one chunk follows an interrupt or the end of the session,
  and none after.
- `RecordsAgree`: `SessionsIndexed`, `PointsInOrder`, `CacheFollowsWrites`,
  `OutcomeIsOwn`, `ContextsOfRuns`.
- `LimitsKept`: `PermitsAccounted`, `StreamsLimited`, `MinuteBound`, `StreamsCounted`, `GrantedByOne`.
- `EveryCallAnswered`: every request gets an answer, also when streams hang, provided
  that every call of the blocking `speak()` comes back (`EnginesReturn`).

*Bounds.* Three requests of two agents for two permits: one waits. One stream per
session, so that a second is refused. Two starts: permits of a semaphore that was
replaced. Two late chunks, one more than allowed. Three calls of the enforcer over
three ticks, of which a minute is one, with a policy that changes between. Two
threads and two values of a secret that lives one tick. Two runs in the sandbox,
which overlap or do not.

### queue

- `JobsAccounted`: `OnePlace` (a job is in a list, run by one thread or settled:
  never two of these, and never none once its id was returned), `RetriesBounded`,
  `ResultKept`, `ActiveNeverOverstates`.
- `HighestFirst`, `EveryJobSettles`, `EverySuccessTold`.

*Bounds.* `setup` is chosen in `Init` from five small systems rather than one
large one: two jobs of different priority in memory with one mishap; a job whose
priority no thread reads, in memory and in Redis; one job in Redis with one
mishap; two jobs in Redis without. A mishap is a cancel, a stop, a Redis error, an
expiry or a crash, at any moment; two mishaps in one history are not explored. Two
threads against a limit of one; two attempts per job, the first of which may be retried.
`Floor` bounds `_active_jobs` from below, because the code lets it drift down for
ever: at `Floor` all threads together stay under the limit, so lower values behave
the same (the assumption `QueueConfigAssumption` says so).

### realtime

`AudioIsWhole` (`CompletedWasWhole`, `OneChunkLate`, `BlockNeverDrops`),
`ImplementsFifo`, `EveryRequestEnds`.

`EveryRequestEnds` has a premise, `ChunksFit`: under BLOCK the chunks of the session
are no longer than the ring. Nothing in the code ensures it (see
[section 6](#6-what-the-code-does-otherwise)); without it a session waits for ever.

*Bounds.* A ring of two samples: requests of two chunks or of one chunk of two samples
fill it, wrap it and make it drop, and a chunk of three is longer than it. The seven
systems of `Setups` hold two requests each at most, from one session or two or beside
a `speak_immediate`, under either policy, with interrupts, and with the stop, clear
and failure that matter there. In one of them a session waits for ever for a chunk
that does not fit, and the other session's request still ends.

### services

- `WindowExact`, of the tool rate limiter: no window admits more than the limit, and a
  refused call would not have fitted.

Each other property is a conjunction over the components of its subject.

- `CountsAgree`: token bucket (`BurstUnlessRaced`), incremental synthesizer
  (`BufferAccounts`), audit (`EventsKept`, `FilesBounded`, `LostByFaultOnly`), metadata (`CollectedOnce`, `ActiveIsNewest`),
  costs (`BilledOnce`, `ReportAddsUp`, `EachCharacterPriced`, `ForecastIsUsage`),
  usage (`QueryExact`, `NewestLatencies`), quality (`AlertsSpaced`,
  `RegressionIsReal`), v3 metrics (`RulesCountAll`, `ReportIsLast`).
- `CacheIsExact`: graph cache (`OwnGraph`, `MostRecentKept`), screen reader
  (`FirstRunning`).
- `AudioInItsPlace`: batch (`SuccessIsWhole`), timeline (`PlacedExactly`,
  `DuckedExactly`), conversation (`TimelineMatchesAudio`), scene (`HeardOnceInPlace`,
  `OverlapIsCrossfade`, `DuckedUnderSpeech`), spatial (`StaysOnTheWay`, `SpeedKept`,
  `GainFalls`), v3 conversation (`NoUnaskedOverlap`, `NotBeforeStart`,
  `DuckedByOthers`), incremental compiler (`SaidOnce`, `NothingOverdue`,
  `WordsCutOnlyByForce`, `TagsAreEvents`), audio events (`SpeechWhole`,
  `EventsInPlace`, `PlayedFits`).
- `PluginsInOrder`: hooks (`CalledByPriority`, `TriggerReachesAll`), registry
  (`NothingLeftBehind`).
- `EditsConsistent`: navigation (`CursorsValid`, `PiecesCover`), audio graph
  (`DiffMirrors`, `BreakageIsDiffed`, `SilentMeansSame`), spatial
  (`PathsOfSources`), speakers (`EmbeddingsSurvive`, `IndexIsRight`), presets
  (`PresetsAreApart`, `LoadedInPlace`), v3 conversation (`ReadBack`), switch and
  reading (`RunsWhatWasHighlighted`, `TrackInOrder`, `WordOfText`), screen reader
  (`NotLeftDucked`, `QueueIsNewest`), script (`SpeakersOfTurns`,
  `LinesBecomeTurns`), formats (`SilentMeansSupported`, `SameForBoth`).

Where the code breaks such a promise in a case that no sentence of the repository
excludes, the property names the case (`BurstUnlessRaced`: unless a refill without
the lock overlapped another; `IndexIsRight`: until a torn or a stale index takes its
place) and [section 6](#6-what-the-code-does-otherwise) lists it.

*Bounds.* Two of what interferes (threads, databases, objects that are shared), and
so many calls that the earliest can meet every later kind: three to six. Durations,
distances and times are the smallest that are below, at and above each threshold. Two admissions in three
ticks over nine times: an entry of the limiter is younger than, exactly as old as, and
older than the window. Each component's constants stand beside its INSTANCE in the host.

## 4. Fairness

- *Gate*: microtasks run when the queue is not empty, and a timer that is due
  fires: this is the event loop. That a backend ends is not assumed, except as the
  explicit premise `BackendsEnd` of `SlotsReturned`.
- *Python and HTTP backends*: timers fire and the exit event of a dead process
  arrives (Node's loop). Nothing is assumed of the child or the server: it may
  never read or answer.
- *Python MCP server*: when it is free, the asyncio loop runs a task that is ready, and
  the timer of `wait_for` fires. Nothing is assumed of the engine's `stream()`. That its
  blocking `speak()` returns is the explicit premise `EnginesReturn` of
  `EveryCallAnswered`: without it the loop is held, and no timer can fire.
- *Queue*: each thread goes on where it is not kept from the lock (weak fairness of its
  next step), which contains that the engine returns. `EveryJobSettles` has two
  premises: that from some time on a thread is left and the queue is not stopped,
  since nobody has to start or restart workers; and `LockIsFair`, that a thread which
  has to count itself out gets the lock in the end. Python's locks do not promise
  that, and the model shows what happens without: TLC answers with a thread that polls
  at the limit, asleep with the lock, for ever.
- *Real-time engine*: worker threads go on and the player goes on reading, as an
  audio callback does. Callers of `interrupt` need not be scheduled. Without the
  player a worker waits for space for ever under BLOCK (`engine.py:505`), and with it
  still if its chunk is longer than the ring: `ChunksFit` is the premise.
- *Everything else*: safety only. The services that loop (health monitor, flush
  thread) promise no answer to anyone.

## 5. The proofs

| Theorem | Says | Assumes |
|---|---|---|
| `Registrar_proofs!TypeCorrect` | `Spec => []TypeOK` | |
| `RegistryAgreement` | the two copies agree | |
| `OrderIsGapFree` | `Spec => []OrderGapFree`: order indexes are distinct, below the next one, the newest in use | |
| `WellFormedKept` | `Spec => []WellFormed`: also, the versions of all streams add up to the next order index | |
| `IndexesAreVersions` | a step spends one index on one version of one stream, or none on none | |
| `ReplayFidelity` | the log replays to the live registrar | requests name their target |
| `NoHalt` | no request ends in `AccessibilityBypassError` | |
| `Attested` | changes are attested | |
| `RateExplicit` | under an override the speech rate changes only by `update_override` | |
| `Implementation` | `Spec => Control!Spec` | |
| `SynthesisGate_proofs!GateTypesKept` | `Spec => []TypeOK`: the counter is never negative | |
| `SlotsCounted` | `Spec => []SlotsHeld`: no slot leaks, none is given back twice | |
| `LimitKept` | `Spec => []LimitButForEarly`: the limit is passed by no more than the calls that settled without I/O | |
| `TurnsKept` | `Spec => NoOvertaking`: a call that starts takes its slot from nobody in the queue | |
| `DialogueTypesKept` | `DialogueSpec => []DialogueTypeOK` | `DialogueConfig` |
| `VoicesAreNew` | `DialogueSpec => []NewVoiceWhileItLasts`: while a voice of the pool is unused, a new speaker gets one that is | `DialogueConfig` |
| `ThoughtsSpaced` | `AmbientSpec => []Spaced`: thoughts keep both cooldowns | `AmbientConfig` |
| `HealthTypesKept` | `HealthSpec => []HealthTypeOK` | `HealthConfig` |
| `FreshnessKept` | `HealthSpec => []CachedIsFresh`: a cached answer is fresh unless checks overlapped | `HealthConfig` |
| `MonitorRuns` | `HealthSpec => []MonitoredWhenStarted` | `HealthConfig` |
| `PythonBackend_proofs!TypesKept` | `Spec => []TypeOK` | |
| `AwaitedKept` | `Spec => []AwaitedIsPending`: nobody waits without an entry, nor an entry without a waiter | |
| `InUseKept` | `Spec => []ProcessInUse` | |
| `HttpTypesKept` | `Http!Spec => []Http!TypeOK` | `HttpConfig` |
| `HttpSizeKept` | `Http!Spec => []SizeRespected` | `HttpConfig` |
| `SpeechTypesKept` | `EngineSpec => []EngineTypeOK` | `EngineConfig` |
| `FilesStand` | `EngineSpec => []ResultStands`: a file holds what its call spoke until a later call has its name | `EngineConfig` |
| `McpServer_proofs!ServerTypesKept` | `Spec => []TypeOK` | |
| `StopsHeard` | `Spec => []StopsAreHeard` | |
| `IndexKept` | `Spec => []SessionsIndexed` | |
| `PermitsKept` | `Spec => []PermitsAccounted` | |
| `StreamLimitKept` | `Spec => []StreamsLimited` | |
| `InterruptTypesKept`, `PointsKept` | `InterruptSpec => []InterruptTypeOK`, `[]PointsInOrder` | |
| `PolicyTypesKept` | `PolicySpec => []PolicyTypeOK` | |
| `MinuteKept` | `PolicySpec => []MinuteBound`: a minute exceeds a limit by no more calls than were in the air | |
| `StreamCountKept`, `GrantKept` | `PolicySpec => []StreamsCounted`, `[]GrantedByOne` | |
| `SecretTypesKept` | `SecretSpec => []SecretTypeOK` | |
| `CacheKept` | `SecretSpec => []CacheFollowsWrites` | |
| `SandboxTypesKept` | `SandboxSpec => []SandboxTypeOK` | |
| `OutcomesKept`, `ContextsKept` | `SandboxSpec => []OutcomeIsOwn`, `[]ContextsOfRuns` | |
| `HostTypesKept`, `RecordsKept`, `AllLimitsKept` | `HostSpec => []WellTyped`, `[]RecordsAgree`, `[]LimitsKept`: the invariants of the run `mcp_server`, as it states them | |
| `Services_proofs!LimiterTypeCorrect` | `Spec => []TypeOK` | |
| `WindowKept` | `Spec => []WindowBound` | |
| `RefusalJustified` | `Spec => []RefusedWhenFull` | |
| `LimiterExact` | both, as `Spec => []WindowExact` | |
| `SpeakerTypesKept` | `SpeakerSpec => []SpeakerTypeOK` | `SpeakerConfig` |
| `EmbeddingsKept` | `SpeakerSpec => []EmbeddingsSurvive` | `SpeakerConfig` |
| `IndexRight` | `SpeakerSpec => []IndexIsRight` | `SpeakerConfig` |
| `BucketTypesKept` | `BucketSpec => []BucketTypeOK`: never above the burst | `BucketConfig` |
| `BurstKept` | `BucketSpec => []BurstUnlessRaced` | `BucketConfig` |
| `BatchTypesKept` | `BatchSpec => []BatchTypeOK` | `BatchConfig` |
| `SuccessWhole` | `BatchSpec => []SuccessIsWhole` | `BatchConfig` |
| `ReaderRestored` | `ReaderSpec => []NotLeftDucked` | `ReaderConfig` |
| `QueueKept` | `ReaderSpec => []QueueIsNewest` | `ReaderConfig` |
| `AlertsKept` | `QualitySpec => []AlertsSpaced`: a cooldown from check to check, and from a check to the next alert's own time | `QualityConfig` |
| `PathsKept` | `SpatialSpec => []PathsOfSources` | a limit in `Nat` |
| `SynthesisQueue_proofs!QueueTypesKept` | `Spec => []TypeOK` | |
| `JobsKept` | `Spec => []JobsAccounted`: one place, bounded retries, results that stay, a counter that never blocks | |
| `HighestTaken` | `Spec => HighestFirst` | |
| `Cluster!ClusterTypesKept` | `Spec => []TypeOK` | `ClusterConfig` |
| `ConnectionsKept` | `Spec => []ConnectionsCounted`: no connection leaks, none is given back twice | `ClusterConfig` |
| `RealtimeEngine_proofs!EngineTypesKept` | `Spec => []TypeOK` | |
| `AudioKeptWhole` | `Spec => []AudioIsWhole` | |
| `FifoImplemented` | `Spec => ImplementsFifo`: the ring implements `AudioFifo` | |

All hold for every value of the constants that meets the named assumptions of the
modules: disjoint id and actor sets, positive limits, a finite set of requests or
threads, a `NoJob` that is no record. TLC evaluates those assumptions on its
instances. The premises of the third column are hypotheses of the theorem; the run
satisfies them. Those named `...Config` stand in the proof module, because the runs
instantiate these components and TLC reads no assumption of an instance; they say
that limits, cooldowns and bounds are numbers, and what else is said below. Each component's invariant is the conjunction TLC checks, with what
makes it inductive.

*Registrar.* The type invariant is inductive: `ProposedType` and `RegisteredType`
type what a request builds, once for the live and the replayed registrar.
`RegistryAgrees` and `ReplayReconstructs` are inductive relative to it: a request
writes both copies alike, and in equal registrars it has equal outcomes.
`OrderGapFree` needs only the types: an accepted request registers its stream under the next index, above all
others. `WellFormed`'s sum of versions is counted without a sum (`VersionsCounted`):
the pairs of a stream and one of its versions are as many as the order index, and a
step adds one pair (`SpendingCounts`) or none (`IndexesAreVersions`). The
premise of `ReplayFidelity` is needed, since a stream created without a target
gets a fresh uuid and the replay another one. `NoHalt` rests on
`ProposedOverride`: no proposed state drops an active override except
`disable_override`. `Implementation` maps each accepted request to an action of
`StreamControl`: `KnownStep` splits on the action requested, `UnknownStep` shows
that a request to an unknown id creates a stream, `OtherMaps` that the rest has no
effect.

*Gate.* `SlotInv`: `running` counts the handlers that hold a slot, because each
request has at most one continuation in the microtask queue, at the stage its handler
is at (`Placed`, `Apart`), and who waits is in the queue, alone (`WaiterQueued`). The
limit is not inductive, because `Resume` takes a slot without testing it. What bounds
the damage is that a chunk of stdin and the end of an I/O come in only when no
microtask is left: so while a call is on its way, whatever settles does so without
I/O, and no more are woken than settled so (`CallsAhead`). `TurnInv` adds that a
request waits only while no slot is free, and that whoever is woken has its
continuation in the queue. An admission then raises the sum of those who run and those
about to resume above the limit only where `CallsAhead` allows for it; a settle and a
resume do not raise it.

*Dialogue.* A new speaker's voice is searched by going round the pool, so that a voice
which is used already means that every place of the pool was looked at
(`RoundThePool`; `RemainderIs` says which place an index stands for). `DialogueConfig`:
the pool is not empty.

*Ambient emitter.* `ThoughtsTimed`: no thought is newer than the time that is kept of the
last one, nor than the one kept for its category.

*Health.* `HealthInv` dates what is held (`Dated`): while no two checks overlapped, one
thread at most computes, what is cached is no older than its time says, and whoever
serves from the cache read it while it was fresh. `HealthConfig`: the monitor's thread is no caller.

*Rate limiter.* The bucket is a suffix of the history of admissions, times never
decrease, and what was cut off is older than the window (`WindowInv`). `Pruning`
shows that cutting expired entries keeps this; an admission then finds entry
*n - maxCalls* cut off, thus old enough.

*Python backend.* `BackendInv`. That a call which starts a process waits on an armed
timer needs that no two calls start the same process (`StarterDistinct`), that a timer
is armed for the process in use only (`StartIsPending`), and that the reply to a
health check comes from the process it was sent to (`OwnStart`). That ready means a
started process needs `OneProcess`: until a start is given up, the process that has
not exited is the one in use. `PipeEffects` says once, for all steps, where a line
may come from; `Control` is kept by each kind of step.

*HTTP backend.* `HttpInv`: nothing is held before there is a body, and what is handed on
comes from an address or has passed the limit.

*Engine.* `ResultsNamed`: each result's file is there, under the name that its text and
voice or the caller give it, so that whoever writes over it has that name too. `speak()` is taken whole, with
whatever its compiler's operators yield: the theorem does not depend on them.

*Python MCP server.* `ServerInv` has a half for calls and permits and a half for
sessions and streams, which meet in one fact, that a request has no stream before its
handler began. In the first half, whoever is in a semaphore's queue waits for that
semaphore and is there once (`WaitersWait`), so that a permit passed on is counted
once; in the second, a live stream is in a live session (`LiveInSession`), so that
closing a session is heard by all its streams.

*Interrupt handler and policy.* `InterruptInv`: the points of a stream are spaced, and
the first is no further from the last than may be taken back. `PolicyInv` says of
*every* set of counted calls that one of them was checked when there was room for all,
but for those in the air (`RoomForAll`), because the clock may drop any of the others;
a call is recorded once, when it is over (`StampedOnce`).

*Secrets and sandbox.* `SecretInv`: unless a lookup was overtaken, the only thread that
sets holds what the memory has (`WriterHolds`), and while nobody writes, what lookups
found so far and what is cached is so (`LookupsTrue`, `CacheWasTrue`). `SandboxInv`: a run that has no other
beside it owns the monitor (`AloneInside`, `EndsWell`), and contexts are those of the
runs inside (`ContextsInside`).

*The host `mcp_server`.* A behaviour of the host is a behaviour of each part or keeps
it in an initial state (`HostIsEach`), so that a part's theorem holds in the host, and
the run's three invariants are theorems for all constants of all parts.

*Speaker database.* `SpeakerInv` says of each place in an operation what it has written:
files and index may differ by the speaker of the operation that is underway or was cut
short (`Unsure`), and by no other (`FilesAgree`, `IndexAgrees`).

*Token bucket.* `BucketInv`: one thread is inside the lock; and as long as no refill
without it overlaps another, the tokens and what was granted are covered by the burst
and what time refilled up to the last refill (`BucketAgrees`, `Covered`).

*Batch.* `BatchInv`: while items are compiled, one that a worker has is fresh; the loop
leaves behind it only items with an error or all that was asked for (`Passed`), and
has touched none before it (`Ahead`).

*Screen reader.* A reader is lowered only by an adapter that can restore it, and an
adapter that is there stays (`AdapterStays`). The queue is a run of consecutive numbers
up to the newest (`Run`), which `RunGrows` extends by one and shortens at its limit.

*Alerts.* `QualityInv`: while nobody was between another's test and setting, one thread
at most is about to alert of a voice (`OneAlertsOfAVoice`), its cooldown is over
(`CooledAlerts`), and the time that is kept is no older than any alert's check
(`LastIsNewest`). `Dated` carries this over to the alert's own time, which is taken
later (`quality.py:71`): it is a cooldown after the check of the alert before, and
nothing more is true of it.
`QualityConfig`: `set_alert()` lowers the threshold, as in the model.

*Spatial graph.* `PathsKept` is inductive with the finiteness of the sources.

*Job queue.* `QueueInv`: a list holds the jobs of its priority, each once (`Placed`); what a
thread is at says what it holds (`Held`); and a record counts no more attempts than
were made, whoever holds a copy and however old it is (`Counted`). The last is what
survives the stale copies of Redis and bounds the retries in both backends.

*Cluster.* `ClusterInv`: the types, the counts, and that a call at a node knows which
and has retries left (`CallsPlaced`). A step moves one call (`OthersStay`), so it
adds one to one count or takes one from it (`ArrivalCounted`, `DepartureCounted`). The
premise `ClusterConfig` says that the calls are finitely many, the first nodes
distinct and the thresholds positive.

*Real-time engine.* `EngineInv`. `Underway` says what a worker knows at each step of
its request's chunks and of the interrupt event; it holds because a request is in one
session's hands (`InHand`). `Spared` says that under BLOCK a single writer which has seen
space for its chunk still finds it. The refinement needs `RingMeets` alone: until a rollback
overtakes the reader, the write position is `count` samples after the read position.
From it `WritePuts`, `ReadGets` and `RollbackTakes` compute, sample by sample, what the
queue is after an operation, for every size of the ring and audio longer than the
ring.

Only model-checked:

- all liveness (`EveryRequestAnswered`, `SlotsReturned`, `EveryCallReturns`,
  `EveryCallAnswered`, `EveryJobSettles`, `EverySuccessTold`, `EveryRequestEnds`),
  which is outside what the installed provers do;
- of the host `tool_server`: the parsers of markup, the chunker and the run, that the
  emitter keeps the newest thoughts, the worst of the health components, and the
  metrics; of `backends`: voice and tempo (tables), streams, and the compiler of text;
  of `services`: the cache, timeline, hooks and plugins, conversation, navigation,
  streaming, audio graph, audit, observability, costs and usage, scenes, presets and
  whatever else of section 2.10 the table does not name;
- what is written with `SelectSeq`, `SortSeq` or a fold, and what a recursive function
  computes of every text, list or sum. To the prover `SelectSeq` has no definition, the
  library proves nothing of these operators, and its induction theorems take an
  operator as a parameter, which the installed provers cannot instantiate. Induction over a *finite set* is within reach, as a
  minimal element of a well-founded relation on its subsets; the proofs that need the
  greatest or least of something use it (`MaxIs`, `LeastIs`).

## 6. What the code does otherwise

Five runs end in a counterexample, each against a sentence of the repository.

| Run | Sentence | What happens |
|---|---|---|
| `registrar_transfer` | `docs/STATE_MODEL_REFERENCE.md:122`: TRANSFER "Must be current owner" | a transfer proposes the state the stream has, and no state is its own successor (`invariants.py:545`): always denied |
| `gate_limit` | `HANDBOOK.md:310`: only one synthesis at a time | a call that settles in the microtask queue, with any backend (a script that does not parse, an invalid base64 request, a backend that is not ready), wakes the waiter behind a queued call, and both start (`concurrency.ts:34`) |
| `python_backend_orphan` | `pythonBackend.ts:253`: "Kill the Python process" | the exit event of a killed process disowns its successor (`pythonBackend.ts:170`) |
| `queue_cancel` | `queue.py:427`: "Cancel a queued job" | the id stays in its list, and a worker takes it (`queue.py:441`) |
| `realtime_commit` | `buffer.py:71`: committed means "cannot rollback" | `rollback` tests before it locks and `commit` does not lock (`buffer.py:330`) |

Seen while modelling, in the model unless it says otherwise, but without a run of
their own. Paths are those of section 1.1.

*Registrar and core of the servers*

- *Registrar.* An exception of `StreamOwnership` leaves `request` before the
  attestation (`registrar.py:211`); `enable_override` for an unknown stream
  creates the stream without the override; overrides are called "User only"
  (`docs/STATE_MODEL_REFERENCE.md:128`) and only disabling is checked; replay of
  requests without a target makes other uuids. The documents disagree about
  interrupts: `docs/STATE_MODEL_REFERENCE.md:223-225` and `:368-388` let any agent
  interrupt under an active override, and a stranger when the stream is
  interruptible; `docs/ROADMAP_v2.8.md:155` has the override block agents. The code
  denies both (`invariants.py:186`, `:224-237`, `:299-313`), and
  `StreamControl`, and so `ImplementsControl`, state the code's rule.
- *Python backend.* A process that cannot be spawned stays in `this.proc`
  (`pythonBackend.ts:161`); part of a line survives its process (`:149`); with
  `--backend=python` nothing starts the process until `voice_status` is called
  (`voiceSpeak.ts:86`).
- *HTTP backend.* Body and download have no timer, and a download no size limit.
- *Queue.* A thread that finds the limit reached sleeps with `_lock` and asks for it
  again at once (`queue.py:484-487`), so that the thread which would count itself out
  (`:503-505`) may never get it, and no further job starts. An idle poll counts `_active_jobs` down twice (`queue.py:496`, `:505`),
  so that the limit stops limiting; in Redis a late write of an old copy lowers
  the retry count or overwrites a result (`:268`), which is why the upper bound of
  `RetriesBounded` and `ResultKept` speak of memory only; webhooks also report
  retries; the default priority 2 is out of range with two levels; a thread that
  outlives the join of `stop_workers` is revived by `start_workers`.
- *Real-time engine.* An interrupt between `engine.py:220` and `:221` is wiped
  out; CLOSED may be overwritten (`:206` against `:220`, `:246`, `:154`); a worker
  killed by an exception leaves SYNTHESIZING (`:252`); BLOCK waits without looking
  at the events (`:505`), and for ever when the chunk is longer than the ring: Piper
  yields whole sentences (`piper.py:255`), and `config.py:108` accepts a
  `chunk_size_samples` of 512 over a ring of 480; a rollback past the reader
  (`buffer.py:345`).
- *Cluster.* A tried node that is selected again is skipped without end
  (`cluster.py:306`); a node added in a request raises `KeyError`; exceptions do not reset successes.
- *Python MCP server.* While the engine's `speak()` runs on the loop (`tools.py:250`,
  `:363`), the timeout of `server.py:393` cannot fire, for that request or any other: an
  engine that hangs there stops the server. Streams are registered and never completed (`tools.py:315`
  to `:373`, `sessions.py:47`), so a session refuses its later ones
  (`sessions.py:202`); only `check_tool_access` is called, and no limit is enforced
  (`server.py:244`); `stop()` only logs; an interrupt of an unknown stream reports
  one (`tools.py`); the language filter of the voice list is inverted
  (`tools.py:524`, not modelled); `interruptible` is ignored.

*Text and speech*

- *Markup.* A break of `time="xs"` is NaN milliseconds (`limits.ts:6`); entities are
  decoded twice; `hasSfxTags` keeps its `lastIndex` from call to call; a span that
  has no text succeeds without audio.
- *Tools.* `concat` (`server.ts:182`, `README.md:104`) falls back to the first
  chunk's audio with the duration of all; chunks are returned though they are
  "omitted when concat=true"; the argument `sfx` is not used.
- *Engine.* The file name of `speak()` is voice and text only, so another style
  overwrites an earlier result (`api.py:190`); an emotion's tempo counts twice on
  Piper (`compile.py:187`, `piper.py:311`), and never on the others; Piper's stream
  ignores speed and events (`piper.py:243`); an unknown preset ignores the
  configured voice (`api.py:131`, comment `:129`); style words match as substrings
  (`style.py:107`).
- *Compiler.* Streaming cuts after abbreviations and in "$3.50", where `tokenize`
  does not (`text.py:222`); "..." is three sentences (`:160`); clause marks split
  hyphenated words (`:20`). In the incremental compiler the timeline offset never
  moves, an exception loses the graphs of that feed, and a tag that a forced commit
  cuts is spoken.
- *Incremental synthesizer.* `finalize()` synthesises again what was heard
  (docstring `synthesizer.py:421`) and drops what the buffer returns (`:439`);
  committed chunks are rolled back (`:108`, `:272`); `reset()` keeps the buffer
  (`:450`).
- *Events.* An empty WAV raises what `try_load` does not catch
  (`audio_events.py:222`); a file lost after validation makes rendering raise; a
  stream drops what starts before it.

*State and files*

- *Cache.* The key of `cached_compile` leaves out the further keyword arguments, which
  `compile_fn` gets (`cache.py:301`, `:315`): a hit may be the graph of other ones. A
  voice of None and one named "default" have one key (`:228-235`, and the other
  arguments alike). `OwnGraph` therefore promises the text and the voice, and no more.
  With `max_size` 0 `put` raises.
- *Hooks.* `fire()` skips the next one when a hook leaves (`hooks.py:262`, `:273`).
- *Plugins.* `unregister` leaves what a plugin gave to `register_hook`
  (`registry.py:99-120`, `:181-204`), and `fire_hook` goes on calling it;
  `NothingLeftBehind` speaks of everything else that a plugin registers.
- *Token bucket.* `current_tokens` refills without the lock (`rate_limit.py:98`,
  `:142`, `:282`).
- *Audit.* Severities are compared as strings (`audit.py:339`): at INFO, "critical"
  and "error" are dropped; after a rotation that failed later events are lost, and
  `flush()` raises on the closed file (`audit.py:214-218`): the flush thread ends, and
  `close()` does not reach the back end (`:400-406`);
  `close()` leaves the thread, and a later `log()` opens the file again.
- *Secrets.* The expiry is forgotten with the cache entry; a lookup that a set
  overtook caches the old value for its life (`secrets.py:274`).
- *Sandbox.* The monitor raises in its own thread, so a limit ends no run; runs that
  overlap share it; the same id twice raises in `finally`.
- *Health.* `start()` after a `stop()` that timed out leaves no monitor
  (`health.py:213`). *Metrics.* `get_report` raises once an error is recorded;
  an export iterates without the lock.
- *Observability.* Overlapping trackers of one id count for one; an action of an
  alert that raises keeps the render uncounted and later rules unchecked.
- *Analytics.* The unlocked clean-up may lose a record (`cost.py:205`); a yearly
  report over 90 days of records is partial; an alert's time stamp is taken when it is
  built (`quality.py:71`) and the cooldown counts from the check (`:276`), so that two
  time stamps may be closer than the cooldown; the cooldown is tested and set without
  a lock; a client named with "=" makes usage queries raise (`usage.py:285`).
- *Speakers.* `get` and `remove` do not normalise a name as `add` does; an index that
  cannot be read is taken for an empty one and overwritten; two databases over one
  directory overwrite each other's index; `with_suffix` gives "my.voice" and
  "my.other" one file (`storage.py:133`).
- *Presets.* `to_effect_node()` and dictionaries share parameters with the library;
  a bad preset of a file leaves those before it registered.

*Structures*

- *Audio graph.* `diff()` does not see duck lists, contents, plugins, repeated
  effects and rates.
- *Scenes.* `pause()` moves the effects' cursor only; a crossfade longer than what
  came before starts below zero (`builder.py:224`, `mixer.py:223`); `fade_in()` does
  nothing. *Spatial.* The maximal speed is a mean; a gain exceeds one when the
  maximal distance is below the reference.
- *v3 conversation.* A turn after an interruption that ends early may overlap the
  turn before (`conversation.py:240`); an overlap longer than all before starts below
  zero; a dictionary loses three settings.
- *Conversation.* The rate is 24000 Hz whatever the engine's is.
- *Navigation.* A cursor that is kept over a new document may be outside it.
- *Screen readers.* The first of two overlapping syntheses to end restores the
  volume; JAWS is restored to 100 %; detection happens once. *Switch.* Removing an
  action leaves the index. *Descriptions.* `at_time` gives the first within the
  tolerance and not the nearest.
- *Serverless* (not modelled). No request can succeed (`handler.py:176`).

## 7. What is not modelled

- *Of the modelled components*: wording, logging, payloads, statistics, samples; the
  subprocess Registrum bridge, whose script is not in the repository; concurrent
  calls of the registrar, which the library makes nowhere; the policy
  DROP_NEWEST and zero-length writes of the real-time buffer; webhook delivery;
  `clear` of the limiter; the sliding-window counter beside the token bucket; WAV
  headers; structured logs. A clock set back is excluded in `RateLimiter`.
  `PROJECT.json` says for each component what it leaves out.
- *Broken pipes*: a write to a process that has just died loses its bytes in the
  model; whether Node also raises an unhandled event depends on the platform.
- *Signal processing and heuristics* (ambiance, spatial mixing, format conversion,
  intelligence, quality, cloning's extraction, v3 analysers): floating-point
  functions of one signal or text, where nothing interleaves and no state is kept.
- *Placeholders*: much of `accessibility/` beyond the three sections of
  `Accessibility`, `distributed/shard.py`, `serverless/`.
- *Developer tools*: command line, debugging, testing helpers, asset validation.
- *Schemas and tables*: constants, voices, emotions, field checks.

## 8. Plan

Done: the servers of both languages with their guards, back ends and parsers; the
registrar with its abstract specification and theorems; queue, real-time engine
with the ring as a refinement of a queue; the stateful parts of the library. Theorems
state every safety property of the runs `registrar`, `mcp_server`, `queue` and
`realtime`, those of the gate and the Python backend, and of the hosts `tool_server`,
`backends` and `services` the parts listed in section 5.

Next, theorems of `Plugins!NothingLeftBehind`, `Runtime!OwnGraph`,
`VoiceLibraries!PresetsAreApart` and `Accessibility!RunsWhatWasHighlighted`. All four
need what a filter keeps of a list, so their modules would first have to say it by the
elements that are kept and not by `SelectSeq`.

Further models: `mcp/sessions.py` `update_stream` and `can_interrupt`, validation of
`graph/types.py`, and the composition of the gate with the Python backend, in which
the backend's own timers discharge the premise `BackendsEnd`.

Modules meant for proof declare their bounds as constants with named
assumptions, have one action per operation, and use no recursive operator.

## 9. Running it

    tlc -workers 2 -config MCRegistrar.cfg MCRegistrar.tla
    tlapm Registrar_proofs.tla

Each run of `PROJECT.json` names its module and configuration. The slowest,
`mcp_server`, `tool_server` and `backends`, take two to three minutes with two workers.
