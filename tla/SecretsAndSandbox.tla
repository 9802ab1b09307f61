------------------------- MODULE SecretsAndSandbox --------------------------
(***************************************************************************)
(* Two parts of the security of the Python library                         *)
(* (voice_soundboard/security): secrets, and the sandbox of plugins.       *)
(***************************************************************************)
EXTENDS Integers, Sequences, FiniteSets

(***************************************************************************)
(* Secrets of the library (security/secrets.py): a memory backend that     *)
(* set() writes, the environment behind it, and a cache with a time to     *)
(* live in front of both. Every step takes the lock for itself, so a       *)
(* lookup that is filling the cache may be overtaken.                      *)
(***************************************************************************)
CONSTANTS
  Threads,
  Prefixed,      \* environment_prefix is not empty: a name is looked for with it and without
  CacheSecrets,  \* cache_secrets
  Ttl,           \* cache_ttl_seconds
  Lives,         \* expires_in, 0 for none
  MaxValues,     \* bound: values that set() and the environment give
  MaxCalls,      \* bound: calls
  SecretEndTime        \* bound: the clock

\* One secret is enough: names do not meet in any of the calls.
VARIABLES
  secretTime,
  secretMemory, \* MemoryBackend._secrets: its value, 0 for none
  env,          \* os.environ: the value with the prefix and without, 0 for none
  cache,        \* _cache: [value, expires, at], value 0 for none, expires 0 for never
  thread,       \* by thread: [at, value, life]: where it is, what it is to cache, when that expires
  values,       \* values given so far
  secretCalls,   \* calls made so far
  gone,         \* history: by value, when the environment changed it plus 1, 0 if it has not
  overtaken     \* history: a change ended while another thread held a value for the cache, or
                \* had looked in vain where the change was

ASSUME SecretAssumption ==
  /\ Lives \subseteq Nat /\ MaxValues \in Nat /\ MaxCalls \in Nat /\ SecretEndTime \in Nat
  /\ Ttl \in Int

secretVars == <<secretTime, secretMemory, env, cache, thread, values, secretCalls, gone, overtaken>>

NoEntry == [value |-> 0, expires |-> 0, at |-> 0]
Idle == [at |-> "idle", value |-> 0, life |-> 0]

\* What the backends answer in their order: the memory, the prefixed name, the name.
OfEnvironment(e) == IF Prefixed /\ e.prefixed # 0 THEN e.prefixed ELSE e.plain
Truth == IF secretMemory # 0 THEN secretMemory ELSE OfEnvironment(env)

At(t, place) == thread[t].at = place
Goes(t, place) == thread' = [thread EXCEPT ![t].at = place]
Ends(t) == thread' = [thread EXCEPT ![t] = Idle]

\* Another thread has read or written a backend and not yet the cache.
Overtakes(t) ==
  \E u \in Threads \ {t} : thread[u].at \in {"searching", "unprefixed", "caching", "storing"}

-----------------------------------------------------------------------------
\* Mutant: an entry lives one tick too long.
Cached_Late == cache.value # 0 /\ secretTime - cache.at <= Ttl /\ (cache.expires = 0 \/ secretTime <= cache.expires)

\* _get_cached(): younger than the time to live, and not expired.
Cached == cache.value # 0 /\ secretTime - cache.at < Ttl /\ (cache.expires = 0 \/ secretTime <= cache.expires)

\* get(), get_secret(), validate_required(): the cached value, or drop the entry and go on to
\* the backends.
GetCached(t) ==
  /\ At(t, "idle") /\ secretCalls < MaxCalls /\ secretCalls' = secretCalls + 1
  /\ IF CacheSecrets /\ Cached
     THEN UNCHANGED <<cache, thread>>
     ELSE cache' = (IF CacheSecrets THEN NoEntry ELSE cache) /\ Goes(t, "reading")
  /\ UNCHANGED <<secretTime, secretMemory, env, values, gone, overtaken>>

Found(t, value) == thread' = [thread EXCEPT ![t] = [at |-> "caching", value |-> value, life |-> 0]]

\* The memory backend, then the environment, with the prefix and without; if none has the
\* name, the default or SecretNotFound.
ReadMemory(t) ==
  /\ At(t, "reading")
  /\ IF secretMemory # 0 THEN Found(t, secretMemory) ELSE Goes(t, "searching")
  /\ UNCHANGED <<secretTime, secretMemory, env, cache, values, secretCalls, gone, overtaken>>

\* With an empty prefix both environment backends read the plain name.
UnderPrefix == IF Prefixed THEN env.prefixed ELSE env.plain

ReadEnvironment(t) ==
  /\ At(t, "searching")
  /\ IF UnderPrefix # 0 THEN Found(t, UnderPrefix) ELSE Goes(t, "unprefixed")
  /\ UNCHANGED <<secretTime, secretMemory, env, cache, values, secretCalls, gone, overtaken>>

ReadPlain(t) ==
  /\ At(t, "unprefixed")
  /\ IF env.plain # 0 THEN Found(t, env.plain) ELSE Ends(t)
  /\ UNCHANGED <<secretTime, secretMemory, env, cache, values, secretCalls, gone, overtaken>>

\* _cache_secret(): of a lookup, which then answers, or of set().
CacheSecret(t) ==
  /\ thread[t].at \in {"caching", "storing"}
  /\ cache' = IF ~CacheSecrets THEN cache
              ELSE [value |-> thread[t].value, expires |-> thread[t].life, at |-> secretTime]
  /\ overtaken' = (overtaken \/ (At(t, "storing") /\ Overtakes(t)))
  /\ Ends(t)
  /\ UNCHANGED <<secretTime, secretMemory, env, values, secretCalls, gone>>

\* set(): the memory, then the cache; only the cache knows when the value expires.
SetMemory(t, life) ==
  /\ At(t, "idle") /\ secretCalls < MaxCalls /\ secretCalls' = secretCalls + 1
  /\ values < MaxValues /\ values' = values + 1
  /\ secretMemory' = values + 1
  /\ thread' = [thread EXCEPT ![t] = [at |-> "storing", value |-> values + 1,
                                      life |-> IF life = 0 THEN 0 ELSE secretTime + life]]
  /\ UNCHANGED <<secretTime, env, cache, gone, overtaken>>

\* delete(): the memory, then the cache.
DeleteMemory(t) ==
  /\ At(t, "idle") /\ secretCalls < MaxCalls /\ secretCalls' = secretCalls + 1
  /\ secretMemory' = 0 /\ Goes(t, "dropping")
  /\ UNCHANGED <<secretTime, env, cache, values, gone, overtaken>>

\* Mutant: delete() forgets the cache.
DropCached_Not(t) ==
  /\ At(t, "dropping") /\ Ends(t)
  /\ UNCHANGED <<secretTime, secretMemory, env, cache, values, secretCalls, gone, overtaken>>

DropCached(t) ==
  /\ At(t, "dropping") /\ Ends(t)
  /\ cache' = NoEntry
  /\ overtaken' = (overtaken \/ Overtakes(t))
  /\ UNCHANGED <<secretTime, secretMemory, env, values, secretCalls, gone>>

\* refresh(): drops the entry, and looks up again.
Refresh(t) ==
  /\ At(t, "idle") /\ secretCalls < MaxCalls /\ secretCalls' = secretCalls + 1
  /\ cache' = NoEntry /\ Goes(t, "refreshed")
  /\ overtaken' = (overtaken \/ Overtakes(t))
  /\ UNCHANGED <<secretTime, secretMemory, env, values, gone>>

\* The get() of refresh().
RefreshGets(t) ==
  /\ At(t, "refreshed")
  /\ IF CacheSecrets /\ Cached
     THEN Ends(t) /\ UNCHANGED cache
     ELSE cache' = (IF CacheSecrets THEN NoEntry ELSE cache) /\ Goes(t, "reading")
  /\ UNCHANGED <<secretTime, secretMemory, env, values, secretCalls, gone, overtaken>>

\* A lookup holds what the environment had, or has passed the changing key.
Misses(t, key) == At(t, "caching") \/ (key = "prefixed" /\ At(t, "unprefixed"))

\* Environment: the variables of the process change, as by EnvironmentBackend.set() and delete().
EnvironmentChanges(key) ==
  /\ values < MaxValues
  /\ \E v \in {0, values + 1} :
       /\ env[key] # v /\ env' = [env EXCEPT ![key] = v]
       /\ gone' = [w \in DOMAIN gone |-> IF w = OfEnvironment(env) /\ w # OfEnvironment(env')
                                         THEN secretTime + 1 ELSE gone[w]]
       /\ values' = values + (IF v = 0 THEN 0 ELSE 1)
  /\ overtaken' = (overtaken \/ \E t \in Threads : Misses(t, key))
  /\ UNCHANGED <<secretTime, secretMemory, cache, thread, secretCalls>>

SecretTick ==
  /\ secretTime < SecretEndTime /\ secretTime' = secretTime + 1
  /\ UNCHANGED <<secretMemory, env, cache, thread, values, secretCalls, gone, overtaken>>

SecretInit ==
  /\ secretTime = 0 /\ secretMemory = 0 /\ env = [prefixed |-> 0, plain |-> 0] /\ cache = NoEntry
  /\ thread = [t \in Threads |-> Idle] /\ values = 0 /\ secretCalls = 0
  /\ gone = [v \in 1..MaxValues |-> 0] /\ overtaken = FALSE

SecretNext ==
  \/ \E t \in Threads :
       \/ GetCached(t) \/ ReadMemory(t) \/ ReadEnvironment(t) \/ ReadPlain(t) \/ CacheSecret(t)
       \/ \E life \in Lives : SetMemory(t, life)
       \/ DeleteMemory(t) \/ DropCached(t) \/ Refresh(t) \/ RefreshGets(t)
  \/ \E key \in {"prefixed", "plain"} : EnvironmentChanges(key)
  \/ SecretTick

SecretSpec == SecretInit /\ [][SecretNext]_secretVars

-----------------------------------------------------------------------------
\* Type invariant.
SecretTypeOK ==
  /\ secretTime \in 0..SecretEndTime /\ secretMemory \in 0..values /\ cache.value \in 0..values
  /\ env.prefixed \in 0..values /\ env.plain \in 0..values
  /\ \A t \in Threads : /\ thread[t].at \in {"idle", "reading", "searching", "unprefixed", "caching",
                                            "storing", "dropping", "refreshed"}
                        /\ thread[t].value \in 0..values
  /\ values \in 0..MaxValues /\ secretCalls \in 0..MaxCalls
  /\ \A v \in DOMAIN gone : gone[v] \in 0..SecretEndTime + 1
  /\ overtaken \in BOOLEAN

\* secrets.py: while no call is under way and none overtook a lookup, what the cache would
\* answer is what set() or delete() left: a value of the memory is not hidden by an older
\* one, and one that was deleted is not answered. What changes in the environment is
\* answered late, by less than the time to live.
CacheFollowsWrites ==
  (\A t \in Threads : At(t, "idle")) /\ ~overtaken /\ CacheSecrets /\ Cached =>
    /\ secretMemory # 0 => cache.value = secretMemory
    /\ cache.value # Truth => gone[cache.value] # 0 /\ secretTime < gone[cache.value] - 1 + Ttl

(***************************************************************************)
(* Runs of plugins in a sandbox (security/sandbox.py): execute() is a      *)
(* context manager around a plugin, execute_code() runs code by itself.    *)
(* Each run has a monitor with a thread of its own; execute() keeps the    *)
(* monitor in the sandbox, where another run replaces it. A monitor that   *)
(* finds its run over the limit raises in its own thread: the run goes on. *)
(***************************************************************************)
CONSTANTS
  Runs,         \* runs, each of one thread
  Ids,          \* plugin_id
  MaxTime,      \* max_execution_time_seconds
  MaxCpu,       \* max_cpu_seconds
  Cores,        \* seconds of CPU that the process can use in one
  SandboxEndTime       \* bound: the clock

VARIABLES
  sandboxTime,
  run,      \* by run: [at, id, began, left]; at "new", "inside", "code", "ended", or "lost" to a KeyError
  result,   \* by run: [success, error, measured]; error "" for none
  active,   \* _active_contexts: by plugin id, the run whose result it holds
  monitor,  \* _monitor: the run whose monitor it is, 0 for none
  watch,    \* by run, its monitor's thread: "none", "watching", "told" to stop, "raised" or "ended"
  body,     \* history: by run, how its plugin ended: "" or one of Endings
  overlap   \* history: runs of execute() that were inside together with another

ASSUME SandboxAssumption ==
  SandboxEndTime \in Nat /\ MaxTime \in Nat /\ MaxCpu \in Nat /\ Cores \in Nat

sandboxVars == <<sandboxTime, run, result, active, monitor, watch, body, overlap>>

Inside == {r \in Runs : run[r].at = "inside"}
Over == {"ended", "lost"}
\* exited: a BaseException, such as SystemExit, which passes both excepts.
Endings == {"returned", "violated", "failed", "exited"}

-----------------------------------------------------------------------------
Begins(r, at, id) ==
  /\ run[r].at = "new"
  /\ run' = [run EXCEPT ![r] = [at |-> at, id |-> id, began |-> sandboxTime, left |-> 0]]
  /\ watch' = [watch EXCEPT ![r] = "watching"]

\* execute(): the context of the plugin, and the sandbox's monitor.
Enter(r, id) ==
  /\ Begins(r, "inside", id)
  /\ active' = [i \in DOMAIN active \cup {id} |-> IF i = id THEN r ELSE active[i]]
  /\ monitor' = r
  /\ overlap' = IF Inside = {} THEN overlap ELSE overlap \cup Inside \cup {r}
  /\ UNCHANGED <<sandboxTime, result, body>>

\* execute_code(): a monitor that no other run sees.
EnterCode(r) ==
  /\ Begins(r, "code", "anonymous")
  /\ UNCHANGED <<sandboxTime, result, active, monitor, body, overlap>>

\* ResourceMonitor.stop(): the thread is told to stop, and waited for only shortly.
\* Mutant: stop() measures, and tells nobody.
StopMonitor_NotTold(m) == UNCHANGED watch
StopMonitor(m) == watch' = [watch EXCEPT ![m] = IF @ = "watching" THEN "told" ELSE @]

\* What the excepts note of an ending.
Noted(how) == IF how \in {"violated", "failed"} THEN how ELSE ""

\* Mutant: success is noted before the plugin runs.
Outcome_Early(how, m) ==
  [success |-> TRUE, error |-> Noted(how), measured |-> sandboxTime - run[m].began]

\* What a run's result says, m being the monitor that is asked for the time.
Outcome(how, m) ==
  [success |-> how = "returned", error |-> Noted(how), measured |-> sandboxTime - run[m].began]

\* The plugin returns, violates, raises or exits; then finally stops the sandbox's monitor, whosever it
\* is, and drops the context: the second run of one id finds none, and its KeyError is what is raised.
Leave(r, how) ==
  /\ run[r].at = "inside"
  /\ result' = [result EXCEPT ![r] = Outcome(how, monitor)]
  /\ StopMonitor(monitor)
  /\ active' = [i \in DOMAIN active \ {run[r].id} |-> active[i]]
  /\ run' = [run EXCEPT ![r].at = IF run[r].id \in DOMAIN active THEN "ended" ELSE "lost", ![r].left = sandboxTime]
  /\ body' = [body EXCEPT ![r] = how]
  /\ UNCHANGED <<sandboxTime, monitor, overlap>>

\* The monitor of a run of code.
\* Mutant: the one in the sandbox, if there is one.
CodeMonitor_Shared(r) == IF monitor = 0 THEN r ELSE monitor
CodeMonitor(r) == r

LeaveCode(r, how) ==
  /\ run[r].at = "code"
  /\ result' = [result EXCEPT ![r] = Outcome(how, CodeMonitor(r))]
  /\ StopMonitor(CodeMonitor(r))
  /\ run' = [run EXCEPT ![r].at = "ended", ![r].left = sandboxTime]
  /\ body' = [body EXCEPT ![r] = how]
  /\ UNCHANGED <<sandboxTime, active, monitor, overlap>>

\* _monitor_loop(): told to stop, or over the limit of the clock or of the CPU time, which is
\* that of all threads of the process.
MonitorEnds(r) ==
  /\ watch[r] = "told" /\ watch' = [watch EXCEPT ![r] = "ended"]
  /\ UNCHANGED <<sandboxTime, run, result, active, monitor, body, overlap>>

MonitorRaises(r) ==
  /\ watch[r] = "watching"
  /\ \/ sandboxTime - run[r].began > MaxTime
     \/ \E cpu \in 0..(Cores * (sandboxTime - run[r].began)) : cpu > MaxCpu
  /\ watch' = [watch EXCEPT ![r] = "raised"]
  /\ UNCHANGED <<sandboxTime, run, result, active, monitor, body, overlap>>

SandboxTick ==
  /\ sandboxTime < SandboxEndTime /\ sandboxTime' = sandboxTime + 1
  /\ UNCHANGED <<run, result, active, monitor, watch, body, overlap>>

SandboxInit ==
  /\ sandboxTime = 0
  /\ run = [r \in Runs |-> [at |-> "new", id |-> "", began |-> 0, left |-> 0]]
  /\ result = [r \in Runs |-> [success |-> FALSE, error |-> "", measured |-> 0]]
  /\ active = [i \in {} |-> 0] /\ monitor = 0
  /\ watch = [r \in Runs |-> "none"] /\ body = [r \in Runs |-> ""] /\ overlap = {}

SandboxNext ==
  \/ \E r \in Runs : \/ \E id \in Ids : Enter(r, id)
                     \/ EnterCode(r)
                     \/ \E how \in Endings : Leave(r, how) \/ LeaveCode(r, how)
                     \/ MonitorEnds(r) \/ MonitorRaises(r)
  \/ SandboxTick

SandboxSpec == SandboxInit /\ [][SandboxNext]_sandboxVars

-----------------------------------------------------------------------------
\* Type invariant.
SandboxTypeOK ==
  /\ sandboxTime \in 0..SandboxEndTime
  /\ run \in [Runs -> [at : {"new", "inside", "code"} \cup Over, id : Ids \cup {"", "anonymous"},
                       began : 0..SandboxEndTime, left : 0..SandboxEndTime]]
  /\ result \in [Runs -> [success : BOOLEAN, error : {"", "violated", "failed"}, measured : 0..SandboxEndTime]]
  /\ DOMAIN active \subseteq Ids /\ \A i \in DOMAIN active : active[i] \in Runs
  /\ monitor \in Runs \cup {0}
  /\ watch \in [Runs -> {"none", "watching", "told", "raised", "ended"}]
  /\ body \in [Runs -> Endings \cup {""}] /\ overlap \subseteq Runs

\* A run that is over says how its own plugin ended, and, unless another run of execute() was
\* inside with it, how long it was inside.
OutcomeIsOwn ==
  \A r \in Runs : run[r].at \in Over =>
    /\ result[r].success = (body[r] = "returned") /\ result[r].error = Noted(body[r])
    /\ r \notin overlap => result[r].measured = run[r].left - run[r].began

\* As long as no two runs of execute() are inside together, the contexts are of the runs that are
\* inside, none of them fails to be dropped, and no monitor outlives its run unless it had raised.
ContextsOfRuns ==
  /\ overlap = {} => {active[i] : i \in DOMAIN active} = Inside
  /\ \A r \in Runs \ overlap : run[r].at # "lost" /\ (run[r].at \in Over => watch[r] # "watching")

=============================================================================
