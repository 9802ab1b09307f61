------------------------------ MODULE Plugins -------------------------------
(***************************************************************************)
(* The plugins of the Python library (voice_soundboard/plugins): the hooks *)
(* that their callbacks hang on, and the registry.                         *)
(***************************************************************************)
EXTENDS Naturals, Sequences, SequencesExt, FiniteSets, Functions

(***************************************************************************)
(* HookManager (voice_soundboard/plugins/hooks.py): the hooks of one event *)
(* while calls of fire(), fire_transform() or trigger() go through them.   *)
(* Hooks come and go from other threads and from the hooks themselves.     *)
(* fire() iterates the live list: a Python list iterator is an index into  *)
(* it. list.sort() empties the list while it computes its keys.            *)
(***************************************************************************)
CONSTANTS
  Hooks, Fires,
  Priority,     \* [Hooks -> Nat]: lower is earlier
  PluginOf      \* [Hooks -> plugin]

VARIABLES
  typed,    \* the event is a HookType, with a list of callbacks, not a name
  hooks,    \* _hooks[event]
  sorting,  \* the list a register() is sorting, under the lock, or Free
  fire      \* the calls: [pc, list, index, called, due]: list is the snapshot or the
            \* replaced list it is on, or Live; due a history, the hooks that were
            \* there all the time, for a call that no sort overlaps

hookVars == <<typed, hooks, sorting, fire>>

Live == <<0>>
Free == <<0>>  \* hooks are numbered from 1
ListOf(f) == IF fire[f].list = Live THEN hooks ELSE fire[f].list
Ordered(s) == \A i \in 1..(Len(s) - 1) : Priority[s[i]] <= Priority[s[i + 1]]

\* The stable sort of a list that was sorted before h was appended.
Inserted(s, h) ==
  SelectSeq(s, LAMBDA g : Priority[g] <= Priority[h]) \o <<h>>
    \o SelectSeq(s, LAMBDA g : Priority[g] > Priority[h])

Gone(hs) == fire' = [f \in Fires |-> [fire[f] EXCEPT !.due = @ \ hs]]

-----------------------------------------------------------------------------
\* A callback of a HookType is appended; there is no order.
RegisterTyped(h) ==
  /\ typed /\ h \notin Range(hooks)
  /\ hooks' = Append(hooks, h)
  /\ UNCHANGED <<typed, sorting, fire>>

\* Mutant: a new hook goes to the end.
HookRegister_NoSort(h) ==
  /\ ~typed /\ sorting = Free /\ h \notin Range(hooks)
  /\ sorting' = Append(hooks, h)
  /\ hooks' = <<>>
  /\ Gone(Hooks)
  /\ UNCHANGED typed

HookRegister(h) ==
  /\ ~typed /\ sorting = Free /\ h \notin Range(hooks)
  /\ sorting' = Inserted(hooks, h)
  /\ hooks' = <<>>
  /\ Gone(Hooks)
  /\ UNCHANGED typed

Sorted ==
  /\ sorting # Free
  /\ hooks' = sorting /\ sorting' = Free
  /\ UNCHANGED <<typed, fire>>

\* Removed in place: the iterators of the list stay where they are.
HookUnregister(h) ==
  /\ sorting = Free /\ h \in Range(hooks)
  /\ hooks' = SelectSeq(hooks, LAMBDA g : g # h)
  /\ Gone({h})
  /\ UNCHANGED <<typed, sorting>>

\* A new list: the iterators go on over the old one.
UnregisterPlugin(p) ==
  LET hs == {h \in Range(hooks) : PluginOf[h] = p} IN
  /\ ~typed /\ sorting = Free /\ hs # {}
  /\ hooks' = SelectSeq(hooks, LAMBDA g : g \notin hs)
  /\ fire' = [f \in Fires |-> [fire[f] EXCEPT
                 !.due = @ \ hs,
                 !.list = IF fire[f].pc = "firing" /\ @ = Live THEN hooks ELSE @]]
  /\ UNCHANGED <<typed, sorting>>

\* Mutant: trigger() goes over the list itself.
Begin_NoSnapshot(f) ==
  /\ fire[f].pc = "idle"
  /\ fire' = [fire EXCEPT ![f] = [pc |-> "firing", list |-> Live, index |-> 0, called |-> <<>>,
                                  due |-> Range(hooks)]]
  /\ UNCHANGED <<typed, hooks, sorting>>

\* trigger() copies the list under the lock; fire() takes the list as it is.
Begin(f) ==
  /\ fire[f].pc = "idle"
  /\ fire' = [fire EXCEPT ![f] = [pc |-> "firing", list |-> IF typed THEN hooks ELSE Live,
                                  index |-> 0, called |-> <<>>,
                                  due |-> Range(hooks)]]
  /\ UNCHANGED <<typed, hooks, sorting>>

\* An exception of a hook is swallowed, or fires on_error: the next one is called.
Call(f) ==
  LET next == fire[f].index + 1 IN
  /\ fire[f].pc = "firing" /\ next <= Len(ListOf(f))
  /\ fire' = [fire EXCEPT ![f].index = next, ![f].called = Append(@, ListOf(f)[next])]
  /\ UNCHANGED <<typed, hooks, sorting>>

\* The iterator is exhausted for good.
End(f) ==
  /\ fire[f].pc = "firing" /\ fire[f].index >= Len(ListOf(f))
  /\ fire' = [fire EXCEPT ![f].pc = "done"]
  /\ UNCHANGED <<typed, hooks, sorting>>

HookInit ==
  /\ typed \in BOOLEAN /\ hooks = <<>> /\ sorting = Free
  /\ fire = [f \in Fires |-> [pc |-> "idle", list |-> Live, index |-> 0,
                              called |-> <<>>, due |-> {}]]

HookNext ==
  \/ Sorted
  \/ \E h \in Hooks : RegisterTyped(h) \/ HookRegister(h) \/ HookUnregister(h) \/ UnregisterPlugin(PluginOf[h])
  \/ \E f \in Fires : Begin(f) \/ Call(f) \/ End(f)

HookSpec == HookInit /\ [][HookNext]_hookVars

-----------------------------------------------------------------------------
\* Type invariant.
HookTypeOK ==
  /\ typed \in BOOLEAN
  /\ IsInjective(hooks) /\ Range(hooks) \subseteq Hooks
  /\ sorting # Free => hooks = <<>> /\ Range(sorting) \subseteq Hooks
  /\ \A f \in Fires : /\ fire[f].pc \in {"idle", "firing", "done"}
                      /\ Range(fire[f].called) \subseteq Hooks

\* However the list changes under it, fire() calls hooks by priority.
CalledByPriority == ~typed => \A f \in Fires : Ordered(fire[f].called)

\* A hook that is registered all the time is called.
Reached(f) == fire[f].pc = "done" => fire[f].due \subseteq Range(fire[f].called)
TriggerReachesAll == typed => \A f \in Fires : Reached(f)

(***************************************************************************)
(* PluginRegistry (voice_soundboard/plugins/registry.py): plugins come and *)
(* go, with the backends and compilers they register when they are loaded. *)
(* The callbacks of a plugin may raise half way.                           *)
(***************************************************************************)
CONSTANTS
  Plugins,       \* names
  Dependencies,  \* [Plugins -> SUBSET Plugins]: meta.dependencies
  MaxOrder,      \* bound of the load order
  MaxCallbacks   \* bound of the callbacks that hang on an event

VARIABLES
  plugins,    \* _plugins: the names, in the order of registration
  loadOrder,  \* _load_order
  backends,   \* _backends: the plugins that registered one, under their name
  compilers,  \* _compiler_plugins, or _audio_plugins, by name
  callbacks,  \* _hooks[event], of some event: the plugins whose callbacks hang there
  stuck       \* history: plugins whose on_unload raised, and that were not
              \* unregistered cleanly since

registryVars == <<plugins, loadOrder, backends, compilers, callbacks, stuck>>

Loaded == Range(plugins)
Drop(s, p) == SelectSeq(s, LAMBDA q : q # p)

\* register_hook(), called by on_load or not. Nothing takes a callback away again, and
\* fire_hook() goes on calling it.
Hung(p) == {callbacks} \cup {s \in {Append(callbacks, p)} : Len(s) <= MaxCallbacks}

-----------------------------------------------------------------------------
\* Mutant: the name is recorded when on_load has returned.
RegistryRegister_RecordedLast(p) ==
  /\ p \notin Loaded /\ Dependencies[p] \subseteq Loaded
  /\ Len(loadOrder) < MaxOrder
  /\ plugins' = Append(plugins, p)
  /\ loadOrder' \in {loadOrder, Append(loadOrder, p)}
  /\ backends' \in {backends, backends \cup {p}}
  /\ compilers' \in {compilers, Append(compilers, p)}
  /\ callbacks' \in Hung(p)
  /\ UNCHANGED stuck

\* register(): what on_load did before it raised, and the entries made before it,
\* stay; the caller cannot tell from the registry.
RegistryRegister(p) ==
  /\ p \notin Loaded /\ Dependencies[p] \subseteq Loaded
  /\ Len(loadOrder) < MaxOrder
  /\ plugins' = Append(plugins, p)
  /\ loadOrder' = Append(loadOrder, p)
  /\ backends' \in {backends, backends \cup {p}}
  /\ compilers' \in {compilers, Append(compilers, p)}
  /\ callbacks' \in Hung(p)
  /\ UNCHANGED stuck

\* unregister(): the first entry of the load order goes, and the backend and the
\* compilers; the callbacks stay.  Nothing asks for the plugins that depend on this one.
RegistryUnregister(p) ==
  /\ p \in Loaded
  /\ plugins' = Drop(plugins, p)
  /\ loadOrder' = RemoveFirst(loadOrder, p)
  /\ backends' = backends \ {p}
  /\ compilers' = Drop(compilers, p)
  /\ stuck' = IF p \in Range(loadOrder') THEN stuck ELSE stuck \ {p}
  /\ UNCHANGED callbacks

\* on_unload raises: the plugin has left _plugins and nothing else.
UnregisterRaises(p) ==
  /\ p \in Loaded
  /\ plugins' = Drop(plugins, p)
  /\ stuck' = stuck \cup {p}
  /\ UNCHANGED <<loadOrder, backends, compilers, callbacks>>

\* clear() in the order of registration: dependencies before their dependents.
Clear ==
  /\ plugins # <<>>
  /\ plugins' = <<>>
  /\ loadOrder' = FoldSeq(LAMBDA p, order : RemoveFirst(order, p), loadOrder, plugins)
  /\ backends' = backends \ Loaded
  /\ compilers' = SelectSeq(compilers, LAMBDA q : q \notin Loaded)
  /\ stuck' = stuck \cap Range(loadOrder')
  /\ UNCHANGED callbacks

RegistryInit ==
  /\ plugins = <<>> /\ loadOrder = <<>> /\ callbacks = <<>>
  /\ backends = {} /\ compilers = <<>> /\ stuck = {}

RegistryNext ==
  \/ Clear
  \/ \E p \in Plugins : RegistryRegister(p) \/ RegistryUnregister(p) \/ UnregisterRaises(p)

RegistrySpec == RegistryInit /\ [][RegistryNext]_registryVars

-----------------------------------------------------------------------------
\* Type invariant.
RegistryTypeOK ==
  /\ IsInjective(plugins) /\ Loaded \subseteq Plugins
  /\ Range(loadOrder) \subseteq Plugins /\ Len(loadOrder) <= MaxOrder
  /\ backends \subseteq Plugins /\ Range(compilers) \subseteq Plugins /\ stuck \subseteq Plugins
  /\ Range(callbacks) \subseteq Plugins /\ Len(callbacks) <= MaxCallbacks

\* A plugin is in the load order while it is registered, the backends, compilers and
\* audio plugins are those of registered plugins, and of these only an on_unload that
\* raised leaves something behind.  The callbacks of register_hook() are excepted:
\* they outlive their plugin whether or not it raised.
NothingLeftBehind ==
  /\ Loaded \subseteq Range(loadOrder)
  /\ Range(loadOrder) \cup backends \cup Range(compilers) \subseteq Loaded \cup stuck
  /\ \A p \in Plugins \ stuck : Cardinality({i \in DOMAIN loadOrder : loadOrder[i] = p}) <= 1

=============================================================================
