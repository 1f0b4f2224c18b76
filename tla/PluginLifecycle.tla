-------------------------- MODULE PluginLifecycle --------------------------
(***************************************************************************)
(* The plugins of the gateway: the loader that enables and disables them   *)
(* (plugin-loader.service.ts, behind plugins.service.ts), the registry     *)
(* file it writes (plugin-storage.service.ts) and the hooks they register  *)
(* (hook-manager.service.ts); the engine's own plugin is registered and    *)
(* enabled at the start (engine.factory.ts).  A call awaits the plugin's   *)
(* own functions, and calls and events interleave there.  One event stands *)
(* for all: every event has its own list of handlers.                      *)
(***************************************************************************)
EXTENDS Naturals, Sequences, FiniteSets, SequencesExt

CONSTANTS Plugins,
          Engine,      \* the built-in plugin of the engine in use
          InFile,      \* plugins whose entry an operator put into the registry file
          Rank,        \* the priority a plugin registers its handler with
          OnLoad,      \* plugins that register it at once, in onLoad; the others register it
                       \* later: after an await of onLoad, in onEnable or after an await there
          Listens,     \* plugins that have an onConfigChange
          Calls, Events,  \* calls in flight at once, events
          MaxCalls, MaxThrows, MaxRestarts, MaxConfigs  \* bounds

ASSUME PluginAssumption ==
    /\ Engine \in Plugins /\ OnLoad \cup Listens \cup InFile \subseteq Plugins
    /\ Rank \in [Plugins -> Nat]
    /\ {MaxCalls, MaxThrows, MaxRestarts, MaxConfigs} \subseteq Nat

VARIABLES
    plugin,     \* the plugins map: status, the config, the config the plugin was given
    entry,      \* the registry file
    hooks,      \* the handlers of the event, by their plugins, in the order they run
    call,       \* the calls in flight
    event,      \* the executions of the hooks
    overlapped, \* history: plugins that two calls, or a call and a change, have worked on at once
    threw,      \* history: plugins one of whose functions has thrown
    used        \* what is used up of the bounds

vars == <<plugin, entry, hooks, call, event, overlapped, threw, used>>

Statuses == {"installed", "enabled", "disabled", "error"}
Jobs == {"enable", "disable"}

Instances == [status : Statuses, loaded : BOOLEAN, config : 0..MaxConfigs,
              given : 0..MaxConfigs]
Entries == [there : BOOLEAN, status : Statuses, config : 0..MaxConfigs]
NoCall == [job |-> "none", at |-> "idle", of |-> Engine]
NoEvent == [at |-> "before", live |-> TRUE, list |-> <<>>, next |-> 1, grown |-> FALSE,
            first |-> <<>>, ran |-> <<>>]

Use(counter) == used' = [used EXCEPT ![counter] = @ + 1]
Busy(p) == \E c \in Calls : call[c].at # "idle" /\ call[c].of = p

\* registerBuiltInPlugin: the engine's plugin is there from the start, with no config.
BuiltIn == [status |-> "enabled", loaded |-> TRUE, config |-> 0, given |-> 0]
\* loadPlugin: a plugin found in the directory has the config of its entry, and is not enabled
\* whatever its entry says.
Installed(p) == [status |-> "installed", loaded |-> FALSE, config |-> entry[p].config,
                 given |-> 0]
Booted == [p \in Plugins |-> IF p = Engine THEN BuiltIn ELSE Installed(p)]

Init ==
    /\ entry = [p \in Plugins |-> [there |-> p \in InFile, status |-> "installed",
                                   config |-> 0]]
    /\ plugin = Booted
    /\ hooks = <<>>
    /\ call = [c \in Calls |-> NoCall]
    /\ event = [x \in Events |-> NoEvent]
    /\ overlapped = {} /\ threw = {}
    /\ used = [calls |-> 0, throws |-> 0, restarts |-> 0, configs |-> 0]

----------------------------------------------------------------------------
(* The list of handlers.  An execution walks the list itself, so what is    *)
(* put into it meanwhile moves the rest under it; only unregisterPlugin     *)
(* leaves the old list to those who are walking it.                         *)

\* Mutant: pushed, and not sorted.
Pushed(p) == Append(hooks, p)

\* Mutant: the handler a plugin registered before is cut out of the list first.
SortedOnce(p) ==
    LET others == SelectSeq(hooks, LAMBDA q : q # p)
        before == Cardinality({i \in DOMAIN others : Rank[others[i]] <= Rank[p]})
    IN InsertAt(others, before + 1, p)

\* register: pushed, and the list sorted by priority in place.
Sorted(p) ==
    LET before == Cardinality({i \in DOMAIN hooks : Rank[hooks[i]] <= Rank[p]})
    IN InsertAt(hooks, before + 1, p)

\* Mutant: a plugin's handlers are cut out of the list that is being walked.
LeftBySplice(x) == event[x]

Left(x) ==
    IF event[x].at = "running" /\ event[x].live
    THEN [event[x] EXCEPT !.live = FALSE, !.list = hooks] ELSE event[x]

Grown(x) == IF event[x].at = "running" /\ event[x].live
            THEN [event[x] EXCEPT !.grown = TRUE] ELSE event[x]

\* registerHook of the plugin's context; the engine's plugin registers nothing.
Register(p) ==
    IF p = Engine THEN UNCHANGED <<hooks, event>>
    ELSE /\ hooks' = Sorted(p)
         /\ event' = [x \in Events |-> Grown(x)]

\* Mutant: only the first of a plugin's handlers goes.
WithoutFirst(p) ==
    IF p \in Range(hooks) THEN RemoveAt(hooks, SelectInSeq(hooks, LAMBDA q : q = p)) ELSE hooks

\* filter: the handlers of the others, in their order.  (Spelled out by their places, since the
\* proofs cannot look into SelectSeq.)
Without(p) ==
    LET kept == {i \in DOMAIN hooks : hooks[i] # p}
        Place(i) == Cardinality({j \in kept : j <= i})
    IN [n \in 1..Cardinality(kept) |-> hooks[CHOOSE i \in kept : Place(i) = n]]

\* Nothing happens, and nobody's list changes, when the plugin has none.
UnregisterPlugin(p) ==
    IF p \notin Range(hooks) THEN UNCHANGED <<hooks, event>>
    ELSE /\ hooks' = Without(p)
         /\ event' = [x \in Events |-> Left(x)]

\* An event comes: without handlers it goes on at once.
Emit(x) ==
    /\ event[x].at = "before"
    /\ event' = [event EXCEPT ![x] =
                    [NoEvent EXCEPT !.at = IF hooks = <<>> THEN "passed" ELSE "running",
                                    !.first = hooks]]
    /\ UNCHANGED <<plugin, entry, hooks, call, overlapped, threw, used>>

Walked(x) == IF event[x].live THEN hooks ELSE event[x].list

\* The next handler is called and returns: it lets the event through, stops it, or throws,
\* which is logged and changes nothing.  At the end of the list the event goes on.
Execute(x) ==
    /\ event[x].at = "running"
    /\ IF event[x].next > Len(Walked(x))
       THEN event' = [event EXCEPT ![x].at = "passed"]
       ELSE \E result \in {"continue", "stop", "throw"} :
               event' = [event EXCEPT ![x].next = @ + 1,
                                      ![x].ran = Append(@, Walked(x)[event[x].next]),
                                      ![x].at = IF result = "stop" THEN "stopped" ELSE @]
    /\ UNCHANGED <<plugin, entry, hooks, call, overlapped, threw, used>>

----------------------------------------------------------------------------
(* Enabling and disabling.                                                  *)

At(c, place) == call' = [call EXCEPT ![c].at = place]
Done(c) == call' = [call EXCEPT ![c] = NoCall]

\* setPluginStatus and setPluginConfig write only to an entry that exists; nothing makes one.
Persist(p, e) == entry' = IF entry[p].there THEN [entry EXCEPT ![p] = e] ELSE entry

Becomes(p, status) ==
    /\ plugin' = [plugin EXCEPT ![p].status = status]
    /\ Persist(p, [entry[p] EXCEPT !.status = status])

\* The dashboard's switch: what it asks for depends on the status it last fetched.
Toggle(seen) == IF seen = "enabled" THEN "disable" ELSE "enable"

\* Already enabled, or not enabled: answered at once.
IsUnneeded(job, p) == (job = "enable") <=> (plugin[p].status = "enabled")

\* A call is made and runs up to the plugin's first function.  The module is required when
\* there is no instance yet; the plugin gets a context with the config as it is now.
Ask(c, p) ==
    /\ call[c].at = "idle" /\ used.calls < MaxCalls /\ Use("calls")
    /\ \E seen \in Statuses :
          LET job == Toggle(seen)
          IN IF IsUnneeded(job, p)
             THEN UNCHANGED <<plugin, hooks, call, event, overlapped>>
             ELSE /\ overlapped' = IF Busy(p) THEN overlapped \cup {p} ELSE overlapped
                  /\ call' = [call EXCEPT ![c] =
                                 [job |-> job, of |-> p,
                                  at |-> IF job = "enable" THEN "loading" ELSE "disabling"]]
                  /\ IF job = "disable"
                     THEN UNCHANGED <<plugin, hooks, event>>
                     ELSE /\ plugin' = [plugin EXCEPT ![p].loaded = TRUE,
                                                      ![p].given = plugin[p].config]
                          /\ IF p \in OnLoad THEN Register(p) ELSE UNCHANGED <<hooks, event>>
    /\ UNCHANGED <<entry, threw>>

\* The module of a plugin cannot be required, or exports no class.
RequireFails(p) ==
    /\ used.calls < MaxCalls /\ Use("calls")
    /\ ~plugin[p].loaded /\ plugin[p].status # "enabled"
    /\ Becomes(p, "error")
    /\ threw' = threw \cup {p}
    /\ UNCHANGED <<hooks, call, event, overlapped>>

\* The plugin gets on: its onLoad returned and its onEnable was called, and the handler that was
\* not registered at once is registered, there or after the function's own awaits.  (A plugin
\* that registers late stays in "loading" until then: nothing else tells the places apart.)
Loaded(c) ==
    /\ call[c].at = "loading"
    /\ At(c, "enabling")
    /\ IF call[c].of \in OnLoad THEN UNCHANGED <<hooks, event>> ELSE Register(call[c].of)
    /\ UNCHANGED <<plugin, entry, overlapped, threw, used>>

\* onEnable has returned.
Enabled(c) ==
    /\ call[c].at = "enabling"
    /\ Becomes(call[c].of, "enabled")
    /\ Done(c)
    /\ UNCHANGED <<hooks, event, overlapped, threw, used>>

\* onLoad or onEnable has thrown: what was registered stays registered.
EnableThrows(c) ==
    /\ call[c].at \in {"loading", "enabling"}
    /\ used.throws < MaxThrows /\ Use("throws")
    /\ Becomes(call[c].of, "error")
    /\ threw' = threw \cup {call[c].of}
    /\ Done(c)
    /\ UNCHANGED <<hooks, event, overlapped>>

\* onDisable has returned: the handlers are removed.
Disabled(c) ==
    /\ call[c].at = "disabling"
    /\ UnregisterPlugin(call[c].of)
    /\ Becomes(call[c].of, "disabled")
    /\ Done(c)
    /\ UNCHANGED <<overlapped, threw, used>>

\* onDisable has thrown: the handlers stay, and the file is not told.
DisableThrows(c) ==
    /\ call[c].at = "disabling"
    /\ used.throws < MaxThrows /\ Use("throws")
    /\ plugin' = [plugin EXCEPT ![call[c].of].status = "error"]
    /\ threw' = threw \cup {call[c].of}
    /\ Done(c)
    /\ UNCHANGED <<entry, hooks, event, overlapped>>

\* Mutant: nobody is told of a change.
TellsNobody(p) == FALSE

\* The plugin is told: it listens and is enabled.  One that is being enabled was given the
\* config there was when that began.
Tells(p) == p \in Listens /\ plugin[p].loaded /\ plugin[p].status = "enabled"

\* updatePluginConfig: a new object replaces the one the plugin was given; it learns of it only
\* if it listens and is enabled.
UpdateConfig(p) ==
    /\ used.configs < MaxConfigs /\ Use("configs")
    /\ plugin' = [plugin EXCEPT ![p].config = @ + 1,
                                ![p].given = IF Tells(p) THEN plugin[p].config + 1 ELSE @]
    /\ Persist(p, [entry[p] EXCEPT !.config = plugin[p].config + 1])
    /\ overlapped' = IF Busy(p) THEN overlapped \cup {p} ELSE overlapped
    /\ UNCHANGED <<hooks, call, event, threw>>

\* The gateway restarts: plugins are loaded again, and the engine's is enabled.
Restart ==
    /\ used.restarts < MaxRestarts /\ Use("restarts")
    /\ plugin' = Booted
    /\ hooks' = <<>>
    /\ call' = [c \in Calls |-> NoCall]
    /\ event' = [x \in Events |-> IF event[x].at = "before" THEN event[x]
                                  ELSE [NoEvent EXCEPT !.at = "passed"]]
    /\ overlapped' = {} /\ threw' = {}
    /\ Persist(Engine, [entry[Engine] EXCEPT !.status = "enabled"])

Step(c) == Loaded(c) \/ Enabled(c) \/ EnableThrows(c) \/ Disabled(c) \/ DisableThrows(c)

Next ==
    \/ \E c \in Calls, p \in Plugins : Ask(c, p)
    \/ \E c \in Calls : Step(c)
    \/ \E p \in Plugins \ {Engine} : RequireFails(p)
    \/ \E p \in Plugins : UpdateConfig(p)
    \/ \E x \in Events : Emit(x) \/ Execute(x)
    \/ Restart

Spec == Init /\ [][Next]_vars

----------------------------------------------------------------------------
(* Properties.                                                              *)

\* Every variable has its type, and the handlers are sorted by their priority.
TypeOK ==
    /\ plugin \in [Plugins -> Instances] /\ entry \in [Plugins -> Entries]
    /\ hooks \in Seq(Plugins)
    /\ \A i, j \in DOMAIN hooks : i < j => Rank[hooks[i]] <= Rank[hooks[j]]
    /\ \A c \in Calls : call[c].job \in Jobs \cup {"none"} /\ call[c].of \in Plugins
    /\ \A x \in Events : event[x].at \in {"before", "running", "passed", "stopped"}
    /\ overlapped \subseteq Plugins /\ threw \subseteq Plugins

\* "Unregister all hooks for this plugin" (plugin-loader.service.ts): when nobody is working on
\* a plugin that reads disabled, none of its handlers is left, however calls overlapped and
\* whatever its functions threw before.  And as long as calls about it do not overlap and its
\* functions do not throw, it has its handler exactly when it reads enabled, and has it once:
\* no message is shown to it twice.
HooksFollowStatus ==
    \A p \in Plugins : ~Busy(p) =>
        /\ plugin[p].status = "disabled" => p \notin Range(hooks)
        /\ p \notin {Engine} \cup overlapped \cup threw =>
              Cardinality({i \in DOMAIN hooks : hooks[i] = p}) =
                  IF plugin[p].status = "enabled" THEN 1 ELSE 0

\* An event goes to the handlers there were when it came, each once and in their order, and to
\* all of them unless one stops it; a plugin that is disabled meanwhile makes none of the
\* others miss it.  (Only a handler that is registered meanwhile can shift the rest.)
EveryHandlerOnce ==
    \A x \in Events : ~event[x].grown =>
        /\ IsPrefix(event[x].ran, event[x].first)
        /\ event[x].at = "passed" => event[x].ran = event[x].first

\* A plugin that listens to the changes of its config and is enabled runs with the config there
\* is, unless it changed while the plugin was being enabled: then nobody tells it.
ListenerIsCurrent ==
    \A p \in Listens \ overlapped :
        plugin[p].status = "enabled" /\ ~Busy(p) => plugin[p].given = plugin[p].config

\* What is in one list is in another too, in the same order.
IsWithin(list, longer) ==
    \E f \in [DOMAIN list -> DOMAIN longer] :
        /\ \A i \in DOMAIN list : longer[f[i]] = list[i]
        /\ \A i, j \in DOMAIN list : i < j => f[i] < f[j]

\* An event that nobody stopped has been through every handler there was when it came, in their
\* order, whatever was registered, removed or thrown while its handlers were awaited: what is
\* sorted into the list under it may make one of them run twice, and never makes one miss it.
NobodyMissed ==
    \A x \in Events : event[x].at = "passed" => IsWithin(event[x].first, event[x].ran)
=============================================================================
