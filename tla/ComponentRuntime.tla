-------------------------- MODULE ComponentRuntime --------------------------
(***************************************************************************)
(* The runtime of declarative services around one bundle with components:  *)
(* SCRActivator and SCRBundleExtension, which load the components when the *)
(* bundle starts and drop them when it stops, the ComponentRegistry,       *)
(* clients of ServiceComponentRuntime that enable and disable components,  *)
(* and the ComponentManagerImpl of each component, whose configurations    *)
(* are created and deleted by tasks on the threads of SCRAsyncWorkService. *)
(* What a configuration does is the subject of ComponentConfiguration.     *)
(*                                                                         *)
(* Every transition of a manager replaces its state object by a new one of *)
(* the other kind, so a state object is a number: even for a               *)
(* CMDisabledState, odd for a CMEnabledState. The task with the same       *)
(* number fulfils the future of the state object. A transition is one step *)
(* since transitionMutex is held from the exchange to the post; the load   *)
(* of the state before it decides nothing that the exchange does not.      *)
(* All components are enabled by default and none is a factory component.  *)
(***************************************************************************)
EXTENDS Integers, Sequences, SequencesExt, FiniteSets

CONSTANTS
    Threads, Workers,
    Components,      \* their number: components are loaded in the order 1, 2, ...
    None,
    MaxCalls, MaxFailures    \* bounds: calls of the interface, exceptions in tasks

ASSUME RuntimeAssumption ==
    /\ Components \in Nat \ {0} /\ {MaxCalls, MaxFailures} \subseteq Nat
    /\ None \notin Threads

VARIABLES
    bundle,          \* state of the bundle
    scr,             \* state of the runtime's activator
    listening,       \* the activator's bundle listener is there
    bundleRegMutex,  \* its owner while an extension is destroyed
    bundleRegistry,  \* the extension of the bundle, or None
    registry,        \* ComponentRegistry: the manager of every component, or None
    managers,        \* of every extension: the components whose managers it has
    extensions,      \* number of extensions made
    state,           \* of every manager: its state object
    disableFutures,  \* of every manager: futures its destructor waits for
    queue,           \* tasks <<manager, state object>> posted
    worker,          \* the task of a worker, or None
    result,          \* of every finished task: ok, library or security (the exception in its future)
    configurations,  \* <<manager, state object>> whose configuration exists
    frame, calls, failures,
    lapses           \* history: what the runtime has been through that the properties make an exception of

vars == <<bundle, scr, listening, bundleRegMutex, bundleRegistry, registry, managers, extensions, state, disableFutures,
          queue, worker, result, configurations, frame, calls, failures, lapses>>

\* An extension is made by a call that starts the bundle or the runtime.
Extensions == 1 .. MaxCalls
Managers   == Extensions \X (1 .. Components)

world  == <<bundle, scr, listening>>
cm     == <<state, disableFutures, queue>>
pool   == <<worker, result, configurations, failures>>
loaded == <<bundleRegistry, registry, managers, extensions>>

Idle == [pc |-> "idle", op |-> "none", e |-> 0, i |-> 0, n |-> 0]

PCs == {"idle", "event", "scan", "create", "add", "init", "wait", "insert", "dispose", "disable", "remove", "disabled",
        "drop", "destroy", "clear", "clear registry", "held", "release"}
Ops == {"none", "start", "stop", "failed", "scrStart", "scrStop", "scrClear", "enable", "disable"}

TypeOK ==
    /\ bundle \in {"RESOLVED", "ACTIVE", "STOPPING"}
    /\ scr \in {"new", "starting", "running", "stopping", "stopped", "failed"} /\ listening \in BOOLEAN
    /\ bundleRegMutex \in Threads \cup {None}
    /\ bundleRegistry \in Extensions \cup {None}
    /\ \A c \in 1 .. Components : registry[c] \in (Extensions \X {c}) \cup {None}
    /\ \A e \in Extensions : managers[e] \in Seq(1 .. Components)
    /\ state \in [Managers -> Nat] /\ disableFutures \in [Managers -> SUBSET Nat]
    /\ \A w \in Workers : worker[w] = None \/ worker[w] \in Managers \X Nat
    /\ DOMAIN result \subseteq Managers \X Nat /\ Range(result) \subseteq {"ok", "library", "security"}
    /\ configurations \subseteq Managers \X Nat
    /\ frame \in [Threads -> [pc : PCs, op : Ops, e : 0 .. MaxCalls, i : 0 .. Components, n : Nat]]
    /\ calls \in 0 .. MaxCalls /\ failures \in 0 .. MaxFailures

\* The bundle was started before the runtime.
Init ==
    /\ bundle = "ACTIVE" /\ scr = "new" /\ listening = FALSE
    /\ bundleRegMutex = None /\ bundleRegistry = None
    /\ registry = [c \in 1 .. Components |-> None]
    /\ managers = [e \in Extensions |-> <<>>] /\ extensions = 0
    /\ state = [m \in Managers |-> 0] /\ disableFutures = [m \in Managers |-> {}]
    /\ queue = <<>> /\ worker = [w \in Workers |-> None] /\ result = <<>> /\ configurations = {}
    /\ frame = [t \in Threads |-> Idle] /\ calls = 0 /\ failures = 0 /\ lapses = {}

-----------------------------------------------------------------------------
At(t, l)   == frame[t].pc = l
Do(t, f)   == frame' = [frame EXCEPT ![t] = f]
Goto(t, l) == Do(t, [frame[t] EXCEPT !.pc = l])
Call(t)    == frame[t] = Idle /\ calls < MaxCalls /\ calls' = calls + 1

M(t)       == <<frame[t].e, frame[t].i>>
Ready(m, n) == n = 0 \/ <<m, n>> \in DOMAIN result

\* The shared pointers to a manager other than the one t is about to drop.
Held(m, t) == \/ registry[m[2]] = m
              \/ m[2] \in Range(managers[m[1]])
              \/ \E u \in Threads \ {t} : frame[u].pc \in {"held", "release"} /\ M(u) = m

Lapse(set) == lapses' = lapses \cup set

\* Threads that are in the constructor of an extension, or clean up after its failure.
Building == {t \in Threads : \/ frame[t].pc \in {"add", "init", "wait", "insert"}
                             \/ /\ frame[t].pc \in {"disable", "remove", "disabled", "drop", "destroy"}
                                /\ frame[t].op \in {"failed", "scrStart"} /\ bundleRegMutex # t}

-----------------------------------------------------------------------------
(* ComponentManagerImpl. n: the state object whose future the caller gets. *)

Enabled(m) == state[m] % 2 = 1

Transition(m) == /\ state' = [state EXCEPT ![m] = @ + 1]
                 /\ queue' = Append(queue, <<m, state[m] + 1>>)

\* PostAsyncDisabledToEnabled, unless the component is enabled.
Enable(m) == IF Enabled(m) THEN UNCHANGED cm ELSE Transition(m) /\ UNCHANGED disableFutures

\* Mutant of AccumulateFuture: a new future takes the place of the first one, ready or not.
AccumulateFutureFirst(m, n) == {n}

\* A new future takes the place of one that is ready, if there is one.
AccumulateFuture(m, n) ==
    LET ready == {r \in disableFutures[m] : Ready(m, r)}
    IN  (disableFutures[m] \ (IF ready = {} THEN {} ELSE {CHOOSE r \in ready : TRUE})) \cup {n}

\* PostAsyncEnabledToDisabled, unless the component is disabled.
Disable(m) ==
    IF Enabled(m) THEN /\ Transition(m)
                       /\ disableFutures' = [disableFutures EXCEPT ![m] = AccumulateFuture(m, state[m] + 1)]
                  ELSE UNCHANGED cm

\* The future of the state object the manager has after an Enable or a Disable.
Future(m) == state'[m]

-----------------------------------------------------------------------------
(* The threads of the work service *)

Take(w) ==
    /\ worker[w] = None /\ queue # <<>>
    /\ worker' = [worker EXCEPT ![w] = Head(queue)] /\ queue' = Tail(queue)
    /\ UNCHANGED <<world, bundleRegMutex, loaded, state, disableFutures, result, configurations, frame, calls, failures,
                   lapses>>

Finish(w, r, configs) ==
    /\ worker' = [worker EXCEPT ![w] = None]
    /\ result' = result @@ (worker[w] :> r)
    /\ configurations' = configs
    /\ UNCHANGED <<world, bundleRegMutex, loaded, cm, frame, calls, lapses>>

Creates(w) == worker[w] # None /\ worker[w][2] % 2 = 1

\* CreateConfigurations logs most exceptions, and then there is no configuration.
CreateConfigurations(w) ==
    /\ Creates(w)
    /\ \/ Finish(w, "ok", configurations \cup {worker[w]}) /\ UNCHANGED failures
       \/ /\ failures < MaxFailures /\ failures' = failures + 1
          /\ Finish(w, "ok", configurations)

\* Mutant of CreateConfigurationsThrow: nobody fulfils the future.
CreateConfigurationsDies(w, exception) ==
    /\ Creates(w)
    /\ failures < MaxFailures /\ failures' = failures + 1
    /\ worker' = [worker EXCEPT ![w] = None]
    /\ UNCHANGED <<world, bundleRegMutex, loaded, cm, result, configurations, frame, calls, lapses>>

\* The library of the component cannot be loaded, or the bundle is not valid.
CreateConfigurationsThrow(w, exception) ==
    /\ Creates(w)
    /\ failures < MaxFailures /\ failures' = failures + 1
    /\ Finish(w, exception, configurations)

\* DeleteConfigurations waits for the task of the enabled state, and throws what that one threw.
DeleteConfigurations(w) ==
    /\ worker[w] # None /\ ~ Creates(w)
    /\ LET created == <<worker[w][1], worker[w][2] - 1>>
       IN  /\ created \in DOMAIN result
           /\ Finish(w, result[created], configurations \ {created})
    /\ UNCHANGED failures

-----------------------------------------------------------------------------
(* Events of the bundle, start and stop of the runtime *)

\* BundleChanged returns to its caller, after an exception with thrown = TRUE. A security exception makes the start of
\* the bundle fail, which is announced as BUNDLE_STOPPING (BundlePrivate::StartFailed).
Return(t, thrown) ==
    LET op == frame[t].op
    IN  /\ Do(t, CASE op = "scrStop"  -> [Idle EXCEPT !.pc = "clear", !.op = op]
                   [] op = "scrClear" -> [Idle EXCEPT !.pc = "clear registry", !.op = op]
                   [] op = "failed"   -> [Idle EXCEPT !.pc = "event", !.op = "stop"]
                   [] OTHER           -> Idle)
        /\ bundle' = CASE op = "failed" -> "STOPPING" [] op = "stop" -> "RESOLVED" [] OTHER -> bundle
        /\ scr' = IF op = "scrStart" THEN (IF thrown THEN "failed" ELSE "running") ELSE scr
        /\ listening' = IF op = "scrStart" /\ thrown THEN FALSE ELSE listening

\* The bundle's own mutex is held until the call returns.
InBundle == \E u \in Threads : frame[u].op \in {"start", "stop", "failed"}

StartBundle(t) ==
    /\ Call(t)
    /\ bundle = "RESOLVED" /\ ~ InBundle
    /\ bundle' = "ACTIVE"
    /\ Do(t, [Idle EXCEPT !.pc = "event", !.op = "start"])
    /\ UNCHANGED <<scr, listening, bundleRegMutex, loaded, cm, pool, lapses>>

StopBundle(t) ==
    /\ Call(t)
    /\ bundle = "ACTIVE" /\ ~ InBundle
    /\ bundle' = "STOPPING"
    /\ Do(t, [Idle EXCEPT !.pc = "event", !.op = "stop"])
    /\ UNCHANGED <<scr, listening, bundleRegMutex, loaded, cm, pool, lapses>>

\* BUNDLE_STARTED or BUNDLE_STOPPING reaches the listener, if it is there.
BundleChanged(t) ==
    /\ At(t, "event")
    /\ IF listening THEN Goto(t, IF frame[t].op = "start" THEN "create" ELSE "dispose") /\ UNCHANGED world
                    ELSE Return(t, FALSE)
    /\ UNCHANGED <<bundleRegMutex, loaded, cm, pool, calls, lapses>>

\* SCRActivator::Start adds the listener ...
Start(t) ==
    /\ Call(t)
    /\ scr = "new"
    /\ scr' = "starting" /\ listening' = TRUE
    /\ Do(t, [Idle EXCEPT !.pc = "scan", !.op = "scrStart"])
    /\ UNCHANGED <<bundle, bundleRegMutex, loaded, cm, pool, lapses>>

\* ... and then loads the bundles that are active.
Scan(t) ==
    /\ At(t, "scan")
    /\ IF bundle = "ACTIVE" THEN Goto(t, "create") /\ UNCHANGED world ELSE Return(t, FALSE)
    /\ UNCHANGED <<bundleRegMutex, loaded, cm, pool, calls, lapses>>

Stop(t) ==
    /\ Call(t)
    /\ scr = "running"
    /\ scr' = "stopping" /\ listening' = FALSE
    /\ Do(t, [Idle EXCEPT !.pc = "dispose", !.op = "scrStop"])
    /\ UNCHANGED <<bundle, bundleRegMutex, loaded, cm, pool, lapses>>

\* Stop clears the map of the extensions: one that came late is destroyed ...
Clear(t) ==
    /\ At(t, "clear") /\ bundleRegMutex = None
    /\ IF bundleRegistry # None
       THEN /\ Do(t, [frame[t] EXCEPT !.pc = "disable", !.op = "scrClear", !.e = bundleRegistry, !.i = 1])
            /\ bundleRegMutex' = t /\ bundleRegistry' = None
       ELSE /\ Do(t, [frame[t] EXCEPT !.pc = "clear registry", !.op = "scrClear"])
            /\ UNCHANGED <<bundleRegMutex, bundleRegistry>>
    /\ UNCHANGED <<world, registry, managers, extensions, cm, pool, calls, lapses>>

\* ... and then the registry of the components.
ClearRegistry(t) ==
    /\ At(t, "clear registry")
    /\ registry' = [c \in 1 .. Components |-> None] /\ scr' = "stopped"
    /\ Do(t, Idle)
    /\ Lapse({x \in {"raced"} : Building # {} \/ \E u \in Threads : At(u, "create")})
    /\ UNCHANGED <<bundle, listening, bundleRegMutex, bundleRegistry, managers, extensions, cm, pool, calls>>

-----------------------------------------------------------------------------
(* SCRBundleExtension: its constructor *)

CreateExtension(t) ==
    /\ At(t, "create") /\ bundleRegMutex = None
    /\ IF bundleRegistry # None
       THEN Return(t, FALSE) /\ UNCHANGED <<extensions, lapses>>
       ELSE /\ extensions' = extensions + 1
            /\ Do(t, [frame[t] EXCEPT !.pc = "add", !.e = extensions + 1, !.i = 1])
            /\ Lapse({x \in {"raced"} : Building # {} \/ bundle # "ACTIVE"})
            /\ UNCHANGED world
    /\ UNCHANGED <<bundleRegMutex, bundleRegistry, registry, managers, cm, pool, calls>>

NextComponent(t) == IF frame[t].i < Components THEN [frame[t] EXCEPT !.pc = "add", !.i = @ + 1]
                                               ELSE [frame[t] EXCEPT !.pc = "insert"]

\* A component that is in the registry already gets no manager, and none gets one once the bundle's context is gone.
AddComponentManager(t) ==
    LET c == frame[t].i
    IN  /\ At(t, "add")
        /\ IF registry[c] = None /\ bundle # "RESOLVED"
           THEN /\ registry' = [registry EXCEPT ![c] = M(t)]
                /\ managers' = [managers EXCEPT ![frame[t].e] = Append(@, c)]
                /\ Goto(t, "init")
           ELSE Do(t, NextComponent(t)) /\ UNCHANGED <<registry, managers>>
        /\ UNCHANGED <<world, bundleRegMutex, bundleRegistry, extensions, cm, pool, calls, lapses>>

\* Initialize enables the component and waits for its configuration.
Initialize(t) ==
    /\ At(t, "init")
    /\ Enable(M(t))
    /\ Do(t, [frame[t] EXCEPT !.pc = "wait", !.n = Future(M(t))])
    /\ UNCHANGED <<world, bundleRegMutex, loaded, pool, calls, lapses>>

\* Mutant of ConstructorThrows: a security exception leaves the managers as well.
ConstructorLeaves(t, exception) ==
    /\ Return(t, TRUE)
    /\ Lapse({x \in {"library"} : exception = "library"})

\* A library exception leaves the managers made so far enabled and in the registry. After a security
\* exception they are disabled and removed.
ConstructorThrows(t, exception) ==
    IF exception = "library" THEN Return(t, TRUE) /\ Lapse({"library"})
                             ELSE Do(t, [frame[t] EXCEPT !.pc = "disable", !.i = 1,
                                                         !.op = IF @ = "start" THEN "failed" ELSE @])
                                  /\ UNCHANGED <<world, lapses>>

Initialized(t) ==
    LET task == <<M(t), frame[t].n>>
    IN  /\ At(t, "wait") /\ task \in DOMAIN result
        /\ IF result[task] = "ok" THEN Do(t, NextComponent(t)) /\ UNCHANGED <<world, lapses>>
                                  ELSE ConstructorThrows(t, result[task])
        /\ UNCHANGED <<bundleRegMutex, loaded, cm, pool, calls>>

\* The extension goes into the map. One that is there already stays, and the new one is destroyed with the mutex held.
Insert(t) ==
    /\ At(t, "insert") /\ bundleRegMutex = None
    /\ IF bundleRegistry = None
       THEN bundleRegistry' = frame[t].e /\ Return(t, FALSE) /\ UNCHANGED bundleRegMutex
       ELSE /\ bundleRegMutex' = t
            /\ Do(t, [frame[t] EXCEPT !.pc = "disable", !.i = 1])
            /\ UNCHANGED <<world, bundleRegistry>>
    /\ UNCHANGED <<registry, managers, extensions, cm, pool, calls, lapses>>

-----------------------------------------------------------------------------
(* SCRBundleExtension: its destructor. e: the extension, i: a position in its managers. *)

DisposeExtension(t) ==
    /\ At(t, "dispose") /\ bundleRegMutex = None
    /\ IF bundleRegistry = None
       THEN /\ Return(t, FALSE)
            /\ Lapse({x \in {"raced"} : Building # {}})
            /\ UNCHANGED <<bundleRegMutex, bundleRegistry>>
       ELSE /\ bundleRegMutex' = t /\ bundleRegistry' = None
            /\ Do(t, [frame[t] EXCEPT !.pc = "disable", !.e = bundleRegistry, !.i = 1])
            /\ UNCHANGED <<world, lapses>>
    /\ UNCHANGED <<registry, managers, extensions, cm, pool, calls>>

Current(t) == <<frame[t].e, managers[frame[t].e][frame[t].i]>>

\* DisableAndRemoveAllComponentManagers: each manager is disabled, taken from the registry, and waited for.
DisableManager(t) ==
    /\ At(t, "disable")
    /\ IF frame[t].i > Len(managers[frame[t].e])
       THEN Goto(t, "drop") /\ UNCHANGED cm
       ELSE Disable(Current(t)) /\ Do(t, [frame[t] EXCEPT !.pc = "remove", !.n = Future(Current(t))])
    /\ UNCHANGED <<world, bundleRegMutex, loaded, pool, calls, lapses>>

RemoveComponentManager(t) ==
    /\ At(t, "remove")
    /\ registry' = [registry EXCEPT ![Current(t)[2]] = None]
    /\ Goto(t, "disabled")
    /\ UNCHANGED <<world, bundleRegMutex, bundleRegistry, managers, extensions, cm, pool, calls, lapses>>

\* What the task threw is logged. i + 1 may be one past the last manager.
Disabled(t) ==
    /\ At(t, "disabled") /\ Ready(Current(t), frame[t].n)
    /\ IF frame[t].i = Len(managers[frame[t].e])
       THEN Goto(t, "drop") ELSE Do(t, [frame[t] EXCEPT !.pc = "disable", !.i = @ + 1])
    /\ UNCHANGED <<world, bundleRegMutex, loaded, cm, pool, calls, lapses>>

\* managers->clear(): a manager nobody else holds is destroyed, which disables it once more.
DropManager(t) ==
    LET e == frame[t].e
        m == <<e, Head(managers[e])>>
    IN  /\ At(t, "drop") /\ managers[e] # <<>>
        /\ managers' = [managers EXCEPT ![e] = Tail(@)]
        /\ IF \/ registry[m[2]] = m
              \/ \E u \in Threads : frame[u].pc \in {"held", "release"} /\ M(u) = m
           THEN UNCHANGED <<frame, cm>>
           ELSE Disable(m) /\ Do(t, [frame[t] EXCEPT !.pc = "destroy", !.i = m[2]])
        /\ UNCHANGED <<world, bundleRegMutex, bundleRegistry, registry, extensions, pool, calls, lapses>>

\* ~ComponentManagerImpl waits for every disable that may be under way.
Destroyed(t) ==
    /\ At(t, "destroy")
    /\ \A n \in disableFutures[M(t)] : Ready(M(t), n)
    /\ IF frame[t].op \in {"enable", "disable"} THEN Do(t, Idle) ELSE Goto(t, "drop")
    /\ UNCHANGED <<world, bundleRegMutex, loaded, cm, pool, calls, lapses>>

\* The extension is gone. If the mutex was not held, its constructor had failed.
Dropped(t) ==
    /\ At(t, "drop") /\ managers[frame[t].e] = <<>>
    /\ bundleRegMutex' = IF bundleRegMutex = t THEN None ELSE bundleRegMutex
    /\ Return(t, frame[t].op = "scrStart" /\ bundleRegMutex # t)
    /\ UNCHANGED <<loaded, cm, pool, calls, lapses>>

-----------------------------------------------------------------------------
(* Clients of ServiceComponentRuntime *)

\* EnableComponent or DisableComponent finds the manager of a component ...
GetComponentManager(t, c, op) ==
    /\ Call(t)
    /\ scr = "running" /\ registry[c] # None
    /\ Do(t, [Idle EXCEPT !.pc = "held", !.op = op, !.e = registry[c][1], !.i = c])
    /\ UNCHANGED <<world, bundleRegMutex, loaded, cm, pool, lapses>>

\* ... which may have been removed since ...
EnableComponent(t) ==
    /\ At(t, "held")
    /\ IF frame[t].op = "enable" THEN Enable(M(t)) ELSE Disable(M(t))
    /\ Goto(t, "release")
    /\ UNCHANGED <<world, bundleRegMutex, loaded, pool, calls, lapses>>

\* ... and is destroyed by the client that is the last to hold it.
Release(t) ==
    /\ At(t, "release")
    /\ IF Held(M(t), t) THEN Do(t, Idle) /\ UNCHANGED cm ELSE Disable(M(t)) /\ Goto(t, "destroy")
    /\ UNCHANGED <<world, bundleRegMutex, loaded, pool, calls, lapses>>

-----------------------------------------------------------------------------
Step(t) ==
    \/ BundleChanged(t) \/ Scan(t) \/ Clear(t) \/ ClearRegistry(t)
    \/ CreateExtension(t) \/ AddComponentManager(t) \/ Initialize(t) \/ Initialized(t) \/ Insert(t)
    \/ DisposeExtension(t) \/ DisableManager(t) \/ RemoveComponentManager(t) \/ Disabled(t)
    \/ DropManager(t) \/ Destroyed(t) \/ Dropped(t)
    \/ EnableComponent(t) \/ Release(t)

Work(w) ==
    \/ Take(w) \/ CreateConfigurations(w) \/ DeleteConfigurations(w)
    \/ \E x \in {"library", "security"} : CreateConfigurationsThrow(w, x)

Next ==
    \/ \E t \in Threads : \/ Step(t) \/ StartBundle(t) \/ StopBundle(t) \/ Start(t) \/ Stop(t)
                          \/ \E c \in 1 .. Components, op \in {"enable", "disable"} : GetComponentManager(t, c, op)
    \/ \E w \in Workers : Work(w)

Spec == Init /\ [][Next]_vars /\ \A t \in Threads : WF_vars(Step(t)) /\ \A w \in Workers : WF_vars(Work(w))

-----------------------------------------------------------------------------
NoCalls == \A t \in Threads : frame[t] = Idle

\* When nothing is going on, the components of a bundle that is active have managers, which the extension of the
\* bundle owns and the registry knows. Excepted are two loads of the bundle at a time, a stop of the bundle during
\* its load, and a library that cannot be loaded: SCRActivator and SCRBundleExtension lose components then.
ActiveBundleIsLoaded ==
    (NoCalls /\ bundle = "ACTIVE" /\ scr = "running" /\ lapses = {})
        => /\ bundleRegistry # None
           /\ \A c \in 1 .. Components : registry[c] = <<bundleRegistry, c>>

\* Once the call that stopped the bundle has returned, nothing of its components is left, neither managers nor
\* configurations nor tasks on other threads that make or delete one, whatever clients enabled and disabled them
\* meanwhile; a client that still has a manager in its hands excepted (~SCRBundleExtension, ~ComponentManagerImpl).
StoppedBundleIsUnloaded ==
    (NoCalls /\ bundle = "RESOLVED" /\ scr # "failed" /\ lapses = {})
        => /\ \A c \in 1 .. Components : registry[c] = None
           /\ configurations = {} /\ queue = <<>> /\ \A w \in Workers : worker[w] = None

\* Every call returns: nobody waits for ever for a future or for the mutex of the extensions, and the tasks that
\* wait for other tasks do not fill the threads of the work service.
CallsEnd == \A t \in Threads : frame[t] # Idle ~> frame[t] = Idle
=============================================================================
