-------------------------- MODULE BundleLifecycle --------------------------
(***************************************************************************)
(* Start, Stop and Uninstall of bundles (BundlePrivate.cpp), with the      *)
(* activators and bundle listeners that run in the middle of them, may     *)
(* throw, and may call Start, Stop or Uninstall themselves, and with       *)
(* threads that register services through a bundle's context meanwhile.    *)
(*                                                                         *)
(* The calls hold the mutex of their bundle from beginning to end. It is   *)
(* not recursive: a nested call for the same bundle never returns. So      *)
(* nothing but the holder of the mutex changes a bundle's state, and the   *)
(* paths for an activation that was aborted (Aborted::YES is never set) or *)
(* whose state was changed meanwhile cannot be taken.                      *)
(***************************************************************************)
EXTENDS Integers, Sequences, FiniteSets

CONSTANTS Bundles, Threads,
          MaxDepth,      \* bound on calls nested in user code
          MaxCalls,      \* bound on Start, Stop and Uninstall
          MaxThrows,     \* bound on exceptions of user code
          MaxServices    \* bound on registrations

ASSUME LifecycleAssumption ==
    MaxDepth \in Nat \ {0} /\ {MaxCalls, MaxThrows, MaxServices} \subseteq Nat

VARIABLES
    state, operation,
    context,        \* the bundle has a context, which is valid
    bactivator,     \* an activator object exists
    installed,      \* the bundle registry has the bundle
    mutex,          \* the thread that holds the bundle's mutex, if any
    services,       \* services the bundle has registered
    stack,          \* the calls each thread is in, innermost last
    registering,    \* bundles a thread is between CheckValid and the registration of a service for
    budget,
    running,        \* history: the activator's Start succeeded and its Stop was not called since
    cleaned,        \* history: the resources were removed since the context was made
    late,           \* history: services registered after that
    escaped,        \* history: an exception left a call half way, or a listener refused the start
    rejected        \* history: the validation function threw in the bundle's last activation

vars == <<state, operation, context, bactivator, installed, mutex, services, stack, registering, budget,
          running, cleaned, late, escaped, rejected>>

States == {"INSTALLED", "RESOLVED", "STARTING", "ACTIVE", "STOPPING", "UNINSTALLED"}
Ops    == {"IDLE", "RESOLVING", "ACTIVATING", "DEACTIVATING", "UNINSTALLING"}

\* Where activators and listeners run, and where calls wait for the mutex or go on without user code.
UserPCs == {"resolved", "starting", "validating", "activatorStart", "started", "failStopping", "failStopped",
            "stopping", "activatorStop", "stopped", "unresolved", "uninstalled"}
Calls   == {"Start", "Stop", "Uninstall"}
Others  == {"failRemove", "failInvalidate", "remove", "invalidate", "dispose"}

\* err: an exception is kept for the end of the call (and in a Stop, the bundle was not ACTIVE).
Frames  == [b : Bundles, call : Calls, pc : Calls \cup UserPCs \cup Others, err : BOOLEAN]

TypeOK ==
    /\ state \in [Bundles -> States] /\ operation \in [Bundles -> Ops]
    /\ context \in [Bundles -> BOOLEAN] /\ bactivator \in [Bundles -> BOOLEAN]
    /\ installed \subseteq Bundles
    /\ mutex \in [Bundles -> {{}} \cup {{t} : t \in Threads}]
    /\ services \in [Bundles -> 0 .. MaxServices] /\ late \in [Bundles -> 0 .. MaxServices]
    /\ stack \in [Threads -> Seq(Frames)] /\ \A t \in Threads : Len(stack[t]) <= MaxDepth
    /\ registering \subseteq Bundles
    /\ budget \in [calls : 0 .. MaxCalls, throws : 0 .. MaxThrows, services : 0 .. MaxServices]
    /\ \A S \in {running, cleaned, escaped, rejected} : S \subseteq Bundles

Init ==
    /\ state = [b \in Bundles |-> "INSTALLED"] /\ operation = [b \in Bundles |-> "IDLE"]
    /\ context = [b \in Bundles |-> FALSE] /\ bactivator = [b \in Bundles |-> FALSE]
    /\ installed = Bundles
    /\ mutex = [b \in Bundles |-> {}]
    /\ services = [b \in Bundles |-> 0] /\ late = [b \in Bundles |-> 0]
    /\ stack = [t \in Threads |-> <<>>]
    /\ registering = {}
    /\ budget = [calls |-> MaxCalls, throws |-> MaxThrows, services |-> MaxServices]
    /\ running = {} /\ cleaned = {} /\ escaped = {} /\ rejected = {}

-----------------------------------------------------------------------------
Top(t)     == stack[t][Len(stack[t])]
At(t, l)   == stack[t] # <<>> /\ Top(t).pc = l
B(t)       == Top(t).b
Goto(t, l) == stack' = [stack EXCEPT ![t][Len(stack[t])].pc = l]
Fail(t, l) == stack' = [stack EXCEPT ![t][Len(stack[t])] = [@ EXCEPT !.pc = l, !.err = TRUE]]
Pop(t)     == stack' = [stack EXCEPT ![t] = SubSeq(@, 1, Len(@) - 1)]
Spend(b)   == budget[b] > 0 /\ budget' = [budget EXCEPT ![b] = @ - 1]
Put(f, b, v) == [f EXCEPT ![b] = v]
Unlock(t)  == mutex' = Put(mutex, B(t), {})
InUserCode(t) == stack[t] # <<>> /\ Top(t).pc \in UserPCs

history == <<running, cleaned, late, escaped, rejected>>
owned   == <<services, registering>>

\* A call begins, on its own or from an activator or a listener.
Begin(t, call, b) ==
    /\ stack[t] = <<>> \/ InUserCode(t)
    /\ Len(stack[t]) < MaxDepth
    /\ Spend("calls")
    /\ stack' = [stack EXCEPT ![t] = Append(@, [b |-> b, call |-> call, pc |-> call, err |-> FALSE])]
    /\ UNCHANGED <<state, operation, context, bactivator, installed, mutex, owned, history>>

\* Mutant of Leave: the mutex is kept.
LeaveLocked(t) == Pop(t) /\ UNCHANGED mutex

\* The call returns, or throws to its caller, with the mutex released.
Leave(t) == Unlock(t) /\ Pop(t)

-----------------------------------------------------------------------------
(* Start, FinalizeActivation and Start0 *)

\* FinalizeActivation for a bundle that is resolved.
Activate(t) ==
    LET b == B(t)
    IN  /\ state' = Put(state, b, "STARTING")
        /\ operation' = Put(operation, b, "ACTIVATING")
        /\ context' = Put(context, b, TRUE)
        /\ cleaned' = cleaned \ {b} /\ rejected' = rejected \ {b}
        /\ Goto(t, "starting")

Start(t) ==
    LET b == B(t)
    IN  /\ At(t, "Start") /\ mutex[b] = {}
        /\ \/ /\ \/ state[b] \in {"UNINSTALLED", "ACTIVE", "STOPPING"}
                 \/ state[b] = "STARTING" /\ operation[b] = "ACTIVATING"
              /\ Pop(t)
              /\ UNCHANGED <<state, operation, context, mutex, cleaned, rejected>>
           \/ /\ state[b] = "INSTALLED"
              /\ state' = Put(state, b, "RESOLVED") /\ operation' = Put(operation, b, "RESOLVING")
              /\ mutex' = Put(mutex, b, {t})
              /\ Goto(t, "resolved")
              /\ UNCHANGED <<context, cleaned, rejected>>
           \/ /\ \/ state[b] = "RESOLVED"
                 \/ state[b] = "STARTING" /\ operation[b] # "ACTIVATING"
              /\ Activate(t)
              /\ mutex' = Put(mutex, b, {t})
        /\ UNCHANGED <<bactivator, installed, owned, budget, running, late, escaped>>

\* Listeners have seen RESOLVED; their exceptions are caught.
Resolved(t) ==
    /\ At(t, "resolved")
    /\ Activate(t)
    /\ UNCHANGED <<bactivator, installed, mutex, owned, budget, running, late, escaped>>

\* Listeners have seen STARTING; the validation function is asked.
Starting(t) ==
    /\ At(t, "starting")
    /\ Goto(t, "validating")
    /\ UNCHANGED <<state, operation, context, bactivator, installed, mutex, owned, budget, history>>

\* The library is loaded, the activator is made and its Start is called.
Validated(t) ==
    /\ At(t, "validating")
    /\ bactivator' = Put(bactivator, B(t), TRUE)
    /\ Goto(t, "activatorStart")
    /\ UNCHANGED <<state, operation, context, installed, mutex, owned, budget, history>>

ActivatorStart(t) ==
    /\ At(t, "activatorStart")
    /\ state' = Put(state, B(t), "ACTIVE")
    /\ running' = running \cup {B(t)}
    /\ Goto(t, "started")
    /\ UNCHANGED <<operation, context, bactivator, installed, mutex, owned, budget, cleaned, late, escaped,
                   rejected>>

\* StartFailed; what was thrown is kept for the end of Start.
StartFailed(t) ==
    /\ state' = Put(state, B(t), "STOPPING")
    /\ Fail(t, "failStopping")

\* The validation function refuses the bundle, or its library cannot be loaded.
ValidationRefuses(t) ==
    /\ At(t, "validating") /\ Spend("throws")
    /\ StartFailed(t)
    /\ UNCHANGED <<operation, context, bactivator, installed, mutex, owned, history>>

\* The validation function throws: the start is undone as in StartFailed, and then the exception
\* leaves Start0 and FinalizeActivation, past the assignment that ends the operation.
ValidationThrows(t) ==
    /\ At(t, "validating") /\ Spend("throws")
    /\ state' = Put(state, B(t), "STOPPING")
    /\ rejected' = rejected \cup {B(t)}
    /\ stack' = [stack EXCEPT ![t][Len(stack[t])] = [@ EXCEPT !.pc = "failStopping", !.err = FALSE]]
    /\ UNCHANGED <<operation, context, bactivator, installed, mutex, owned, running, cleaned, late, escaped>>

\* The activator throws.
ActivatorStartThrows(t) ==
    /\ At(t, "activatorStart") /\ Spend("throws")
    /\ StartFailed(t)
    /\ UNCHANGED <<operation, context, bactivator, installed, mutex, owned, history>>

Started(t) ==
    /\ At(t, "started")
    /\ operation' = Put(operation, B(t), "IDLE")
    /\ Leave(t)
    /\ UNCHANGED <<state, context, bactivator, installed, owned, budget, history>>

\* A listener of STARTED throws a SecurityException: the bundle is stopped again, its activator is not.
StartedRefused(t) ==
    /\ At(t, "started") /\ Spend("throws")
    /\ StartFailed(t)
    /\ escaped' = escaped \cup {B(t)}
    /\ UNCHANGED <<operation, context, bactivator, installed, mutex, owned, running, cleaned, late, rejected>>

FailStopping(t) ==
    /\ At(t, "failStopping") /\ Goto(t, "failRemove")
    /\ UNCHANGED <<state, operation, context, bactivator, installed, mutex, owned, budget, history>>

\* Mutant of RemoveBundleResources: the services are not looked at.
RemoveBundleResourcesPart(b) == UNCHANGED <<services, late>> /\ cleaned' = cleaned \cup {b}

\* RemoveBundleResources: listeners, the bundle's services, and its uses of others' services.
RemoveBundleResources(b) ==
    /\ services' = Put(services, b, 0)
    /\ late' = Put(late, b, 0)
    /\ cleaned' = cleaned \cup {b}

Remove(t) ==
    /\ At(t, "remove") \/ At(t, "failRemove")
    /\ RemoveBundleResources(B(t))
    /\ Goto(t, IF At(t, "remove") THEN "invalidate" ELSE "failInvalidate")
    /\ UNCHANGED <<state, operation, context, bactivator, installed, mutex, registering, budget, running,
                   escaped, rejected>>

\* Mutant of FailInvalidate: the context of the failed start stays.
FailInvalidateLater(t) ==
    /\ At(t, "failInvalidate")
    /\ state' = Put(state, B(t), "RESOLVED")
    /\ Goto(t, "failStopped")
    /\ UNCHANGED <<operation, context, bactivator, installed, mutex, owned, budget, history>>

FailInvalidate(t) ==
    /\ At(t, "failInvalidate")
    /\ context' = Put(context, B(t), FALSE)
    /\ state' = Put(state, B(t), "RESOLVED")
    /\ Goto(t, "failStopped")
    /\ UNCHANGED <<operation, bactivator, installed, mutex, owned, budget, history>>

FailStopped(t) ==
    /\ At(t, "failStopped")
    /\ operation' = IF Top(t).err THEN Put(operation, B(t), "IDLE") ELSE operation
    /\ Leave(t)
    /\ UNCHANGED <<state, context, bactivator, installed, owned, budget, history>>

-----------------------------------------------------------------------------
(* Stop, Stop0, Stop1 and Stop2 *)

Stop0(t) ==
    /\ state' = Put(state, B(t), "STOPPING")
    /\ operation' = Put(operation, B(t), "DEACTIVATING")
    /\ mutex' = Put(mutex, B(t), {t})
    \* wasStarted, which only a bundle that was ACTIVE is
    /\ stack' = [stack EXCEPT ![t][Len(stack[t])] = [@ EXCEPT !.pc = "stopping", !.err = state[B(t)] # "ACTIVE"]]

Stop(t) ==
    /\ At(t, "Stop") /\ mutex[B(t)] = {}
    /\ \/ state[B(t)] \in {"ACTIVE", "STARTING"} /\ Stop0(t)
       \/ state[B(t)] \notin {"ACTIVE", "STARTING"} /\ Pop(t) /\ UNCHANGED <<state, operation, mutex>>
    /\ UNCHANGED <<context, bactivator, installed, owned, budget, history>>

\* Mutant of Stopping: the activator is forgotten.
StoppingOnly(t) ==
    /\ At(t, "stopping") /\ Goto(t, "remove")
    /\ UNCHANGED <<state, operation, context, bactivator, installed, mutex, owned, budget, history>>

\* Listeners have seen STOPPING.
Stopping(t) ==
    /\ At(t, "stopping")
    /\ Goto(t, IF ~ Top(t).err /\ bactivator[B(t)] THEN "activatorStop" ELSE "remove")
    /\ UNCHANGED <<state, operation, context, bactivator, installed, mutex, owned, budget, history>>

\* The activator's Stop has returned or thrown; what it throws is saved for the end of the call.
ActivatorStop(t) ==
    /\ At(t, "activatorStop")
    /\ running' = running \ {B(t)}
    /\ bactivator' = Put(bactivator, B(t), FALSE)
    /\ Goto(t, "remove")
    /\ UNCHANGED <<state, operation, context, installed, mutex, owned, budget, cleaned, late, escaped,
                   rejected>>

\* The end of Stop2, and of Stop0.
Invalidate(t) ==
    /\ At(t, "invalidate")
    /\ context' = Put(context, B(t), FALSE)
    /\ state' = Put(state, B(t), "RESOLVED")
    /\ Goto(t, "stopped")
    /\ UNCHANGED <<operation, bactivator, installed, mutex, owned, budget, history>>

Stopped(t) ==
    /\ At(t, "stopped")
    /\ \/ /\ Top(t).call = "Stop"
          /\ operation' = Put(operation, B(t), "IDLE")
          /\ Leave(t)
       \/ /\ Top(t).call = "Uninstall"
          /\ operation' = Put(operation, B(t), "UNINSTALLING")
          /\ Goto(t, "dispose") /\ UNCHANGED mutex
    /\ UNCHANGED <<state, context, bactivator, installed, owned, budget, history>>

-----------------------------------------------------------------------------
(* Uninstall *)

Uninstall(t) ==
    LET b == B(t)
    IN  /\ At(t, "Uninstall") /\ mutex[b] = {}
        /\ \/ /\ state[b] = "UNINSTALLED"
              /\ Pop(t) /\ UNCHANGED <<state, operation, mutex>>
           \/ /\ state[b] \in {"ACTIVE", "STARTING"}
              /\ Stop0(t)
           \/ /\ state[b] \in {"INSTALLED", "RESOLVED", "STOPPING"}
              /\ operation' = Put(operation, b, "UNINSTALLING")
              /\ mutex' = Put(mutex, b, {t})
              /\ Goto(t, "dispose") /\ UNCHANGED state
        /\ UNCHANGED <<context, bactivator, installed, owned, budget, history>>

\* The bundle leaves the registry before its listeners are told.
Dispose(t) ==
    /\ At(t, "dispose")
    /\ installed' = installed \ {B(t)}
    /\ state' = Put(state, B(t), "INSTALLED")
    /\ Goto(t, "unresolved")
    /\ UNCHANGED <<operation, context, bactivator, mutex, owned, budget, history>>

Unresolved(t) ==
    /\ At(t, "unresolved")
    /\ bactivator' = Put(bactivator, B(t), FALSE)
    /\ state' = Put(state, B(t), "UNINSTALLED")
    /\ operation' = Put(operation, B(t), "IDLE")
    /\ Unlock(t)
    /\ Goto(t, "uninstalled")
    /\ UNCHANGED <<context, installed, owned, budget, history>>

\* Listeners have seen UNINSTALLED, without the mutex; an exception changes nothing.
Uninstalled(t) ==
    /\ At(t, "uninstalled") /\ Pop(t)
    /\ UNCHANGED <<state, operation, context, bactivator, installed, mutex, owned, budget, history>>

-----------------------------------------------------------------------------
\* A listener throws a SecurityException or a SharedLibraryException, which BundleChanged passes
\* on, or a used service is unregistered before its reference is taken in RemoveBundleResources:
\* the call ends where it is (after a validation that refused, the start is undone once more, which
\* is not a step of its own). Uninstall alone handles it, while it stops the bundle.
Escapes(t) ==
    LET b == B(t)
        stopping == {"stopping", "remove", "stopped"}
    IN  /\ stack[t] # <<>>
        /\ Top(t).pc \in {"starting", "failStopping", "failRemove", "failStopped", "unresolved"} \cup stopping
        /\ Spend("throws")
        /\ escaped' = escaped \cup {b}
        /\ \/ /\ Top(t).pc \in stopping /\ Top(t).call = "Uninstall"
              /\ context' = Put(context, b, FALSE)
              /\ state' = Put(state, b, "INSTALLED")
              /\ operation' = Put(operation, b, "UNINSTALLING")
              /\ Goto(t, "dispose") /\ UNCHANGED mutex
           \/ /\ Top(t).pc \notin stopping \/ Top(t).call # "Uninstall"
              /\ Leave(t)
              /\ UNCHANGED <<state, operation, context>>
        /\ UNCHANGED <<bactivator, installed, owned, running, cleaned, late, rejected>>

\* BundleContext::RegisterService checks that the context is valid, ...
RegisterService(b) ==
    /\ context[b] /\ b \notin registering /\ Spend("services")
    /\ registering' = registering \cup {b}
    /\ UNCHANGED <<state, operation, context, bactivator, installed, mutex, services, stack, history>>

\* ... and the service is then registered for the bundle, without the bundle's mutex.
RegisterServiceEnd(b) ==
    /\ b \in registering
    /\ registering' = registering \ {b}
    /\ services' = IF b \in cleaned THEN services ELSE [services EXCEPT ![b] = @ + 1]
    /\ late' = IF b \in cleaned THEN [late EXCEPT ![b] = @ + 1] ELSE late
    /\ UNCHANGED <<state, operation, context, bactivator, installed, mutex, stack, budget, running, cleaned,
                   escaped, rejected>>

Step(t) ==
    \/ Start(t) \/ Resolved(t) \/ Starting(t) \/ Validated(t) \/ ActivatorStart(t) \/ Started(t)
    \/ FailStopping(t) \/ FailInvalidate(t) \/ FailStopped(t) \/ Remove(t)
    \/ Stop(t) \/ Stopping(t) \/ ActivatorStop(t) \/ Invalidate(t) \/ Stopped(t)
    \/ Uninstall(t) \/ Dispose(t) \/ Unresolved(t) \/ Uninstalled(t)

Next ==
    \/ \E t \in Threads : \/ Step(t) \/ Escapes(t) \/ StartedRefused(t)
                          \/ ValidationRefuses(t) \/ ValidationThrows(t) \/ ActivatorStartThrows(t)
    \/ \E t \in Threads, call \in Calls, b \in Bundles : Begin(t, call, b)
    \/ \E b \in Bundles : RegisterService(b) \/ RegisterServiceEnd(b)

\* Calls go on, and activators and listeners return.
Fairness == \A t \in Threads : WF_vars(Step(t))

Spec == Init /\ [][Next]_vars /\ Fairness

-----------------------------------------------------------------------------
(* Properties *)

\* Between calls a bundle is in a settled state: it has a valid context if and only if it is
\* ACTIVE, and its operation is idle; only a start whose validation function threw leaves the
\* operation ACTIVATING, in a bundle that is RESOLVED, until the next start. Excepted are bundles
\* where an exception of a listener ended a call half way (BundlePrivate::Start0, StartFailed, Stop0).
SettledBetweenCalls ==
    \A b \in Bundles \ escaped :
        mutex[b] = {} =>
            /\ state[b] \in {"INSTALLED", "RESOLVED", "ACTIVE", "UNINSTALLED"}
            /\ operation[b] = IF b \in rejected /\ state[b] = "RESOLVED" THEN "ACTIVATING" ELSE "IDLE"
            /\ context[b] <=> state[b] = "ACTIVE"
            /\ b \in installed <=> state[b] # "UNINSTALLED"

\* What a bundle had registered when its resources were removed is gone when its context is, on
\* every way out of Start and Stop. Services that other threads register between the two are not
\* counted here ("late"): nothing unregisters them (BundlePrivate::Stop2, RemoveBundleResources).
StoppedOwnsNothing ==
    \A b \in Bundles \ escaped : ~ context[b] => services[b] = 0

\* An activator whose Start succeeded is stopped before its bundle leaves the active state, and its
\* object is not used again: between calls it is running exactly if the bundle is ACTIVE.
ActivatorsStopped ==
    \A b \in Bundles \ escaped :
        mutex[b] = {} => (b \in running <=> state[b] = "ACTIVE") /\ (b \in running => bactivator[b])

\* A call that is not waiting for the mutex of a bundle ends, whatever activators throw, if the
\* activators and listeners it calls do not call Start, Stop or Uninstall themselves: no path
\* keeps the mutex (BundlePrivate::Start, Stop, Uninstall).
CallsEnd ==
    \A b \in Bundles : (mutex[b] # {}) ~> (mutex[b] = {} \/ \E t \in Threads : Len(stack[t]) > 1)

\* What the documentation says and the code does not keep: a bundle that was stopped has no services
\* (Bundle.h). A thread that registers one between RemoveBundleResources and the end of the context,
\* or that passed CheckValid before, leaves it registered.
StoppedLeavesNoService == \A b \in Bundles \ escaped : ~ context[b] => services[b] + late[b] = 0
=============================================================================
