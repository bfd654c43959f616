---------------------- MODULE ComponentConfiguration ----------------------
(***************************************************************************)
(* One configuration of a component of Declarative Services with singleton *)
(* scope that provides a service (ComponentConfigurationImpl.cpp,          *)
(* SingletonComponentConfiguration.cpp, states/CC*State.cpp): it is        *)
(* registered when its references are satisfied, activated when a client   *)
(* gets the service, deactivated when a reference is lost or the component *)
(* is disabled, and modified or rebound in between, on several threads.    *)
(*                                                                         *)
(* Its state is an atomic pointer to a state object. A transition installs *)
(* a new object with a compare-and-exchange, then waits until the          *)
(* transition into the object it replaced has finished (a future, or the   *)
(* latch of an active state), then does its work and makes its own future  *)
(* ready. A compare-and-exchange in a loop that goes on while the state is *)
(* of some kind is one step here, the one in which the loop ends.          *)
(*                                                                         *)
(* A reference is a static mandatory one with one service that comes and   *)
(* goes.                                                                   *)
(***************************************************************************)
EXTENDS Integers, Sequences, FiniteSets

CONSTANTS Threads, Refs,
          MaxCalls,      \* bound on calls
          MaxFailures    \* bound on registrations and activations that fail

ASSUME ConfigurationAssumption == MaxCalls \in Nat /\ MaxFailures \in Nat /\ Refs # {} /\ IsFiniteSet(Threads)

VARIABLES
    immediate,    \* of the component description: it is activated as soon as it is registered
    objects,      \* the state objects there were
    state,        \* the current one
    serviceReg,   \* the registration is stored
    visible,      \* the service is in the service registry
    instance,     \* the component instance exists
    data,         \* threads that hold the lock of the instance
    satisfied,    \* references that have a bound service
    enabled,      \* the component was not disabled
    frame,        \* what each thread is doing
    calls, failures,
    crossed,      \* history: a notification came while another was handled
    early,        \* history: the state was replaced before the registration was stored
    refused       \* history: the registration failed

vars == <<immediate, objects, state, serviceReg, visible, instance, data, satisfied, enabled, frame, calls, failures,
          crossed, early, refused>>

Kinds == {"UNSATISFIED_REFERENCE", "SATISFIED", "ACTIVE"}
CLOSED == -1      \* the count of a latch after Wait

\* ready: the future of the transition into the object. latch, busy: those of an active state.
New(kind, ready) == [kind |-> kind, ready |-> ready, latch |-> 0, busy |-> FALSE]

Idle == [pc |-> "idle"]
PCs  == {"refSatisfied", "register", "registerWait", "registerService", "registerStore", "setRegistered", "registerFailed",
         "activate", "countUp", "lock", "create", "modify", "bind", "countDown", "activateFailed",
         "deactivate", "join", "deactivateLoop", "deactivateWait", "unregister", "destroy", "setValue", "reregister"}

\* old, new: the objects a transition replaced and installed (0: none yet). via: the class whose Deactivate runs.
\* body: what the thread enters an active state for, made: it installed that state, ok: nothing is left to do after it.
\* client: the call is a client's get of the service, not a notification.
Frames == [pc : PCs, ref : Refs, old : Nat, new : Nat, via : Kinds, body : {"create", "modify", "bind"},
           made : BOOLEAN, ok : BOOLEAN, client : BOOLEAN]

KindOf(o) == objects[o].kind

TypeOK ==
    /\ immediate \in BOOLEAN /\ state \in 1 .. Len(objects)
    /\ \A o \in 1 .. Len(objects) : /\ objects[o].kind \in Kinds /\ objects[o].ready \in BOOLEAN
                                    /\ objects[o].latch \in {CLOSED} \cup 0 .. Cardinality(Threads)
                                    /\ objects[o].busy \in BOOLEAN
    /\ serviceReg \in BOOLEAN /\ visible \in BOOLEAN /\ instance \in BOOLEAN
    /\ data \subseteq Threads /\ Cardinality(data) <= 1
    /\ satisfied \subseteq Refs /\ enabled \in BOOLEAN
    /\ \A t \in Threads : frame[t] \in Frames \/ frame[t] \in {Idle, [pc |-> "fault"]}
    /\ calls \in 0 .. MaxCalls /\ failures \in 0 .. MaxFailures

Init ==
    /\ immediate \in BOOLEAN
    /\ objects = <<New("UNSATISFIED_REFERENCE", TRUE)>> /\ state = 1
    /\ serviceReg = FALSE /\ visible = FALSE /\ instance = FALSE /\ data = {}
    /\ satisfied \in (SUBSET Refs) \ {Refs} /\ enabled = TRUE
    /\ frame = [t \in Threads |-> Idle]
    /\ calls = 0 /\ failures = 0
    /\ crossed = FALSE /\ early = FALSE /\ refused = FALSE

-----------------------------------------------------------------------------
F(t)       == frame[t]
Crashed    == \E t \in Threads : frame[t].pc = "fault"
At(t, l)   == F(t).pc = l /\ ~ Crashed
Do(t, f)   == frame' = [frame EXCEPT ![t] = f]
Goto(t, l) == Do(t, [F(t) EXCEPT !.pc = l])

\* A call that modifies the component goes on to register it again; any other is over.
Return(t) == IF F(t).body = "modify" /\ ~ F(t).ok
             THEN Do(t, [F(t) EXCEPT !.pc = "reregister", !.body = "create"]) ELSE Do(t, Idle)

Fails == failures < MaxFailures /\ failures' = failures + 1

\* The compare-and-exchange that succeeds: a new object becomes the state.
Install(o) == objects' = Append(objects, o) /\ state' = Len(objects) + 1

history  == <<crossed, early, refused>>
registry == <<serviceReg, visible>>
inst     == <<instance, data>>
inputs   == <<immediate, satisfied, enabled>>
machine  == <<objects, state>>
counts   == <<calls, failures>>

-----------------------------------------------------------------------------
(* Calls *)

Call(t, pc, r, body, client) ==
    /\ F(t) = Idle /\ ~ Crashed
    /\ calls < MaxCalls /\ calls' = calls + 1
    /\ Do(t, [pc |-> pc, ref |-> r, old |-> 0, new |-> 0, via |-> "SATISFIED", body |-> body,
              made |-> FALSE, ok |-> FALSE, client |-> client])
    /\ crossed' = (crossed \/ (~ client /\ \E u \in Threads : F(u) # Idle /\ ~ F(u).client))
    /\ UNCHANGED <<machine, registry, inst, failures, early, refused>>

AnyRef == CHOOSE r \in Refs : TRUE

\* The service of a reference comes, or goes (ServiceAdded, ServiceRemoved of the binding policy).
ServiceAdded(t, r) ==
    /\ enabled /\ r \notin satisfied
    /\ satisfied' = satisfied \cup {r}
    /\ Call(t, "refSatisfied", r, "create", FALSE)
    /\ UNCHANGED <<immediate, enabled>>

ServiceRemoved(t, r) ==
    /\ enabled /\ r \in satisfied
    /\ satisfied' = satisfied \ {r}
    /\ Call(t, "deactivate", r, "create", FALSE)
    /\ UNCHANGED <<immediate, enabled>>

\* A client that found the service gets it.
GetService(t) == visible /\ Call(t, "activate", AnyRef, "create", TRUE) /\ UNCHANGED inputs

\* A configuration object changes, or a better service for a dynamic reference comes: no effect unless active.
Modified(t) == enabled /\ KindOf(state) = "ACTIVE" /\ Call(t, "activate", AnyRef, "modify", FALSE) /\ UNCHANGED inputs
Rebind(t)   == enabled /\ KindOf(state) = "ACTIVE" /\ Call(t, "activate", AnyRef, "bind", FALSE) /\ UNCHANGED inputs

\* The component is disabled (DeleteConfigurations): the configuration is deactivated for good.
Disable(t) ==
    /\ enabled /\ enabled' = FALSE
    /\ Call(t, "deactivate", AnyRef, "create", FALSE)
    /\ UNCHANGED <<immediate, satisfied>>

-----------------------------------------------------------------------------
(* Register *)

\* RefSatisfied looks at the other references, ConfigChangedState at all of them.
RefSatisfied(t) ==
    /\ At(t, "refSatisfied")
    /\ IF Refs \ {F(t).ref} \subseteq satisfied THEN Goto(t, "register") ELSE Do(t, Idle)
    /\ UNCHANGED <<machine, registry, inst, inputs, counts, history>>

Reregister(t) ==
    /\ At(t, "reregister")
    /\ IF Refs \subseteq satisfied THEN Goto(t, "register") ELSE Do(t, Idle)
    /\ UNCHANGED <<machine, registry, inst, inputs, counts, history>>

Register(t) ==
    /\ At(t, "register")
    /\ IF KindOf(state) = "UNSATISFIED_REFERENCE"
       THEN /\ Install(New("SATISFIED", FALSE))
            /\ Do(t, [F(t) EXCEPT !.pc = "registerWait", !.old = state, !.new = Len(objects) + 1])
       ELSE Do(t, Idle) /\ UNCHANGED machine
    /\ UNCHANGED <<registry, inst, inputs, counts, history>>

RegisterWait(t) ==
    /\ At(t, "registerWait") /\ objects[F(t).old].ready
    /\ Goto(t, "registerService")
    /\ UNCHANGED <<machine, registry, inst, inputs, counts, history>>

\* RegistrationManager::RegisterService: the service is in the registry, and its listeners are called,
\* before the registration is stored.
RegisterService(t) ==
    /\ At(t, "registerService")
    /\ \/ /\ serviceReg
          /\ Goto(t, "setRegistered")
          /\ UNCHANGED <<visible, failures, refused>>
       \/ /\ ~ serviceReg
          /\ visible' = TRUE
          /\ Goto(t, "registerStore")
          /\ UNCHANGED <<failures, refused>>
       \/ /\ ~ serviceReg
          /\ Fails /\ refused' = TRUE
          /\ Goto(t, "registerFailed")
          /\ UNCHANGED visible
    /\ UNCHANGED <<machine, serviceReg, inst, inputs, calls, crossed, early>>

RegisterStore(t) ==
    /\ At(t, "registerStore")
    /\ serviceReg' = TRUE
    /\ early' = (early \/ state # F(t).new)
    /\ Goto(t, "setRegistered")
    /\ UNCHANGED <<machine, visible, inst, inputs, counts, crossed, refused>>

SetRegistered(t) ==
    /\ At(t, "setRegistered")
    /\ objects' = [objects EXCEPT ![F(t).new].ready = TRUE]
    /\ IF immediate THEN Goto(t, "activate") ELSE Do(t, Idle)
    /\ UNCHANGED <<state, registry, inst, inputs, counts, history>>

\* Mutant of RegisterFailed: the next transition is not unblocked.
RegisterFailedSilently(t) ==
    /\ At(t, "registerFailed")
    /\ IF state = F(t).new THEN Install(New("UNSATISFIED_REFERENCE", TRUE)) ELSE UNCHANGED machine
    /\ Do(t, Idle)
    /\ UNCHANGED <<registry, inst, inputs, counts, history>>

RegisterFailed(t) ==
    LET done == [objects EXCEPT ![F(t).new].ready = TRUE]
    IN  /\ At(t, "registerFailed")
        /\ IF state = F(t).new
           THEN objects' = Append(done, New("UNSATISFIED_REFERENCE", TRUE)) /\ state' = Len(objects) + 1
           ELSE objects' = done /\ UNCHANGED state
        /\ Do(t, Idle)
        /\ UNCHANGED <<registry, inst, inputs, counts, history>>

-----------------------------------------------------------------------------
(* Activate, Modified and Rebind of an active state *)

\* Only Activate makes a registered configuration active; Modified and Rebind do nothing then.
Activate(t) ==
    /\ At(t, "activate")
    /\ \/ /\ KindOf(state) = "SATISFIED" /\ F(t).body = "create"
          /\ Install(New("ACTIVE", TRUE))
          /\ Do(t, [F(t) EXCEPT !.pc = "countUp", !.new = Len(objects) + 1, !.made = TRUE])
       \/ /\ KindOf(state) = "ACTIVE"
          /\ Do(t, [F(t) EXCEPT !.pc = "countUp", !.new = state, !.made = FALSE])
          /\ UNCHANGED machine
       \/ /\ KindOf(state) = "UNSATISFIED_REFERENCE" \/ (KindOf(state) = "SATISFIED" /\ F(t).body # "create")
          /\ Do(t, Idle)
          /\ UNCHANGED machine
    /\ UNCHANGED <<registry, inst, inputs, counts, history>>

\* The latch is counted up, unless a deactivation has closed it.
Enter(t) ==
    LET f == F(t)
    IN  /\ At(t, "countUp")
        /\ \/ /\ objects[f.new].latch # CLOSED
              /\ objects' = [objects EXCEPT ![f.new].latch = @ + 1]
              /\ Goto(t, "lock")
           \/ /\ objects[f.new].latch = CLOSED
              /\ Do(t, CASE f.body = "create" -> [f EXCEPT !.pc = "activateFailed"]
                         [] f.body = "modify" -> [f EXCEPT !.pc = "deactivateLoop", !.via = "ACTIVE", !.new = 0]
                         [] f.body = "bind"   -> Idle)
              /\ UNCHANGED objects
        /\ UNCHANGED <<state, registry, inst, inputs, counts, history>>

\* oneAtATimeMutex
Lock(t) ==
    LET o == F(t).new
    IN  /\ At(t, "lock") /\ ~ objects[o].busy
        /\ objects' = [objects EXCEPT ![o].busy = TRUE]
        /\ Goto(t, F(t).body)
        /\ UNCHANGED <<state, registry, inst, inputs, counts, history>>

\* CreateAndActivateComponentInstance: with the lock of the instance, the state is checked ...
CreateBegin(t) ==
    /\ At(t, "create") /\ data = {}
    /\ \/ /\ KindOf(state) # "ACTIVE" /\ Goto(t, "countDown") /\ UNCHANGED data
       \/ /\ KindOf(state) = "ACTIVE" /\ instance
          /\ Do(t, [F(t) EXCEPT !.pc = "countDown", !.ok = TRUE]) /\ UNCHANGED data
       \/ /\ KindOf(state) = "ACTIVE" /\ ~ instance
          /\ data' = {t} /\ UNCHANGED frame
    /\ UNCHANGED <<machine, registry, instance, inputs, counts, history>>

\* ... and user code makes the instance and activates it, or throws. The exception that says the library
\* was not loaded goes on to the caller, so that nothing is taken back.
CreateEnd(t) ==
    /\ At(t, "create") /\ data = {t}
    /\ data' = {}
    /\ \/ instance' = TRUE /\ Do(t, [F(t) EXCEPT !.pc = "countDown", !.ok = TRUE]) /\ UNCHANGED failures
       \/ Fails /\ \E escapes \in BOOLEAN : Do(t, [F(t) EXCEPT !.pc = "countDown", !.ok = escapes]) /\ UNCHANGED instance
    /\ UNCHANGED <<machine, registry, inputs, calls, history>>

\* ModifyComponentInstanceProperties: the component has a Modified method, or it has none or no instance.
\* When the configuration is no longer active nothing is done, and the caller registers it.
Modify(t) ==
    LET f == [F(t) EXCEPT !.pc = "countDown"]
    IN  /\ At(t, "modify") /\ data = {}
        /\ \/ KindOf(state) # "ACTIVE" /\ Do(t, [f EXCEPT !.via = "SATISFIED"])
           \/ KindOf(state) = "ACTIVE" /\ instance /\ Do(t, [f EXCEPT !.ok = TRUE])
           \/ KindOf(state) = "ACTIVE" /\ Do(t, [f EXCEPT !.via = "ACTIVE"])
        /\ UNCHANGED <<machine, registry, inst, inputs, counts, history>>

\* BindReference uses the context of the instance, which is null before the instance was made.
Bind(t) ==
    /\ At(t, "bind") /\ data = {}
    /\ IF KindOf(state) = "ACTIVE" /\ ~ instance THEN Do(t, [pc |-> "fault"]) ELSE Goto(t, "countDown")
    /\ UNCHANGED <<machine, registry, inst, inputs, counts, history>>

\* The mutex is released and the latch counted down.
CountDown(t) ==
    LET f == F(t)
    IN  /\ At(t, "countDown")
        /\ objects' = [objects EXCEPT ![f.new].busy = FALSE, ![f.new].latch = @ - 1]
        /\ \/ f.body = "create" /\ ~ f.ok /\ Goto(t, "activateFailed")
           \/ f.body = "modify" /\ ~ f.ok /\ f.via = "ACTIVE" /\ Do(t, [f EXCEPT !.pc = "deactivateLoop", !.new = 0])
           \/ f.body = "modify" /\ ~ f.ok /\ f.via # "ACTIVE" /\ Return(t)
           \/ (f.ok \/ f.body = "bind") /\ Do(t, Idle)
        /\ UNCHANGED <<state, registry, inst, inputs, counts, history>>

\* Mutant of ActivateFailed: the state is stored whatever it is by now.
ActivateFailedStores(t) ==
    /\ At(t, "activateFailed")
    /\ IF F(t).made THEN Install(New("SATISFIED", TRUE)) ELSE UNCHANGED machine
    /\ Do(t, Idle)
    /\ UNCHANGED <<registry, inst, inputs, counts, history>>

\* The thread that made the configuration active takes that back, if it is the same active state still.
ActivateFailed(t) ==
    /\ At(t, "activateFailed")
    /\ IF F(t).made /\ state = F(t).new THEN Install(New("SATISFIED", TRUE)) ELSE UNCHANGED machine
    /\ Do(t, Idle)
    /\ UNCHANGED <<registry, inst, inputs, counts, history>>

-----------------------------------------------------------------------------
(* Deactivate *)

\* The class of the state object the call finds decides how it deactivates.
Deactivate(t) ==
    /\ At(t, "deactivate")
    /\ Do(t, IF KindOf(state) = "UNSATISFIED_REFERENCE" THEN [F(t) EXCEPT !.pc = "join", !.old = state]
             ELSE [F(t) EXCEPT !.pc = "deactivateLoop", !.via = KindOf(state)])
    /\ UNCHANGED <<machine, registry, inst, inputs, counts, history>>

\* An unsatisfied configuration: the deactivation under way, if any, is waited for.
Join(t) ==
    /\ At(t, "join") /\ objects[F(t).old].ready
    /\ Do(t, Idle)
    /\ UNCHANGED <<machine, registry, inst, inputs, counts, history>>

\* An active state's Deactivate may come here twice, and then installs the same object again.
DeactivateLoop(t) ==
    LET f == F(t)
    IN  /\ At(t, "deactivateLoop")
        /\ \/ /\ KindOf(state) = "UNSATISFIED_REFERENCE"
              /\ Return(t)
              /\ UNCHANGED machine
           \/ /\ KindOf(state) # "UNSATISFIED_REFERENCE" /\ f.new = 0
              /\ Install(New("UNSATISFIED_REFERENCE", FALSE))
              /\ Do(t, [f EXCEPT !.pc = "deactivateWait", !.old = state, !.new = Len(objects) + 1])
           \/ /\ KindOf(state) # "UNSATISFIED_REFERENCE" /\ f.new # 0
              /\ state' = f.new
              /\ Do(t, [f EXCEPT !.pc = "deactivateWait", !.old = state])
              /\ UNCHANGED objects
        /\ UNCHANGED <<registry, inst, inputs, counts, history>>

\* Mutant of DeactivateWait: the latch is closed and not waited for.
DeactivateWaitNot(t) ==
    LET o == F(t).old
    IN  /\ At(t, "deactivateWait")
        /\ \/ KindOf(o) = "SATISFIED" /\ objects[o].ready /\ UNCHANGED objects
           \/ KindOf(o) = "ACTIVE" /\ objects' = [objects EXCEPT ![o].latch = CLOSED]
        /\ Goto(t, "unregister")
        /\ UNCHANGED <<state, registry, inst, inputs, counts, history>>

\* WaitForTransitionTask of the object that was replaced: a future, or the latch of an active state.
DeactivateWait(t) ==
    LET o == F(t).old
    IN  /\ At(t, "deactivateWait")
        /\ \/ KindOf(o) = "SATISFIED" /\ objects[o].ready /\ UNCHANGED objects
           \/ KindOf(o) = "ACTIVE" /\ objects[o].latch = 0 /\ objects' = [objects EXCEPT ![o].latch = CLOSED]
        /\ Goto(t, "unregister")
        /\ UNCHANGED <<state, registry, inst, inputs, counts, history>>

UnregisterService(t) ==
    /\ At(t, "unregister")
    /\ IF serviceReg THEN serviceReg' = FALSE /\ visible' = FALSE ELSE UNCHANGED registry
    /\ Goto(t, "destroy")
    /\ UNCHANGED <<machine, inst, inputs, counts, history>>

DestroyComponentInstances(t) ==
    /\ At(t, "destroy") /\ data = {}
    /\ instance' = FALSE
    /\ Goto(t, "setValue")
    /\ UNCHANGED <<machine, registry, data, inputs, counts, history>>

\* The next transition may go on. Deactivate of an active state tries its loop again; there, the second
\* set_value on the promise throws.
SetValue(t) ==
    LET f == F(t)
    IN  /\ At(t, "setValue")
        /\ objects' = [objects EXCEPT ![f.new].ready = TRUE]
        /\ IF f.via = "ACTIVE" /\ ~ objects[f.new].ready THEN Goto(t, "deactivateLoop")
           ELSE IF f.via = "ACTIVE" THEN Do(t, Idle)
           ELSE Return(t)
        /\ UNCHANGED <<state, registry, inst, inputs, counts, history>>

-----------------------------------------------------------------------------
Step(t) ==
    \/ RefSatisfied(t) \/ Reregister(t) \/ Register(t) \/ RegisterWait(t) \/ RegisterService(t) \/ RegisterStore(t)
    \/ SetRegistered(t) \/ RegisterFailed(t)
    \/ Activate(t) \/ Enter(t) \/ Lock(t) \/ CreateBegin(t) \/ CreateEnd(t) \/ Modify(t) \/ Bind(t) \/ CountDown(t)
    \/ ActivateFailed(t)
    \/ Deactivate(t) \/ Join(t) \/ DeactivateLoop(t) \/ DeactivateWait(t) \/ UnregisterService(t)
    \/ DestroyComponentInstances(t) \/ SetValue(t)

Next ==
    \E t \in Threads :
        \/ \E r \in Refs : ServiceAdded(t, r) \/ ServiceRemoved(t, r)
        \/ GetService(t) \/ Modified(t) \/ Rebind(t) \/ Disable(t)
        \/ Step(t)

\* Fairness: threads run on, and user code returns.
Spec == Init /\ [][Next]_vars /\ \A t \in Threads : WF_vars(Step(t))

-----------------------------------------------------------------------------
(* Properties *)

Quiet == \A t \in Threads : frame[t] = Idle

\* Threads between the latch's CountUp and its CountDown.
Inside == {"lock", "create", "modify", "bind", "countDown"}

\* A deactivation that has waited for an active state takes the service and the instance away while no thread is
\* in Activate, Modified or Rebind of that state, whenever those came in (CCActiveState.cpp, comment at Deactivate).
LatchExcludes ==
    \A t, u \in Threads :
        (F(t).pc \in {"unregister", "destroy"} /\ F(u).pc \in Inside) => F(u).new # F(t).old

\* When nothing is under way, an unsatisfied configuration has no instance, whatever raced; its service is gone
\* unless the state was replaced while the service was being registered; and if notifications came one at a time,
\* among any gets of clients, and none failed to register, the service is there exactly while the references are satisfied.
SettledWhenQuiet ==
    Quiet => LET unsatisfied == KindOf(state) = "UNSATISFIED_REFERENCE"
             IN  /\ objects[state].ready
                 /\ unsatisfied => ~ instance
                 /\ (unsatisfied /\ ~ early) => ~ visible
                 /\ (~ crossed /\ ~ refused) =>
                        /\ visible = serviceReg /\ visible = ~ unsatisfied
                        /\ visible = (enabled /\ Refs \subseteq satisfied)

\* Every call returns: no transition waits for one that waits for it. A call on a null context ends the process.
CallsEnd == \A t \in Threads : (frame[t] # Idle) ~> (frame[t] = Idle \/ Crashed)

=============================================================================
