-------------------------- MODULE ReferenceManager --------------------------
(***************************************************************************)
(* The manager of one reference of a component of Declarative Services     *)
(* (ReferenceManagerImpl.cpp, BindingPolicy*.cpp): a service tracker tells *)
(* it of the services that match, a binding policy decides which of them   *)
(* are bound, and the component's configuration is told when the reference *)
(* becomes satisfied or not, or is bound to another service.               *)
(*                                                                         *)
(* The two sets have a mutex each, taken for one access at a time, and the *)
(* callbacks of different services run on different threads: a step is one *)
(* access. The tracker keeps its contract (CustomizerContract): for one    *)
(* service, AddingService returns before RemovedService is called. The     *)
(* configuration is reduced to what it does with a notification, one step  *)
(* each (ComponentConfiguration has the details): it is immediate, so that *)
(* registering it activates it and gives it the services bound then.       *)
(*                                                                         *)
(* A service is a number, the higher the better (operator< of references). *)
(* When its registration has ended, its references are less than all       *)
(* others, wherever they were put before: a std::set that has one is not   *)
(* in order any more, and what it finds or erases is left open. (A service *)
(* becomes unavailable shortly before its references do this: one step.)   *)
(***************************************************************************)
EXTENDS Integers, Sequences, FiniteSets, FiniteSetsExt, Functions

CONSTANTS
    Services, Threads,
    Own,         \* a service of a component with the name of this one
    None,
    MaxCalls     \* bound: callbacks of the tracker and calls of the configuration

ASSUME ReferenceAssumption ==
    /\ Services \subseteq Nat \ {0} /\ IsFiniteSet(Services) /\ MaxCalls \in Nat
    /\ None \notin Services

VARIABLES
    metadata,     \* of the reference: policy, policyOption, minCardinality, maxCardinality
    tracked,      \* of every service: none, adding, tracked or removing
    tracking,     \* the tracker is open
    matchedRefs, boundRefs,
    listening,    \* the configuration's listener: none, in the map, or removed
    gone,         \* services whose registration has ended
    up,           \* the configuration is registered and active
    instance,     \* the services its instance has
    frame, calls,
    lapses        \* history: what the properties make an exception of

vars == <<metadata, tracked, tracking, matchedRefs, boundRefs, listening, gone, up, instance, frame,
          calls, lapses>>

refs      == <<matchedRefs, boundRefs>>
component == <<up, instance>>
tracker   == <<tracked, tracking>>

SATISFIED   == [event |-> "BECAME_SATISFIED", bind |-> None, unbind |-> None]
UNSATISFIED == [event |-> "BECAME_UNSATISFIED", bind |-> None, unbind |-> None]
REBIND(b, u) == [event |-> "REBIND", bind |-> b, unbind |-> u]

Idle == [pc |-> "idle", op |-> "none", s |-> None, notes |-> <<>>, unbind |-> None, sat |-> FALSE]
PCs  == {"idle", "added", "untrack", "look", "again", "update", "removed", "clear", "rebind", "pick", "check", "notify", "deliver",
         "listen", "emplace", "deactivate", "unregister", "close"}

TypeOK ==
    /\ metadata \in [policy : {"static", "dynamic"}, policyOption : {"greedy", "reluctant"},
                     minCardinality : {0, 1}, maxCardinality : {1, Cardinality(Services)}]
    /\ tracked \in [Services -> {"none", "adding", "tracked", "removing"}] /\ tracking \in BOOLEAN
    /\ matchedRefs \subseteq Services /\ boundRefs \subseteq Services
    /\ listening \in {"none", "yes", "removed"} /\ up \in BOOLEAN /\ instance \subseteq Services
    /\ gone \subseteq Services
    /\ \A t \in Threads : frame[t].pc \in PCs /\ frame[t].s \in Services \cup {None}
    /\ calls \in 0 .. MaxCalls

\* The constructor opens the tracker. The policies and the four cardinalities: 0..1, 1..1, 0..n, 1..n.
Init ==
    /\ metadata \in [policy : {"static", "dynamic"}, policyOption : {"greedy", "reluctant"},
                     minCardinality : {0, 1}, maxCardinality : {1, Cardinality(Services)}]
    /\ tracked = [s \in Services |-> "none"] /\ tracking = TRUE
    /\ matchedRefs = {} /\ boundRefs = {}
    /\ listening = "none" /\ gone = {} /\ up = FALSE /\ instance = {}
    /\ frame = [t \in Threads |-> Idle] /\ calls = 0 /\ lapses = {}

-----------------------------------------------------------------------------
F(t)       == frame[t]
At(t, l)   == F(t).pc = l
Do(t, f)   == frame' = [frame EXCEPT ![t] = f]
Goto(t, l) == Do(t, [F(t) EXCEPT !.pc = l])
Call(t)    == F(t) = Idle /\ calls < MaxCalls /\ calls' = calls + 1

Static == metadata.policy = "static"
Greedy == metadata.policyOption = "greedy"
Unary  == metadata.maxCardinality = 1

IsOptional  == metadata.minCardinality = 0
IsSatisfied == Cardinality(boundRefs) >= metadata.minCardinality
Enough      == Cardinality(matchedRefs) >= metadata.minCardinality

\* ServiceReferenceBase::operator<: a reference that is gone is less than another one. Every event makes its own
\* reference of a service, so that one that is gone is also less than the one that a set has of the same service.
Less(r, s) == r # s /\ (r \in gone \/ (s \notin gone /\ r < s))

\* std::set: the last n elements, the first one, and what find and erase make of an element.
Best(set, n)   == {B \in SUBSET set : /\ Cardinality(B) = Min({n, Cardinality(set)})
                                     /\ \A s \in B \ gone, r \in set \ (B \cup gone) : r < s}
First(set)     == IF set = {} THEN {None} ELSE {s \in set : s \in gone \/ \A r \in set \ gone : s <= r}
Finds(set, s)  == {s \in set} \cup {found \in {FALSE} : set \cap gone # {}}
Erased(set, s) == IF set \cap gone = {} \/ s \notin set THEN {set \ {s}}
                  ELSE {set} \cup {set \ E : E \in {D \in SUBSET set : s \in D}}

\* Mutant of UpdateBoundRefs: the sets are copied from their other end.
UpdateBoundRefsWorst ==
    boundRefs' = IF Enough THEN {s \in matchedRefs : Cardinality({r \in matchedRefs : r < s}) < metadata.maxCardinality}
                           ELSE boundRefs

\* Both mutexes are held. The callers also use Enough, the result.
UpdateBoundRefs == boundRefs' \in IF Enough THEN Best(matchedRefs, metadata.maxCardinality) ELSE {boundRefs}

\* History: two callbacks, or a callback and the registration of the listener, overlap.
Crossed == {x \in {"crossed"} : \E u \in Threads : F(u).op \in {"add", "remove", "listen"}}

-----------------------------------------------------------------------------
(* Callbacks of the tracker *)

\* A service with this component's name does not match, but the policy is told of it too.
AddingService(t, s) ==
    /\ Call(t)
    /\ tracking /\ tracked[s] = "none" /\ s \notin gone
    /\ tracked' = [tracked EXCEPT ![s] = "adding"]
    /\ matchedRefs' = IF s = Own THEN matchedRefs ELSE matchedRefs \cup {s}
    /\ Do(t, [Idle EXCEPT !.pc = "added", !.op = "add", !.s = s])
    /\ lapses' = lapses \cup Crossed
    /\ UNCHANGED <<metadata, tracking, boundRefs, listening, gone, component>>

RemovedService(t, s) ==
    /\ Call(t)
    /\ tracking /\ tracked[s] = "tracked"
    /\ tracked' = [tracked EXCEPT ![s] = "removing"]
    /\ matchedRefs' \in Erased(matchedRefs, s)
    /\ Do(t, [Idle EXCEPT !.pc = "removed", !.op = "remove", !.s = s])
    /\ lapses' = lapses \cup Crossed
    /\ UNCHANGED <<metadata, tracking, boundRefs, listening, gone, component>>

\* The callback returns to the tracker, which removes a service that went while it was being added; RegisterListener
\* goes on.
Finish(t) ==
    LET s == F(t).s
    IN  \/ /\ F(t).op = "add" /\ s \notin gone
           /\ Do(t, Idle) /\ tracked' = [tracked EXCEPT ![s] = "tracked"]
        \/ /\ F(t).op = "add" /\ s \in gone
           /\ Do(t, [Idle EXCEPT !.pc = "untrack", !.op = "remove", !.s = s])
           /\ tracked' = [tracked EXCEPT ![s] = "removing"]
        \/ /\ F(t).op = "remove"
           /\ Do(t, Idle) /\ tracked' = [tracked EXCEPT ![s] = "none"]
        \/ /\ F(t).op = "listen"
           /\ Goto(t, "emplace") /\ UNCHANGED tracked

\* RemovedService on the thread of AddingService.
Untrack(t) ==
    /\ At(t, "untrack")
    /\ matchedRefs' \in Erased(matchedRefs, F(t).s)
    /\ Goto(t, "removed")
    /\ UNCHANGED <<metadata, tracker, boundRefs, listening, gone, component, calls, lapses>>

\* A call has the reference of a service in its locals.
Has(t, s) == F(t).unbind = s \/ \E n \in Range(F(t).notes) : s \in {n.bind, n.unbind}

\* Another thread unregisters the service: while it is being added, or removed because it ceased to match, the
\* tracker has nothing to report to that thread; or after it was removed, while another call still has its reference.
Unregister(s) ==
    /\ calls < MaxCalls /\ calls' = calls + 1
    /\ s \notin gone
    /\ \/ tracked[s] \in {"adding", "removing"}
       \/ tracked[s] = "none" /\ \E t \in Threads : Has(t, s)
    /\ gone' = gone \cup {s}
    /\ lapses' = lapses \cup {x \in {"gone"} : tracked[s] # "none"}
    /\ UNCHANGED <<metadata, tracker, refs, listening, component, frame>>

-----------------------------------------------------------------------------
(* ServiceAdded of the four policies *)

\* A reference that is gone is not looked at. Only StaticReluctant has nothing more to do for one that is satisfied.
ServiceAdded(t) ==
    /\ At(t, "added")
    /\ \/ /\ F(t).s \in gone
          /\ Finish(t)
       \/ /\ F(t).s \notin gone
          /\ Goto(t, CASE IsSatisfied /\ Static /\ ~ Greedy     -> "notify"
                       [] IsSatisfied /\ ~ (Static /\ ~ Greedy) -> "look"
                       [] ~ IsSatisfied /\ Static /\ Greedy     -> "again"
                       [] OTHER                                 -> "update")
          /\ UNCHANGED tracked
    /\ UNCHANGED <<metadata, tracking, refs, listening, gone, component, calls, lapses>>

\* The new service is better than the worst one that is bound.
Better(s, worst) == worst # None /\ Less(worst, s)

\* A static reference is replaced, that is the component reactivated, if the service is not bound already.
StaticGreedy(t) ==
    LET s == F(t).s
    IN  /\ At(t, "look") /\ Static
        /\ \E found \in Finds(boundRefs, s), worst \in First(boundRefs) :
              Do(t, [F(t) EXCEPT
                       !.pc     = "again",
                       !.unbind = IF ~ found /\ Better(s, worst) THEN worst ELSE None,
                       !.notes  = IF ~ found /\ (Better(s, worst) \/ (boundRefs = {} /\ IsOptional))
                                  THEN <<UNSATISFIED>> ELSE <<>>])
        /\ UNCHANGED <<metadata, tracker, refs, listening, gone, component, calls, lapses>>

\* The bound services are cleared and set again even if there is nothing to tell.
DynamicGreedy(t) ==
    LET s == F(t).s
    IN  /\ At(t, "look") /\ ~ Static /\ Greedy
        /\ \E worst \in First(boundRefs) :
              Do(t, [F(t) EXCEPT
                       !.pc    = "clear",
                       !.notes = IF Better(s, worst) \/ worst = None THEN <<REBIND(s, worst)>> ELSE <<>>])
        /\ UNCHANGED <<metadata, tracker, refs, listening, gone, component, calls, lapses>>

DynamicReluctant(t) ==
    /\ At(t, "look") /\ ~ Static /\ ~ Greedy
    /\ Do(t, IF boundRefs = {} THEN [F(t) EXCEPT !.pc = "clear", !.notes = <<REBIND(F(t).s, None)>>]
                               ELSE [F(t) EXCEPT !.pc = "notify"])
    /\ UNCHANGED <<metadata, tracker, refs, listening, gone, component, calls, lapses>>

\* StaticGreedy: where to go once ShouldNotifySatisfied is done.
Replace(f) == IF f.notes = <<>> THEN "notify" ELSE IF f.unbind \notin gone \cup {None} THEN "clear" ELSE "rebind"

\* ShouldNotifySatisfied looks at the bound services a second time.
Again(t) ==
    /\ At(t, "again")
    /\ Goto(t, IF IsSatisfied THEN Replace(F(t)) ELSE "update")
    /\ UNCHANGED <<metadata, tracker, refs, listening, gone, component, calls, lapses>>

Update(t) ==
    /\ At(t, "update")
    /\ UpdateBoundRefs
    /\ Do(t, [F(t) EXCEPT !.pc = IF Static /\ Greedy THEN Replace(F(t)) ELSE "notify", !.sat = Enough])
    /\ UNCHANGED <<metadata, tracker, matchedRefs, listening, gone, component, calls, lapses>>

-----------------------------------------------------------------------------
(* StaticRemoveService and DynamicRemoveService, and the replacement in ServiceAdded *)

ServiceRemoved(t) ==
    /\ At(t, "removed")
    /\ \/ /\ TRUE \in Finds(boundRefs, F(t).s)
          /\ Do(t, [F(t) EXCEPT !.pc = "clear", !.notes = IF Static THEN <<UNSATISFIED>> ELSE <<>>])
          /\ UNCHANGED tracked
       \/ /\ FALSE \in Finds(boundRefs, F(t).s)
          /\ Finish(t)
    /\ UNCHANGED <<metadata, tracking, refs, listening, gone, component, calls, lapses>>

ClearBoundRefs(t) ==
    /\ At(t, "clear")
    /\ boundRefs' = {} /\ Goto(t, "rebind")
    /\ UNCHANGED <<metadata, tracker, matchedRefs, listening, gone, component, calls, lapses>>

\* A static reference reports the result as BECAME_SATISFIED, a dynamic one that lost a service as a REBIND.
Rebind(t) ==
    /\ At(t, "rebind")
    /\ UpdateBoundRefs
    /\ Do(t, CASE Static                            -> [F(t) EXCEPT !.pc = "notify", !.sat = Enough]
               [] ~ Static /\ F(t).op = "add"       -> [F(t) EXCEPT !.pc = "notify"]
               [] ~ Static /\ F(t).op = "remove"    -> [F(t) EXCEPT !.pc = IF Enough THEN "pick" ELSE "check"])
    /\ UNCHANGED <<metadata, tracker, matchedRefs, listening, gone, component, calls, lapses>>

Pick(t) ==
    /\ At(t, "pick")
    /\ \E first \in First(boundRefs) :
          Do(t, [F(t) EXCEPT !.pc = "check", !.notes = <<REBIND(first, F(t).s)>>])
    /\ UNCHANGED <<metadata, tracker, refs, listening, gone, component, calls, lapses>>

\* Mutant of Check: a reference that lost its only service is not reported.
CheckNever(t) ==
    /\ At(t, "check")
    /\ Goto(t, "notify")
    /\ UNCHANGED <<metadata, tracker, refs, listening, gone, component, calls, lapses>>

Check(t) ==
    /\ At(t, "check")
    /\ Do(t, [F(t) EXCEPT !.pc = "notify", !.notes = IF IsSatisfied THEN @ ELSE Append(@, UNSATISFIED)])
    /\ UNCHANGED <<metadata, tracker, refs, listening, gone, component, calls, lapses>>

-----------------------------------------------------------------------------
(* The listener *)

Notes(f) == f.notes \o (IF f.sat THEN <<SATISFIED>> ELSE <<>>)

\* BatchNotifyAllListeners copies the map of the listeners.
BatchNotifyAllListeners(t) ==
    /\ At(t, "notify")
    /\ IF Notes(F(t)) = <<>> \/ listening # "yes"
       THEN Finish(t)
       ELSE Do(t, [F(t) EXCEPT !.pc = "deliver", !.notes = Notes(F(t)), !.sat = FALSE]) /\ UNCHANGED tracked
    /\ UNCHANGED <<metadata, tracking, refs, listening, gone, component, calls, lapses>>

\* Binding and unbinding need the service; an exception is logged.
There(s) == s \notin gone \cup {None}

\* RefChangedState of the configuration: Register, Deactivate, or Rebind if it is active.
Deliver(t) ==
    LET n == Head(F(t).notes)
    IN  /\ At(t, "deliver")
        /\ CASE n.event = "BECAME_SATISFIED"   -> up' = TRUE /\ instance' = IF up THEN instance ELSE boundRefs \ gone
             [] n.event = "BECAME_UNSATISFIED" -> up' = FALSE /\ instance' = {}
             [] n.event = "REBIND"             ->
                  /\ instance' = IF ~ up THEN instance
                                 ELSE (instance \cup {s \in {n.bind} : There(s)}) \ {s \in {n.unbind} : There(s)}
                  /\ UNCHANGED up
        /\ IF Len(F(t).notes) > 1 THEN Do(t, [F(t) EXCEPT !.notes = Tail(@)]) /\ UNCHANGED tracked ELSE Finish(t)
        /\ lapses' = lapses \cup {x \in {"own"} : n.bind = Own}
        /\ UNCHANGED <<metadata, tracking, refs, listening, gone, calls>>

\* RegisterListener binds what matches, tells the listener, and only then adds it to the map.
RegisterListener(t) ==
    /\ Call(t)
    /\ listening = "none" /\ tracking /\ \A u \in Threads : F(u).op # "listen"
    /\ UpdateBoundRefs
    /\ Do(t, IF Enough THEN [Idle EXCEPT !.pc = "deliver", !.op = "listen", !.notes = <<SATISFIED>>]
                       ELSE [Idle EXCEPT !.pc = "emplace", !.op = "listen"])
    /\ lapses' = lapses \cup Crossed
    /\ UNCHANGED <<metadata, tracker, matchedRefs, listening, gone, component>>

Emplace(t) ==
    /\ At(t, "emplace")
    /\ listening' = "yes" /\ Do(t, Idle)
    /\ UNCHANGED <<metadata, tracker, refs, gone, component, calls, lapses>>

\* DeleteConfigurations: the configuration is deactivated ...
Deactivate(t) ==
    /\ Call(t)
    /\ listening = "yes" /\ \A u \in Threads : F(u).op # "stop"
    /\ up' = FALSE /\ instance' = {}
    /\ Do(t, [Idle EXCEPT !.pc = "unregister", !.op = "stop"])
    /\ UNCHANGED <<metadata, tracker, refs, listening, gone, lapses>>

\* ... its listener removed ...
UnregisterListener(t) ==
    /\ At(t, "unregister")
    /\ listening' = "removed" /\ Goto(t, "close")
    /\ UNCHANGED <<metadata, tracker, refs, gone, component, calls, lapses>>

\* ... and the tracker closed, which waits for callbacks and then reports every service as removed, to no listener.
StopTracking(t) ==
    /\ At(t, "close")
    /\ \A u \in Threads : F(u).op \notin {"add", "remove"}
    /\ tracking' = FALSE /\ tracked' = [s \in Services |-> "none"]
    /\ IF (matchedRefs \cup boundRefs) \cap gone = {} THEN matchedRefs' = {} /\ boundRefs' = {}
       ELSE matchedRefs' \in SUBSET matchedRefs /\ boundRefs' \in SUBSET matchedRefs
    /\ Do(t, Idle)
    /\ UNCHANGED <<metadata, listening, gone, component, calls, lapses>>

-----------------------------------------------------------------------------
Step(t) ==
    \/ ServiceAdded(t) \/ StaticGreedy(t) \/ DynamicGreedy(t) \/ DynamicReluctant(t) \/ Again(t) \/ Update(t)
    \/ Untrack(t) \/ ServiceRemoved(t) \/ ClearBoundRefs(t) \/ Rebind(t) \/ Pick(t) \/ Check(t)
    \/ BatchNotifyAllListeners(t) \/ Deliver(t) \/ Emplace(t) \/ UnregisterListener(t) \/ StopTracking(t)

Next ==
    \/ \E t \in Threads : \/ Step(t) \/ RegisterListener(t) \/ Deactivate(t)
                          \/ \E s \in Services : AddingService(t, s) \/ RemovedService(t, s)
    \/ \E s \in Services : Unregister(s)

Spec == Init /\ [][Next]_vars /\ \A t \in Threads : WF_vars(Step(t))

-----------------------------------------------------------------------------
Quiet == \A t \in Threads : F(t) = Idle

\* Whatever callbacks overlapped, once they are over only services that match are bound, a reference that can be
\* satisfied is, and a greedy one with one service has the best (UpdateBoundRefs, ServiceAdded, ServiceRemoved).
\* Excepted are trackers of which a service was unregistered while a callback for it was under way on another thread:
\* the sets lose their order.
BindsBest ==
    (Quiet /\ "gone" \notin lapses)
        => /\ boundRefs \subseteq matchedRefs
           /\ Enough => IsSatisfied
           /\ (Greedy /\ Unary) => {boundRefs} = Best(matchedRefs, 1)

\* Once the callbacks are over, the configuration is active exactly if the reference is satisfied, and its instance
\* has the services that are bound, for every policy and cardinality. Excepted are callbacks that overlapped each other,
\* the registration of the listener or the end of their service, whose notifications come in any order or not at all,
\* and dynamic references that take several services or were offered a service of the component's own name
\* (ServiceAdded, StaticRemoveService, DynamicRemoveService, RefChangedState).
ComponentKnows ==
    (Quiet /\ listening = "yes" /\ lapses = {} /\ (Static \/ Unary))
        => /\ up = IsSatisfied
           /\ up => instance = boundRefs

\* What a comment says (ReferenceManagerImpl.cpp) and the code does not keep: a bound service that became unavailable
\* is replaced. Once its registration has ended, the erase in RemovedService may miss it, and it is bound again.
GoneIsUnbound == Quiet => boundRefs \cap gone = {}
=============================================================================
