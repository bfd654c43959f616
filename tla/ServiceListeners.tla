-------------------------- MODULE ServiceListeners --------------------------
(***************************************************************************)
(* Service listeners (ServiceListeners.cpp) and the hooks that are told of *)
(* them (ServiceHooks.cpp), with threads that register, modify and         *)
(* unregister services meanwhile (ServiceRegistry.cpp,                     *)
(* ServiceRegistrationBase.cpp).                                           *)
(*                                                                         *)
(* An event takes three critical sections: the listeners are copied, then  *)
(* event hooks (user code) may remove some of the copy, then the index     *)
(* selects those that match. They are called without a lock. A listener    *)
(* that calls the framework is a second thread here, since no lock is held *)
(* while it runs. A listener added with user data first removes its        *)
(* predecessor, which is a RemoveListener of its own here.                 *)
(***************************************************************************)
EXTENDS LDAPExpr, FiniteSets

CONSTANTS
    Threads, Listeners, Services, Classes,
    Contexts,      \* the bundle context every listener is added with: [Listeners -> contexts]
    NoContext,
    Filters,       \* filters of listeners
    Attr, Values,  \* a property of services, its values
    MaxCalls       \* bound on calls of the interface

ASSUME ListenersAssumption ==
    /\ Filters \subseteq Exprs \cup {NoFilter}
    /\ DOMAIN Contexts = Listeners
    /\ Services \subseteq Nat          \* a service stands for its id
    /\ MaxCalls \in Nat

VARIABLES
    serviceSet,
    filter,            \* of every listener there ever was: its filter
    hashedServiceKeys,
    cache,             \* the index: <<key, value, listener>>
    localCache,        \* of every listener there ever was: the <<key, value>> it is in the index under
    complicated,       \* listeners whose filter must be evaluated
    removed,           \* entries on which SetRemoved was called
    state,             \* of a service: none, up, unregistering, gone
    props,             \* of a service: the values of its attributes
    hook,              \* the listener hook: none, adding (told of the listeners there are), tracked, gone
    told,              \* listeners the hook was told of with Added and not with Removed since
    frame,             \* what each thread is doing
    calls,
    knows,             \* history: services a listener takes for matching, by the events it got
    watched,           \* history: of a service, listeners that were there when it was registered
    hidden,            \* history: <<listener, service>> that an event hook hid
    mixed,             \* history: services with events of two threads at a time
    blurred            \* history: listeners about which the hook was told too early, too late or not at all

vars == <<serviceSet, filter, hashedServiceKeys, cache, localCache, complicated, removed, state, props, hook, told,
          frame, calls, knows, watched, hidden, mixed, blurred>>

index   == <<serviceSet, filter, hashedServiceKeys, cache, localCache, complicated, removed>>
service == <<state, props>>
hooks   == <<hook, told, blurred>>
events  == <<knows, watched, hidden, mixed>>

Idle    == [pc |-> "idle"]
HashedKeys == {OBJECTCLASS, SERVICE_ID}

\* Where a thread can be: in a change of the listeners, or delivering an event.
ListenerPCs    == {"reg", "unreg", "callAdded", "callRemoved", "removeAll"}
ListenerFrames == [pc : ListenerPCs, ls : SUBSET Listeners,
                   ctx : Range(Contexts) \cup {NoContext}]
EventTypes  == {"REGISTERED", "MODIFIED", "MODIFIED_ENDMATCH", "UNREGISTERING"}
EventPCs    == {"copy", "match", "change", "deliver"}
EventFrames == [pc : EventPCs, s : Services, type : EventTypes, value : Values,
                receivers : SUBSET Listeners, before : SUBSET Listeners]

Matches(l, s) == Evaluate(filter[l], props[s])

TypeOK ==
    /\ serviceSet \subseteq Listeners /\ complicated \subseteq serviceSet /\ removed \subseteq Listeners \ serviceSet
    /\ serviceSet \subseteq DOMAIN filter /\ Range(filter) \subseteq Filters
    /\ hashedServiceKeys \in {{}, HashedKeys}
    /\ \A e \in cache : e[1] \in HashedKeys /\ e[3] \in serviceSet
    /\ state \in [Services -> {"none", "up", "unregistering", "gone"}]
    /\ hook \in {"none", "adding", "tracked", "gone"} /\ told \subseteq Listeners
    /\ \A t \in Threads : frame[t] \in {Idle, [pc |-> "hookAdding"], [pc |-> "fault"]} \cup ListenerFrames \cup EventFrames
    /\ calls \in 0 .. MaxCalls

NoProps == (OBJECTCLASS :> {}) @@ (SERVICE_ID :> {}) @@ (Attr :> {})

Init ==
    /\ serviceSet = {} /\ removed = {} /\ complicated = {} /\ cache = {}
    /\ filter = <<>> /\ localCache = <<>>
    /\ hashedServiceKeys = HashedKeys
    /\ state = [s \in Services |-> "none"] /\ props = [s \in Services |-> NoProps]
    /\ hook = "none" /\ told = {}
    /\ frame = [t \in Threads |-> Idle]
    /\ calls = 0
    /\ knows = [l \in Listeners |-> {}] /\ watched = [s \in Services |-> {}]
    /\ hidden = {} /\ mixed = {} /\ blurred = {}

-----------------------------------------------------------------------------
Crashed  == \E t \in Threads : frame[t].pc = "fault"
Do(t, f) == frame' = [frame EXCEPT ![t] = f]
Call(t)  == frame[t] = Idle /\ ~ Crashed /\ calls < MaxCalls /\ calls' = calls + 1
At(t, l) == frame[t].pc = l /\ ~ Crashed

Pending(l) == \E t \in Threads : frame[t].pc \in {"reg", "callAdded"} /\ l \in frame[t].ls

-----------------------------------------------------------------------------
(* Listeners *)

\* CheckSimple_unlocked for the filter of a new listener: where the listener goes.
CheckSimple(l, f) ==
    LET simple == IF f = NoFilter THEN [ok |-> FALSE, cache |-> <<>>] ELSE IsSimple(f, hashedServiceKeys)
        local  == {kv \in UNION {{k} \X simple.cache[k] : k \in DOMAIN simple.cache} : simple.ok}
    IN  /\ localCache' = localCache @@ (l :> local)
        /\ cache' = cache \cup {<<kv[1], kv[2], l>> : kv \in local}
        /\ complicated' = IF simple.ok THEN complicated ELSE complicated \cup {l}

AddServiceListener(t, l, f) ==
    /\ Call(t)
    /\ l \notin DOMAIN filter
    /\ serviceSet' = serviceSet \cup {l} /\ filter' = filter @@ (l :> f)
    /\ CheckSimple(l, f)
    /\ Do(t, [pc |-> "reg", ls |-> {l}, ctx |-> NoContext])
    /\ UNCHANGED <<hashedServiceKeys, removed, service, hooks, events>>

\* RemoveFromCache_unlocked for every listener of the set: an entry without cached values is complicated.
RemoveFromCache(ls) ==
    /\ cache' = {e \in cache : ~ (e[3] \in ls /\ <<e[1], e[2]>> \in localCache[e[3]] /\ e[1] \in hashedServiceKeys)}
    /\ complicated' = complicated \ {l \in ls : localCache[l] = {}}

\* RemoveListener with the token AddServiceListener returned.
RemoveServiceListener(t, l) ==
    /\ Call(t)
    /\ l \in serviceSet /\ ~ Pending(l)
    /\ removed' = removed \cup {l} /\ serviceSet' = serviceSet \ {l}
    /\ RemoveFromCache({l})
    /\ Do(t, [pc |-> "unreg", ls |-> {l}, ctx |-> NoContext])
    /\ UNCHANGED <<filter, hashedServiceKeys, localCache, service, hooks, events>>

Of(ctx) == {l \in serviceSet : Contexts[l] = ctx}

\* A bundle stops: the hooks are told of the listeners it has now ...
HooksBundleStopped(t, ctx) ==
    /\ Call(t)
    /\ Do(t, [pc |-> "unreg", ls |-> Of(ctx), ctx |-> ctx])
    /\ blurred' = blurred \cup {l \in Of(ctx) : Pending(l)}
    /\ UNCHANGED <<index, service, hook, told, events>>

\* ... and later the listeners it then has are removed, without SetRemoved.
RemoveAllListeners(t) ==
    LET ls == Of(frame[t].ctx)
    IN  /\ At(t, "removeAll")
        /\ serviceSet' = serviceSet \ ls
        /\ RemoveFromCache(ls)
        /\ blurred' = blurred \cup (ls \ frame[t].ls)
        /\ Do(t, Idle)
        /\ UNCHANGED <<filter, hashedServiceKeys, localCache, removed, service, hook, told, calls, events>>

\* The framework is shut down: all bundles have stopped, the hooks are closed.
Clear(t) ==
    /\ Call(t)
    /\ \A u \in Threads : frame[u] = Idle
    /\ \A s \in Services : state[s] \in {"none", "gone"}
    /\ hook' = IF hook = "none" THEN "none" ELSE "gone"
    /\ serviceSet' = {} /\ hashedServiceKeys' = {} /\ complicated' = {} /\ cache' = {}
    /\ UNCHANGED <<filter, localCache, removed, service, told, blurred, frame, events>>

-----------------------------------------------------------------------------
(* The listener hook *)

AfterUnreg(f) == IF f.ctx = NoContext THEN Idle ELSE [f EXCEPT !.pc = "removeAll"]

\* HandleServiceListenerReg: the hooks that are tracked now are to be called.
HandleServiceListenerReg(t) ==
    /\ At(t, "reg")
    /\ Do(t, IF hook = "tracked" THEN [frame[t] EXCEPT !.pc = "callAdded"] ELSE Idle)
    /\ blurred' = IF hook = "adding" THEN blurred \cup frame[t].ls ELSE blurred
    /\ UNCHANGED <<index, service, hook, told, calls, events>>

\* Mutant of HandleServiceListenerUnreg: the listeners of a bundle that stops are not reported.
UnregExceptStopped(t) ==
    /\ At(t, "unreg")
    /\ Do(t, IF hook = "tracked" /\ frame[t].ctx = NoContext THEN [frame[t] EXCEPT !.pc = "callRemoved"]
                                                           ELSE AfterUnreg(frame[t]))
    /\ blurred' = IF hook = "adding" \/ (hook = "none" /\ frame[t].ctx # NoContext)
                  THEN blurred \cup frame[t].ls ELSE blurred
    /\ UNCHANGED <<index, service, hook, told, calls, events>>

HandleServiceListenerUnreg(t) ==
    /\ At(t, "unreg")
    /\ Do(t, IF hook = "tracked" THEN [frame[t] EXCEPT !.pc = "callRemoved"] ELSE AfterUnreg(frame[t]))
    /\ blurred' = IF hook = "adding" \/ (hook = "none" /\ frame[t].ctx # NoContext)
                  THEN blurred \cup frame[t].ls ELSE blurred
    /\ UNCHANGED <<index, service, hook, told, calls, events>>

\* The tracker returns null for a hook that has gone since, and null is called.
CallHook(t, next, told1) ==
    /\ IF hook = "tracked" THEN Do(t, next) /\ told' = told1
                           ELSE Do(t, [pc |-> "fault"]) /\ UNCHANGED told
    /\ UNCHANGED <<index, service, hook, blurred, calls, events>>

Added(t)   == At(t, "callAdded") /\ CallHook(t, Idle, told \cup frame[t].ls)
Removed(t) == At(t, "callRemoved") /\ CallHook(t, AfterUnreg(frame[t]), told \ frame[t].ls)

\* A hook is registered: AddingService tells it of all listeners, and only then is it tracked.
AddingService(t) ==
    /\ Call(t)
    /\ hook = "none"
    /\ hook' = "adding" /\ told' = serviceSet
    /\ Do(t, [pc |-> "hookAdding"])
    /\ UNCHANGED <<index, service, blurred, events>>

HookTracked(t) ==
    /\ At(t, "hookAdding")
    /\ hook' = "tracked"
    /\ Do(t, Idle)
    /\ UNCHANGED <<index, service, told, blurred, calls, events>>

HookUnregistered(t) ==
    /\ Call(t)
    /\ hook = "tracked" /\ hook' = "gone"
    /\ UNCHANGED <<index, service, told, blurred, frame, events>>

-----------------------------------------------------------------------------
(* Events *)

InEvent(t, s) == frame[t].pc \in EventPCs /\ frame[t].s = s
Busy(s)       == \E t \in Threads : InEvent(t, s)
Available(s)  == state[s] \in {"up", "unregistering"}

Begin(t, s, type, v) ==
    /\ Call(t)
    /\ Do(t, [pc |-> "copy", s |-> s, type |-> type, value |-> v, receivers |-> {}, before |-> {}])
    /\ mixed' = IF Busy(s) THEN mixed \cup {s} ELSE mixed

RegisterService(t, s, classes, v) ==
    /\ state[s] = "none"
    /\ state' = [state EXCEPT ![s] = "up"]
    /\ props' = [props EXCEPT ![s] = (OBJECTCLASS :> classes) @@ (SERVICE_ID :> {s}) @@ (Attr :> {v})]
    /\ watched' = [watched EXCEPT ![s] = serviceSet]
    /\ Begin(t, s, "REGISTERED", v)
    /\ UNCHANGED <<index, hooks, knows, hidden>>

\* SetProperties first looks for the listeners that match the old properties.
SetProperties(t, s, v) ==
    /\ Available(s)
    /\ \A u \in Threads : ~ (InEvent(u, s) /\ frame[u].type = "REGISTERED")
    /\ Begin(t, s, "MODIFIED_ENDMATCH", v)
    /\ UNCHANGED <<index, service, hooks, knows, watched, hidden>>

Unregister(t, s) ==
    /\ state[s] = "up"
    /\ state' = [state EXCEPT ![s] = "unregistering"]
    /\ Begin(t, s, "UNREGISTERING", CHOOSE v \in Values : TRUE)
    /\ UNCHANGED <<index, props, hooks, knows, watched, hidden>>

\* GetMatchingServiceListeners copies the listeners ...
Copy(t) ==
    /\ At(t, "copy")
    /\ Do(t, [frame[t] EXCEPT !.pc = "match", !.receivers = serviceSet])
    /\ UNCHANGED <<index, service, hooks, calls, events>>

\* ... which the index and, for complicated filters, the properties of the service select from.
Selected(receivers, s) ==
    receivers \cap (   {l \in complicated : Evaluate(filter[l], props[s])}
                    \cup {e[3] : e \in {x \in cache : x[2] \in props[s][x[1]]}})

\* Mutant of NoLongerMatching: all that matched before get the end of the match as well.
NoLongerMatchingAll(before, receivers) == before

\* ServiceChanged: who gets MODIFIED does not get MODIFIED_ENDMATCH.
NoLongerMatching(before, receivers) == before \ receivers

\* Event hooks hide some listeners, the others are matched.
Match(t) ==
    LET f == frame[t]
    IN  /\ At(t, "match")
        /\ \E hide \in SUBSET f.receivers :
              LET matching == Selected(f.receivers \ hide, f.s)
              IN  /\ Do(t, IF f.type = "MODIFIED_ENDMATCH"
                           THEN [f EXCEPT !.pc = "change", !.before = matching, !.receivers = {}]
                           ELSE [f EXCEPT !.pc = "deliver", !.receivers = matching,
                                          !.before = NoLongerMatching(f.before, matching)])
                  /\ hidden' = hidden \cup (hide \X {f.s})
        /\ UNCHANGED <<index, service, hooks, calls, knows, watched, mixed>>

\* The properties change, unless the service is gone: SetProperties throws.
Change(t) ==
    LET f == frame[t]
    IN  /\ At(t, "change")
        /\ IF Available(f.s)
           THEN /\ props' = [props EXCEPT ![f.s][Attr] = {f.value}]
                /\ Do(t, [f EXCEPT !.pc = "copy", !.type = "MODIFIED"])
           ELSE Do(t, Idle) /\ UNCHANGED props
        /\ UNCHANGED <<index, state, hooks, calls, events>>

\* A listener that was not removed meanwhile is called.
Deliver(t) ==
    LET f == frame[t]
    IN  /\ At(t, "deliver")
        /\ \E l \in f.receivers :
              /\ Do(t, [f EXCEPT !.receivers = @ \ {l}])
              /\ knows' = IF l \in removed THEN knows
                          ELSE IF f.type \in {"REGISTERED", "MODIFIED"} THEN [knows EXCEPT ![l] = @ \cup {f.s}]
                                                                       ELSE [knows EXCEPT ![l] = @ \ {f.s}]
        /\ UNCHANGED <<index, service, hooks, calls, watched, hidden, mixed>>

\* All were called. MODIFIED is followed by MODIFIED_ENDMATCH, UNREGISTERING by the end of the service.
Delivered(t) ==
    LET f == frame[t]
    IN  /\ At(t, "deliver") /\ f.receivers = {}
        /\ Do(t, IF f.type = "MODIFIED"
                 THEN [f EXCEPT !.type = "MODIFIED_ENDMATCH", !.receivers = f.before, !.before = {}] ELSE Idle)
        /\ state' = IF f.type = "UNREGISTERING" THEN [state EXCEPT ![f.s] = "gone"] ELSE state
        /\ UNCHANGED <<index, props, hooks, calls, events>>

-----------------------------------------------------------------------------
Next ==
    \E t \in Threads :
        \/ \E l \in Listeners : RemoveServiceListener(t, l) \/ \E f \in Filters : AddServiceListener(t, l, f)
        \/ \E c \in Range(Contexts) : HooksBundleStopped(t, c)
        \/ RemoveAllListeners(t) \/ Clear(t)
        \/ HandleServiceListenerReg(t) \/ HandleServiceListenerUnreg(t) \/ Added(t) \/ Removed(t)
        \/ AddingService(t) \/ HookTracked(t) \/ HookUnregistered(t)
        \/ \E s \in Services : \/ \E c \in (SUBSET Classes) \ {{}}, v \in Values : RegisterService(t, s, c, v)
                               \/ \E v \in Values : SetProperties(t, s, v)
                               \/ Unregister(t, s)
        \/ Copy(t) \/ Match(t) \/ Change(t) \/ Deliver(t) \/ Delivered(t)

Spec == Init /\ [][Next]_vars

-----------------------------------------------------------------------------
Up == {s \in Services : state[s] = "up"}

\* A listener is called if its filter is met (BundleContext.h: "The listener is called if the filter
\* criteria is met."): the index and the list of complicated filters select a listener for a service
\* exactly if its filter holds for the properties of the service.
FoundIffMatches ==
    \A l \in serviceSet, s \in Up : l \in Selected(serviceSet, s) <=> Matches(l, s)

\* A lookup with a filter (ServiceRegistry::Get_unlocked) returns the registered services that match it: the
\* narrowing to the classes the filter names loses none.
LookupFindsMatching ==
    \A e \in Exprs : Get_unlocked(e, [s \in Up |-> props[s]]) = {s \in Up : Evaluate(e, props[s])}

\* By the events it got, a listener knows which services match its filter. This is for listeners that
\* were there when the service was registered, from which no event hook hid an event of the service,
\* and for services whose events did not overlap and are all delivered: other listeners and other
\* services may come and go while events are matched and delivered.
ListenersKnowServices ==
    \A s \in Services : \A l \in watched[s] \cap serviceSet :
        (~ Busy(s) /\ s \notin mixed /\ <<l, s>> \notin hidden)
            => (s \in knows[l] <=> s \in Up /\ Matches(l, s))

\* A listener hook that is tracked knows the listeners (Added and Removed of ServiceListenerHook), when no
\* listener is just being added or removed. Listeners that came or went while the hook was becoming
\* tracked, or while their bundle stopped, are excepted: the code loses notifications then.
HookKnowsListeners ==
    (hook = "tracked" /\ \A t \in Threads : frame[t].pc \notin ListenerPCs)
        => told \ blurred = serviceSet \ blurred
=============================================================================
