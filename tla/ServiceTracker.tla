--------------------------- MODULE ServiceTracker ---------------------------
(***************************************************************************)
(* A ServiceTracker that is opened, closed and read by several threads     *)
(* while others register, modify and unregister the services it tracks     *)
(* (ServiceTracker.tpp, ServiceTrackerPrivate.tpp, TrackedService.tpp,     *)
(* BundleAbstractTracked.tpp, CounterLatch.h).                             *)
(*                                                                         *)
(* Every Open makes a new TrackedService: a generation. The tracker's      *)
(* mutex is dOwner; a TrackedService's mutex is held over one step only,   *)
(* except by a thread that is about to sleep on its condition (tOwner).    *)
(* Customizers run without a mutex. References are ordered by id: the      *)
(* rankings GetServiceReference compares are those of ServiceRegistry.     *)
(***************************************************************************)
EXTENDS Integers, FiniteSets

CONSTANTS Threads,
          MaxItems,      \* bound on services; the best reference is the least id
          MaxOpens,      \* bound on generations
          MaxCalls,      \* bound on the calls other than Open and on the failures of customizers
          MaxObjects     \* bound on the objects customizers make

ASSUME TrackerAssumption ==
    {MaxItems, MaxOpens, MaxCalls, MaxObjects} \subseteq Nat /\ IsFiniteSet(Threads)

Items   == 1 .. MaxItems
Gens    == 1 .. MaxOpens
Objects == 1 .. MaxObjects

VARIABLES
    state,      \* of a service: new, listed, unlisted (by Unregister), gone (its reference is invalid)
    matching,   \* the services whose properties match the filter
    listener,   \* the generation whose ServiceChanged is registered with the framework, or 0
    current,    \* d->trackedService, or 0
    opened,     \* generations made so far
    closed, initial, adding, tracked, latch,   \* of a TrackedService
    cachedReference, cachedService,            \* 0: empty
    dOwner, tOwner,
    call,       \* the call each thread is in
    budget,     \* calls and failures left
    nextObj,
    madeFor,    \* history: the generation and service an object was made for
    removed,    \* history: the objects RemovedService was called with
    refused,    \* history: <<generation, service>> the customizer refused or a client removed
    raced,      \* history: services with two changes reported at the same time
    during,     \* history: services that changed while an Open was in progress, or that an Open which
                \* a customizer left by an exception has not looked at
    left,       \* history: <<generation, service>> that a Close left by an exception has not untracked
    overlap     \* history: generations with an Open and a Close in progress at the same time

services == <<state, matching>>
lists    == <<initial, adding, tracked>>
caches   == <<cachedReference, cachedService>>
history  == <<refused, raced, during, left, overlap>>
vars     == <<services, listener, current, opened, closed, lists, latch, caches, dOwner, tOwner,
              call, budget, nextObj, madeFor, removed, history>>

NoKey    == <<0, 0>>
Unusable == -1      \* what CounterLatch::Wait leaves, long's minimum in the code
Empty    == [i \in Items |-> 0]
Idle     == [pc |-> "idle", from |-> "none", ev |-> "none", g |-> 0, i |-> 0, o |-> 0, refs |-> {}]

EventPCs  == {"setProps", "notify", "countUp", "check", "gone"}
TrackPCs  == {"track", "untrack", "adding", "final", "threw", "modified", "removing"}
OpenPCs   == {"lookup", "setInitial", "initial"}
ClosePCs  == {"closeLoad", "closeLock", "closeWait", "closeRefs", "closeEach"}
ReadPCs   == {"getService", "storeRef", "getObject", "storeService",
              "waitTracked", "waitLock", "sleep", "asleep"}
Customizer == {"adding", "final", "threw", "modified", "removing"}
Events    == {"register", "modify", "unregister"}

TypeOK ==
    /\ state \in [Items -> {"new", "listed", "unlisted", "gone"}] /\ matching \subseteq Items
    /\ listener \in 0 .. MaxOpens /\ current \in 0 .. MaxOpens /\ opened \in 0 .. MaxOpens
    /\ closed \subseteq Gens
    /\ initial \in [Gens -> SUBSET Items] /\ adding \in [Gens -> SUBSET Items]
    /\ tracked \in [Gens -> [Items -> 0 .. MaxObjects]]
    /\ latch \in [Gens -> Unusable .. Cardinality(Threads)]
    /\ cachedReference \in 0 .. MaxItems /\ cachedService \in 0 .. MaxObjects
    /\ dOwner \subseteq Threads /\ Cardinality(dOwner) <= 1
    /\ tOwner \in [Gens -> SUBSET Threads] /\ \A g \in Gens : Cardinality(tOwner[g]) <= 1
    /\ call \in [Threads -> [pc : {"idle"} \cup EventPCs \cup TrackPCs \cup OpenPCs \cup ClosePCs \cup ReadPCs,
                             from : {"none", "initial", "close", "remove", "get", "wait", "again"} \cup Events,
                             ev : {"none", "track", "untrack"}, g : 0 .. MaxOpens, i : 0 .. MaxItems,
                             o : 0 .. MaxObjects, refs : SUBSET Items]]
    /\ budget \in 0 .. MaxCalls
    /\ nextObj \in 1 .. MaxObjects + 1
    /\ madeFor \in [Objects -> (Gens \X Items) \cup {NoKey}]
    /\ removed \subseteq Objects /\ refused \subseteq Gens \X Items
    /\ raced \subseteq Items /\ during \subseteq Items /\ left \subseteq Gens \X Items /\ overlap \subseteq Gens

Init ==
    /\ \E n \in 0 .. MaxItems :                      \* services there before the tracker
          state = [i \in Items |-> IF i <= n THEN "listed" ELSE "new"]
    /\ matching = {i \in Items : state[i] = "listed"}
    /\ listener = 0 /\ current = 0 /\ opened = 0 /\ closed = {}
    /\ initial = [g \in Gens |-> {}] /\ adding = [g \in Gens |-> {}]
    /\ tracked = [g \in Gens |-> Empty]
    /\ latch = [g \in Gens |-> 0]
    /\ cachedReference = 0 /\ cachedService = 0
    /\ dOwner = {} /\ tOwner = [g \in Gens |-> {}]
    /\ call = [t \in Threads |-> Idle]
    /\ budget = MaxCalls
    /\ nextObj = 1 /\ madeFor = [o \in Objects |-> NoKey] /\ removed = {}
    /\ refused = {} /\ raced = {} /\ during = {} /\ left = {} /\ overlap = {}

-----------------------------------------------------------------------------
At(t, l)   == call[t].pc = l
Set(t, c)  == call' = [call EXCEPT ![t] = c]
Goto(t, l) == Set(t, [call[t] EXCEPT !.pc = l])
Spend      == budget > 0 /\ budget' = budget - 1
Free(g)    == tOwner[g] = {}
TrackedIn(g) == {i \in Items : g # 0 /\ tracked[g][i] # 0}
InEvent(c) == c.from \in Events
Opening    == \E t \in Threads : call[t].pc \in OpenPCs \/ call[t].from = "initial"
Closing    == \E t \in Threads : call[t].pc \in ClosePCs \/ call[t].from = "close"
Reported   == {call[t].i : t \in {u \in Threads : InEvent(call[u])}}

\* The threads that sleep on the condition of generation g wake up and lock its mutex again.
Woken(calls, g) ==
    [t \in Threads |-> IF calls[t].pc = "asleep" /\ calls[t].g = g
                       THEN [calls[t] EXCEPT !.pc = "waitLock"] ELSE calls[t]]

\* ServiceTrackerPrivate::Modified
Modified == cachedReference' = 0 /\ cachedService' = 0

\* Where a thread goes on after Track, TrackAdding or Untrack.
AfterTracking(c) ==
    CASE c.from = "initial"    -> [c EXCEPT !.pc = "initial", !.from = "none", !.o = 0, !.i = 0]
      [] c.from = "close"      -> [c EXCEPT !.pc = "closeEach", !.o = 0, !.i = 0]
      [] c.from = "unregister" -> [c EXCEPT !.pc = "gone", !.o = 0]
      [] OTHER                 -> Idle

\* The scope guard of ServiceChanged.
CountDown(t) == IF InEvent(call[t]) /\ latch[call[t].g] > 0
                THEN [latch EXCEPT ![call[t].g] = @ - 1] ELSE latch

Leave(t) == Set(t, AfterTracking(call[t])) /\ latch' = CountDown(t)

-----------------------------------------------------------------------------
(* The services, and the events their changes send. *)

\* A thread begins to change service i.
Change(t, i, c) ==
    /\ Spend
    /\ raced' = IF i \in Reported THEN raced \cup {i} ELSE raced
    /\ during' = IF Opening THEN during \cup {i} ELSE during
    /\ Set(t, [c EXCEPT !.i = i])
    /\ UNCHANGED <<listener, current, opened, closed, lists, latch, caches, dOwner, tOwner, nextObj, madeFor,
                   removed, refused, left, overlap>>

Register(t, i) ==
    /\ At(t, "idle") /\ state[i] = "new" /\ \A j \in 1 .. i - 1 : state[j] # "new"
    /\ state' = [state EXCEPT ![i] = "listed"]
    /\ matching' \in {matching, matching \cup {i}}
    /\ Change(t, i, [Idle EXCEPT !.pc = "notify", !.from = "register"])

\* SetProperties remembers the listeners that match before it changes the properties.
Modify(t, i) ==
    /\ At(t, "idle") /\ state[i] \in {"listed", "unlisted"}
    /\ UNCHANGED services
    /\ Change(t, i, [Idle EXCEPT !.pc = "setProps", !.from = "modify",
                                 !.g = IF i \in matching THEN listener ELSE 0])

SetProps(t) ==
    /\ At(t, "setProps")
    /\ \/ /\ state[call[t].i] # "gone"
          /\ matching' \in {matching \ {call[t].i}, matching \cup {call[t].i}}
          /\ Goto(t, "notify")
       \/ state[call[t].i] = "gone" /\ Set(t, Idle) /\ UNCHANGED matching
    /\ UNCHANGED <<state, listener, current, opened, closed, lists, latch, caches, dOwner, tOwner, budget,
                   nextObj, madeFor, removed, history>>

Unregister(t, i) ==
    /\ At(t, "idle") /\ state[i] = "listed"
    /\ state' = [state EXCEPT ![i] = "unlisted"]
    /\ UNCHANGED matching
    /\ Change(t, i, [Idle EXCEPT !.pc = "notify", !.from = "unregister"])

\* Mutant of EndMatch: listeners that matched before are forgotten.
EndMatchNever(c) == FALSE

\* The listener matched before the properties were changed.
EndMatch(c) == c.from = "modify" /\ c.g # 0

\* The listeners are chosen now, and called whatever happens to them before the call.
Notify(t) ==
    LET c == call[t]
        matches == c.i \in matching /\ listener # 0
    IN  /\ At(t, "notify")
        /\ Set(t, IF matches THEN [c EXCEPT !.pc = "countUp", !.g = listener,
                                            !.ev = IF c.from = "unregister" THEN "untrack" ELSE "track"]
                  ELSE IF EndMatch(c) THEN [c EXCEPT !.pc = "countUp", !.ev = "untrack"]
                  ELSE AfterTracking(c))
        /\ UNCHANGED <<services, listener, current, opened, closed, lists, latch, caches, dOwner, tOwner,
                       budget, nextObj, madeFor, removed, history>>

\* Unregister makes the reference invalid when the listeners have returned.
Gone(t) ==
    /\ At(t, "gone")
    /\ state' = [state EXCEPT ![call[t].i] = "gone"]
    /\ Set(t, Idle)
    /\ UNCHANGED <<matching, listener, current, opened, closed, lists, latch, caches, dOwner, tOwner, budget,
                   nextObj, madeFor, removed, history>>

-----------------------------------------------------------------------------
(* TrackedService::ServiceChanged *)

\* Mutant of CountUp: the call is not counted.
CountUpForgotten(t) ==
    /\ At(t, "countUp") /\ Goto(t, "check")
    /\ UNCHANGED <<services, listener, current, opened, closed, lists, latch, caches, dOwner, tOwner, budget,
                   nextObj, madeFor, removed, history>>

CountUp(t) ==
    /\ At(t, "countUp") /\ Goto(t, "check")
    /\ latch' = IF latch[call[t].g] >= 0 THEN [latch EXCEPT ![call[t].g] = @ + 1] ELSE latch
    /\ UNCHANGED <<services, listener, current, opened, closed, lists, caches, dOwner, tOwner, budget,
                   nextObj, madeFor, removed, history>>

Check(t) ==
    /\ At(t, "check") /\ Free(call[t].g)
    /\ IF call[t].g \notin closed /\ state[call[t].i] # "gone"
       THEN Goto(t, call[t].ev) /\ UNCHANGED latch
       ELSE Leave(t)
    /\ UNCHANGED <<services, listener, current, opened, closed, lists, caches, dOwner, tOwner, budget,
                   nextObj, madeFor, removed, history>>

-----------------------------------------------------------------------------
(* BundleAbstractTracked *)

StartAdding(t, g, i, c) ==
    /\ adding' = [adding EXCEPT ![g] = @ \cup {i}]
    /\ Set(t, [c EXCEPT !.pc = "adding", !.i = i])

Track(t) ==
    LET g == call[t].g
        i == call[t].i
    IN  /\ At(t, "track") /\ Free(g)
        /\ \/ /\ g \notin closed /\ tracked[g][i] # 0
              /\ Modified /\ Goto(t, "modified") /\ UNCHANGED <<adding, latch>>
           \/ /\ g \in closed \/ (tracked[g][i] = 0 /\ i \in adding[g])
              /\ Leave(t) /\ UNCHANGED <<caches, adding>>
           \/ /\ g \notin closed /\ tracked[g][i] = 0 /\ i \notin adding[g]
              /\ StartAdding(t, g, i, call[t]) /\ UNCHANGED <<caches, latch>>
        /\ UNCHANGED <<services, listener, current, opened, closed, initial, tracked, dOwner, tOwner, budget,
                       nextObj, madeFor, removed, history>>

CustomizerModified(t) ==
    /\ At(t, "modified") /\ Leave(t)
    /\ UNCHANGED <<services, listener, current, opened, closed, lists, caches, dOwner, tOwner, budget,
                   nextObj, madeFor, removed, history>>

Untrack(t) ==
    LET g == call[t].g
        i == call[t].i
    IN  /\ At(t, "untrack") /\ Free(g)
        /\ \/ /\ i \in initial[g]
              /\ initial' = [initial EXCEPT ![g] = @ \ {i}]
              /\ Leave(t) /\ UNCHANGED <<adding, tracked, caches>>
           \/ /\ i \notin initial[g] /\ i \in adding[g]
              /\ adding' = [adding EXCEPT ![g] = @ \ {i}]
              /\ Leave(t) /\ UNCHANGED <<initial, tracked, caches>>
           \/ /\ i \notin initial[g] \cup adding[g] /\ tracked[g][i] = 0
              /\ Leave(t) /\ UNCHANGED <<lists, caches>>
           \/ /\ i \notin initial[g] \cup adding[g] /\ tracked[g][i] # 0
              /\ tracked' = [tracked EXCEPT ![g][i] = 0]
              /\ Modified
              /\ Set(t, [call[t] EXCEPT !.pc = "removing", !.o = tracked[g][i]])
              /\ UNCHANGED <<initial, adding, latch>>
        /\ refused' = IF call[t].from = "remove" THEN refused \cup {<<g, i>>} ELSE refused
        /\ UNCHANGED <<services, listener, current, opened, closed, dOwner, tOwner, budget, nextObj, madeFor, removed,
                       raced, during, left, overlap>>

\* The customizer makes an object, or returns null as it must for a service that is gone.
CustomizerAdding(t) ==
    /\ At(t, "adding")
    /\ \/ /\ state[call[t].i] # "gone" /\ nextObj <= MaxObjects
          /\ Set(t, [call[t] EXCEPT !.pc = "final", !.o = nextObj])
          /\ nextObj' = nextObj + 1
          /\ madeFor' = [madeFor EXCEPT ![nextObj] = <<call[t].g, call[t].i>>]
          /\ UNCHANGED budget
       \/ /\ state[call[t].i] = "gone" \/ nextObj > MaxObjects
          /\ Goto(t, "final") /\ UNCHANGED <<budget, nextObj, madeFor>>
       \/ \E l \in {"final", "threw"} : Spend /\ Goto(t, l) /\ UNCHANGED <<nextObj, madeFor>>
    /\ UNCHANGED <<services, listener, current, opened, closed, lists, latch, caches, dOwner, tOwner, removed,
                   history>>

\* Mutants of StillWanted: an item that was untracked meanwhile is tracked all the same; the
\* tracker that was closed meanwhile is not noticed.
StillWantedAlways(g, i) == g \notin closed
StillWantedClosed(g, i) == i \in adding[g]

StillWanted(g, i) == i \in adding[g] /\ g \notin closed

\* CustomizerAddingFinal and the end of TrackAdding. A null takes the service out of "adding"
\* whoever put it there: another thread that is adding it then reports its object as removed. An
\* exception leaves Open, and what is left of the initial references is not looked at again.
CustomizerAddingFinal(t) ==
    LET c == call[t]
        g == c.g
        i == c.i
    IN  /\ c.pc \in {"final", "threw"} /\ Free(g)
        /\ adding' = [adding EXCEPT ![g] = @ \ {i}]
        /\ \/ /\ StillWanted(g, i) /\ c.o # 0
              /\ tracked' = [tracked EXCEPT ![g][i] = c.o]
              /\ Modified
              /\ call' = Woken([call EXCEPT ![t] = AfterTracking(c)], g)
              /\ latch' = CountDown(t)
              /\ refused' = refused \ {<<g, i>>}
              /\ UNCHANGED during
           \/ /\ ~ StillWanted(g, i) /\ c.o # 0
              /\ Goto(t, "removing")
              /\ UNCHANGED <<tracked, caches, latch, refused, during>>
           \/ /\ c.o = 0
              /\ IF c.pc = "threw" /\ c.from = "initial"
                 THEN Set(t, Idle) /\ during' = during \cup initial[g] /\ UNCHANGED latch
                 ELSE Leave(t) /\ UNCHANGED during
              /\ refused' = refused \cup {<<g, i>>}
              /\ UNCHANGED <<tracked, caches>>
        /\ UNCHANGED <<services, listener, current, opened, closed, initial, dOwner, tOwner, budget, nextObj, madeFor,
                       removed, raced, left, overlap>>

\* The customizer returns. An exception it throws in an event ends the event the same way: the
\* framework catches what listeners throw.
CustomizerRemoved(t) ==
    /\ At(t, "removing")
    /\ removed' = removed \cup {call[t].o}
    /\ Leave(t)
    /\ UNCHANGED <<services, listener, current, opened, closed, lists, caches, dOwner, tOwner, budget, nextObj, madeFor,
                   history>>

\* Its exception leaves Open or Close: the rest of the initial references, or of the references
\* Close has looked up, is not gone through.
CustomizerRemovedThrows(t) ==
    LET c == call[t]
    IN  /\ At(t, "removing") /\ Spend
        /\ removed' = removed \cup {c.o}
        /\ Set(t, Idle)
        /\ \/ c.from = "initial" /\ during' = during \cup initial[c.g] /\ UNCHANGED left
           \/ c.from = "close" /\ left' = left \cup ({c.g} \X c.refs) /\ UNCHANGED during
        /\ UNCHANGED <<services, listener, current, opened, closed, lists, latch, caches, dOwner, tOwner, nextObj,
                       madeFor, refused, raced, overlap>>

-----------------------------------------------------------------------------
(* ServiceTracker::Open *)

\* Mutant of ListenerOf: the token of the closed generation is taken for a valid one.
ListenerOfFirst(g) == IF g = 1 THEN g ELSE listener

ListenerOf(g) == g

\* The listener of the new generation is registered before the references are looked up.
Open(t) ==
    /\ At(t, "idle") /\ dOwner = {} /\ opened < MaxOpens
    /\ current = 0 \/ current \in closed
    /\ opened' = opened + 1 /\ listener' = ListenerOf(opened + 1)
    /\ dOwner' = {t}
    /\ Set(t, [Idle EXCEPT !.pc = "lookup", !.g = opened + 1])
    /\ during' = during \cup Reported
    /\ overlap' = IF Closing THEN overlap \cup ({current, opened + 1} \ {0}) ELSE overlap
    /\ UNCHANGED <<services, current, closed, lists, latch, caches, tOwner, budget, nextObj, madeFor, removed,
                   refused, raced, left>>

OpenLookup(t) ==
    /\ At(t, "lookup")
    /\ Set(t, [call[t] EXCEPT !.pc = "setInitial", !.refs = {i \in matching : state[i] = "listed"}])
    /\ UNCHANGED <<services, listener, current, opened, closed, lists, latch, caches, dOwner, tOwner, budget,
                   nextObj, madeFor, removed, history>>

OpenSetInitial(t) ==
    /\ At(t, "setInitial")
    /\ initial' = [initial EXCEPT ![call[t].g] = call[t].refs]
    /\ current' = call[t].g
    /\ dOwner' = {}
    /\ Set(t, [call[t] EXCEPT !.pc = "initial", !.refs = {}])
    /\ UNCHANGED <<services, listener, opened, closed, adding, tracked, latch, caches, tOwner, budget, nextObj, madeFor,
                   removed, history>>

TrackInitial(t) ==
    LET g == call[t].g
    IN  /\ At(t, "initial") /\ Free(g)
        /\ \/ /\ g \in closed \/ initial[g] = {}
              /\ Set(t, Idle) /\ UNCHANGED <<initial, adding>>
           \/ /\ g \notin closed
              /\ \E i \in initial[g] :
                    /\ initial' = [initial EXCEPT ![g] = @ \ {i}]
                    /\ IF tracked[g][i] # 0 \/ i \in adding[g]
                       THEN UNCHANGED <<adding, call>>
                       ELSE StartAdding(t, g, i, [call[t] EXCEPT !.from = "initial"])
        /\ UNCHANGED <<services, listener, current, opened, closed, tracked, latch, caches, dOwner, tOwner,
                       budget, nextObj, madeFor, removed, history>>

-----------------------------------------------------------------------------
(* ServiceTracker::Close and Remove *)

CloseRemoveListener(t) ==
    /\ At(t, "idle") /\ Spend
    /\ listener' = 0
    /\ Set(t, [Idle EXCEPT !.pc = "closeLoad"])
    /\ overlap' = IF dOwner # {} THEN overlap \cup ({current, opened} \ {0}) ELSE overlap
    /\ UNCHANGED <<services, current, opened, closed, lists, latch, caches, dOwner, tOwner, nextObj, madeFor, removed,
                   refused, raced, during, left>>

CloseLoad(t) ==
    /\ At(t, "closeLoad")
    /\ Set(t, [call[t] EXCEPT !.pc = "closeLock", !.g = current])
    /\ UNCHANGED <<services, listener, current, opened, closed, lists, latch, caches, dOwner, tOwner, budget,
                   nextObj, madeFor, removed, history>>

\* "closed" and the notification need the tracker's mutex, not the generation's.
CloseLock(t) ==
    LET g == call[t].g
    IN  /\ At(t, "closeLock") /\ dOwner = {}
        /\ \/ /\ g = 0 \/ current \in closed
              /\ Set(t, Idle) /\ UNCHANGED <<closed, caches>>
           \/ /\ g # 0 /\ current \notin closed
              /\ closed' = closed \cup {g}
              /\ Modified
              /\ call' = Woken([call EXCEPT ![t].pc = "closeWait"], g)
        /\ UNCHANGED <<services, listener, current, opened, lists, latch, dOwner, tOwner, budget, nextObj, madeFor,
                       removed, history>>

\* CounterLatch::Wait; its exception for a latch that was waited for before is caught.
CloseWait(t) ==
    /\ At(t, "closeWait") /\ latch[call[t].g] <= 0
    /\ latch' = [latch EXCEPT ![call[t].g] = Unusable]
    /\ Goto(t, "closeRefs")
    /\ UNCHANGED <<services, listener, current, opened, closed, lists, caches, dOwner, tOwner, budget, nextObj, madeFor,
                   removed, history>>

\* The references come from the tracker's current generation, not from the one being closed.
CloseRefs(t) ==
    /\ At(t, "closeRefs") /\ Free(current)
    /\ Set(t, [call[t] EXCEPT !.pc = "closeEach", !.refs = TrackedIn(current)])
    /\ UNCHANGED <<services, listener, current, opened, closed, lists, latch, caches, dOwner, tOwner, budget,
                   nextObj, madeFor, removed, history>>

CloseEach(t) ==
    /\ At(t, "closeEach")
    /\ \/ call[t].refs = {} /\ Set(t, Idle)
       \/ \E i \in call[t].refs :
            Set(t, [call[t] EXCEPT !.pc = "untrack", !.from = "close", !.i = i, !.refs = @ \ {i}])
    /\ UNCHANGED <<services, listener, current, opened, closed, lists, latch, caches, dOwner, tOwner, budget,
                   nextObj, madeFor, removed, history>>

Remove(t, i) ==
    /\ At(t, "idle") /\ current # 0 /\ state[i] # "new" /\ Spend
    /\ Set(t, [Idle EXCEPT !.pc = "untrack", !.from = "remove", !.g = current, !.i = i])
    /\ UNCHANGED <<services, listener, current, opened, closed, lists, latch, caches, dOwner, tOwner, nextObj, madeFor,
                   removed, history>>

-----------------------------------------------------------------------------
(* ServiceTracker::GetService, GetServiceReference and WaitForService *)

StartRead(t, from) ==
    /\ At(t, "idle") /\ Spend
    /\ Set(t, [Idle EXCEPT !.pc = "getService", !.from = from])
    /\ UNCHANGED <<services, listener, current, opened, closed, lists, latch, caches, dOwner, tOwner, nextObj, madeFor,
                   removed, history>>

\* GetService has found object o, or none.
AfterGet(c, o) ==
    IF o = 0 /\ (c.from = "wait" \/ (c.from = "again" /\ current \notin closed))
    THEN [Idle EXCEPT !.pc = "waitTracked", !.from = "again"]
    ELSE Idle

GetService(t) ==
    LET c == call[t]
        cached == cachedReference # 0 /\ state[cachedReference] # "gone"
        none   == TrackedIn(current) = {}
    IN  /\ At(t, "getService")
        /\ \/ /\ cachedService # 0
              /\ Set(t, AfterGet(c, cachedService))
           \/ /\ cachedService = 0 /\ cached
              /\ Set(t, [c EXCEPT !.pc = "getObject", !.i = cachedReference])
           \/ /\ cachedService = 0 /\ ~ cached /\ none
              /\ current # 0 => Free(current)
              /\ Set(t, AfterGet(c, 0))
           \/ /\ cachedService = 0 /\ ~ cached /\ ~ none /\ Free(current)
              /\ Set(t, [c EXCEPT !.pc = "storeRef",
                                  !.i = CHOOSE i \in TrackedIn(current) : \A j \in TrackedIn(current) : i <= j])
        /\ UNCHANGED <<services, listener, current, opened, closed, lists, latch, caches, dOwner, tOwner,
                       budget, nextObj, madeFor, removed, history>>

StoreRef(t) ==
    /\ At(t, "storeRef")
    /\ cachedReference' = call[t].i
    /\ Goto(t, "getObject")
    /\ UNCHANGED <<services, listener, current, opened, closed, lists, latch, cachedService, dOwner, tOwner,
                   budget, nextObj, madeFor, removed, history>>

GetObject(t) ==
    /\ At(t, "getObject") /\ Free(current)
    /\ Set(t, [call[t] EXCEPT !.pc = "storeService", !.o = tracked[current][call[t].i]])
    /\ UNCHANGED <<services, listener, current, opened, closed, lists, latch, caches, dOwner, tOwner, budget,
                   nextObj, madeFor, removed, history>>

StoreService(t) ==
    /\ At(t, "storeService")
    /\ cachedService' = call[t].o
    /\ Set(t, AfterGet(call[t], call[t].o))
    /\ UNCHANGED <<services, listener, current, opened, closed, lists, latch, cachedReference, dOwner, tOwner,
                   budget, nextObj, madeFor, removed, history>>

WaitTracked(t) ==
    /\ At(t, "waitTracked")
    /\ Set(t, IF current = 0 THEN Idle ELSE [call[t] EXCEPT !.pc = "waitLock", !.g = current])
    /\ UNCHANGED <<services, listener, current, opened, closed, lists, latch, caches, dOwner, tOwner, budget,
                   nextObj, madeFor, removed, history>>

\* The predicate of the wait is looked at with the generation's mutex held, ...
WaitLock(t) ==
    LET g == call[t].g
    IN  /\ At(t, "waitLock") /\ Free(g)
        /\ \/ /\ TrackedIn(g) # {} \/ g \in closed
              /\ Set(t, [Idle EXCEPT !.pc = "getService", !.from = "again"]) /\ UNCHANGED tOwner
           \/ /\ TrackedIn(g) = {} /\ g \notin closed
              /\ Goto(t, "sleep")
              /\ tOwner' = [tOwner EXCEPT ![g] = {t}]
        /\ UNCHANGED <<services, listener, current, opened, closed, lists, latch, caches, dOwner, budget,
                       nextObj, madeFor, removed, history>>

\* ... and the thread is then put to sleep and the mutex released in one step.
Sleep(t) ==
    /\ At(t, "sleep") /\ Goto(t, "asleep")
    /\ tOwner' = [tOwner EXCEPT ![call[t].g] = {}]
    /\ UNCHANGED <<services, listener, current, opened, closed, lists, latch, caches, dOwner, budget, nextObj, madeFor,
                   removed, history>>

-----------------------------------------------------------------------------
\* A step of the call a thread is in.
Step(t) ==
    \/ SetProps(t) \/ Notify(t) \/ Gone(t) \/ CountUp(t) \/ Check(t)
    \/ Track(t) \/ Untrack(t) \/ CustomizerAdding(t) \/ CustomizerAddingFinal(t)
    \/ CustomizerModified(t) \/ CustomizerRemoved(t) \/ CustomizerRemovedThrows(t)
    \/ OpenLookup(t) \/ OpenSetInitial(t) \/ TrackInitial(t)
    \/ CloseLoad(t) \/ CloseLock(t) \/ CloseWait(t) \/ CloseRefs(t) \/ CloseEach(t)
    \/ GetService(t) \/ StoreRef(t) \/ GetObject(t) \/ StoreService(t)
    \/ WaitTracked(t) \/ WaitLock(t) \/ Sleep(t)

Next == \E t \in Threads :
    \/ Step(t)
    \/ Open(t) \/ CloseRemoveListener(t)
    \/ \E i \in Items : Register(t, i) \/ Modify(t, i) \/ Unregister(t, i) \/ Remove(t, i)
    \/ \E from \in {"get", "wait"} : StartRead(t, from)

\* A thread that is in a call goes on; whether calls are made is up to the clients.
Fairness == \A t \in Threads : WF_vars(Step(t))

Spec == Init /\ [][Next]_vars /\ Fairness

-----------------------------------------------------------------------------
(* Properties *)

\* Nobody is changing the tracker, or the services.
Quiet == \A t \in Threads : call[t].pc \in {"idle"} \cup ReadPCs

Open_ == current # 0 /\ current \notin closed /\ current \notin overlap

\* An open tracker loses no service: when no call is in progress, every registered service that
\* matches is tracked, whatever order the initial references and the events came in. Left out are
\* services the customizer refused or a client removed, the rest of the initial references of an
\* Open that threw, services whose changes were reported on two threads at once, and a tracker that
\* was opened and closed at the same time (ServiceTracker::Open, TrackInitial, Track).
NoServiceLost ==
    Quiet /\ Open_ =>
        \A i \in matching \ (raced \cup initial[current]) :
            state[i] = "listed" /\ <<current, i>> \notin refused => tracked[current][i] # 0

\* An open tracker keeps no service that is unregistered or stopped matching, unless it changed
\* while an Open was in progress or on two threads at once, or was among the initial references an
\* Open that a customizer left by an exception had yet to look at (TrackedService::ServiceChanged,
\* BundleAbstractTracked::Untrack).
NoStaleService ==
    Quiet /\ Open_ =>
        \A i \in TrackedIn(current) \ (raced \cup during) : state[i] = "listed" /\ i \in matching

\* Once Close has waited, no customizer is called from an event of the closed generation, so that
\* a customizer may be destroyed (TrackedService::WaitOnCustomizersToFinish).
CloseWaitsForCustomizers ==
    \A t \in Threads : InEvent(call[t]) /\ call[t].pc \in Customizer => latch[call[t].g] # Unusable

\* When no call is in progress a closed generation tracks nothing, so that every object was given
\* back, unless an Open ran at the same time as the Close. Left out are the services that changed
\* while an Open was in progress or that it left behind, and those a Close had yet to untrack when
\* RemovedService threw (ServiceTracker::Close).
ClosedIsEmpty ==
    Quiet => \A g \in closed \ overlap : \A i \in TrackedIn(g) \ during : <<g, i>> \in left

\* The same without those a Close left behind: "end the tracking of services" (ServiceTracker.h).
ClosedTracksNothing ==
    Quiet => \A g \in closed \ overlap : TrackedIn(g) \subseteq during

\* Every object a customizer made is tracked, or reported as removed exactly once.
LifeOf(o) ==
    IF o >= nextObj THEN "unborn"
    ELSE IF \E t \in Threads : At(t, "final") /\ call[t].o = o THEN "offered"
    ELSE IF \E t \in Threads : At(t, "removing") /\ call[t].o = o THEN "withdrawn"
    ELSE IF \E g \in Gens : \E i \in Items : tracked[g][i] = o THEN "tracked"
    ELSE IF o \in removed THEN "removed" ELSE "lost"

\* The tracker implements the contract with its customizer.
Contract == INSTANCE CustomizerContract
    WITH Keys <- Gens \X Items, life <- [o \in Objects |-> LifeOf(o)], key <- madeFor
KeepsContract == Contract!Spec

\* WaitForService returns when the tracker is closed (ServiceTracker.h).
CloseWakesWaiter ==
    \A t \in Threads : (At(t, "asleep") /\ call[t].g \in closed) ~> ~ At(t, "asleep")
=============================================================================
