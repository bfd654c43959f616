-------------------------- MODULE ServiceRegistry --------------------------
(***************************************************************************)
(* ServiceRegistry and the three calls that change what it lists:          *)
(* RegisterService, ServiceRegistrationBase::SetProperties (the ranking)   *)
(* and ServiceRegistrationBase::Unregister, on several threads.            *)
(*                                                                         *)
(* The lists are guarded by the registry's mutex, the properties of a      *)
(* service by the registration's. operator< reads rankings one at a time   *)
(* while a search or a sort holds only the registry's mutex, so rankings   *)
(* may change under it. "seen" collects the rankings each service had      *)
(* since the mutex was taken.                                              *)
(***************************************************************************)
EXTENDS Integers, FiniteSets, Sequences, SequencesExt

CONSTANTS Threads,
          Classes,       \* interface names
          ClassSets,     \* the sets of classes services are registered with
          Ranks,         \* values of service.ranking
          MaxServices,   \* bound on registrations: service ids are 1 .. MaxServices
          MaxSets        \* bound on the calls of SetProperties

ASSUME RegistryAssumption ==
    /\ ClassSets \subseteq (SUBSET Classes) \ {{}}
    /\ Ranks # {} /\ Ranks \subseteq Int
    /\ MaxServices \in Nat \ {0} /\ MaxSets \in Nat

Services == 1 .. MaxServices
NoRank   == CHOOSE r \in Ranks : TRUE

VARIABLES
    nextServiceID,         \* the static counter of CreateServiceProperties
    objectclass,           \* the classes a service was registered with
    rank,                  \* its service.ranking
    available, unregistering,
    bundle,                \* d->bundle is set
    serviceRegistrations,  \* every listed service, in the order of registration
    classServices,         \* the listed services of a class, best first
    owner,                 \* the thread that holds the registry's mutex across steps, if any
    seen,                  \* the rankings a service had since then
    pc, svc, newRank,      \* a thread's position, service, and argument of SetProperties
    sets,                  \* calls of SetProperties so far
    told,                  \* history: UNREGISTERING events sent for a service
    skipped,               \* history: classes for which a sort was skipped since the last one
    cleared                \* history: services that Clear took from the lists

regState == <<objectclass, available, unregistering, bundle>>
lists    == <<serviceRegistrations, classServices>>
vars     == <<nextServiceID, rank, regState, lists, owner, seen, pc, svc, newRank, sets, told, skipped, cleared>>

PCs == {"idle", "regLock", "regInsert", "regReference", "regEvent",
        "setRank", "setLock", "setSort", "setEvent",
        "unregCas", "unregRemove", "unregEvent", "unregMark", "unregClear", "fault"}

TypeOK ==
    /\ nextServiceID \in 1 .. MaxServices + 1
    /\ objectclass \in [Services -> SUBSET Classes]
    /\ rank \in [Services -> Ranks]
    /\ available \in [Services -> BOOLEAN] /\ unregistering \in [Services -> BOOLEAN]
    /\ bundle \in [Services -> BOOLEAN]
    /\ serviceRegistrations \in Seq(Services)
    /\ classServices \in [Classes -> Seq(Services)]
    /\ owner \subseteq Threads /\ Cardinality(owner) <= 1
    /\ seen \in [Services -> SUBSET Ranks]
    /\ pc \in [Threads -> PCs] /\ svc \in [Threads -> Services] /\ newRank \in [Threads -> Ranks]
    /\ sets \in 0 .. MaxSets
    /\ told \in [Services -> Nat]
    /\ skipped \subseteq Classes
    /\ cleared \subseteq Services

Init ==
    /\ nextServiceID = 1
    /\ objectclass = [s \in Services |-> {}]
    /\ rank = [s \in Services |-> NoRank]
    /\ available = [s \in Services |-> FALSE]
    /\ unregistering = [s \in Services |-> FALSE]
    /\ bundle = [s \in Services |-> FALSE]
    /\ serviceRegistrations = <<>>
    /\ classServices = [c \in Classes |-> <<>>]
    /\ owner = {}
    /\ seen = [s \in Services |-> {}]
    /\ pc = [t \in Threads |-> "idle"]
    /\ svc = [t \in Threads |-> 1]
    /\ newRank = [t \in Threads |-> NoRank]
    /\ sets = 0
    /\ told = [s \in Services |-> 0]
    /\ skipped = {}
    /\ cleared = {}

\* The call ends when the thread goes to "idle", and its local variables with it.
Goto(t, l) == /\ pc' = [pc EXCEPT ![t] = l]
              /\ svc' = IF l = "idle" THEN [svc EXCEPT ![t] = 1] ELSE svc
              /\ newRank' = IF l = "idle" THEN [newRank EXCEPT ![t] = NoRank] ELSE newRank
Call(t, l, s, r) == /\ pc' = [pc EXCEPT ![t] = l]
                    /\ svc' = [svc EXCEPT ![t] = s]
                    /\ newRank' = [newRank EXCEPT ![t] = r]
Running    == \A t \in Threads : pc[t] # "fault"

-----------------------------------------------------------------------------
(* ServiceReferenceBase::operator<, and the order of a class's list. *)

\* s < u with the rankings r: by ranking, then the higher id is less.
Less(s, u, r) == r[s] < r[u] \/ (r[s] = r[u] /\ u < s)

\* Best first: read backwards the list is ascending.
BestFirst(list, r) == \A i, j \in 1 .. Len(list) : i < j => Less(list[j], list[i], r)

\* std::lower_bound over the reversed list, for a service that is not in it: the position at
\* which the search of len elements of the reversed list, from the one at first, ends.
SearchFrom(list, s, r) ==
    LET n == Len(list)
        from[len \in 0 .. n] ==
            [first \in 0 .. n - len |->
                IF len = 0 THEN first
                ELSE LET half == len \div 2
                         mid  == first + half
                     IN  IF Less(list[n - mid], s, r)
                         THEN from[len - half - 1][mid + 1]
                         ELSE from[half][first]]
    IN  from

\* How many elements of the reversed list the new one goes behind.
LowerBound(list, s, r) == SearchFrom(list, s, r)[Len(list)][0]

\* Mutant of Inserted: the position is counted from the front.
InsertedFromFront(list, s, r) == InsertAt(list, LowerBound(list, s, r) + 1, s)

\* s.insert(ip.base(), res)
Inserted(list, s, r) == InsertAt(list, Len(list) - LowerBound(list, s, r) + 1, s)

-----------------------------------------------------------------------------
(* The registry's mutex. A step that takes and releases it is one action. *)

Acquire(t) == /\ owner = {} /\ owner' = {t}
              /\ seen' = [s \in Services |-> {rank[s]}]
Release    == /\ owner' = {}
              /\ seen' = [s \in Services |-> {}]

\* Every ranking comparisons may have read, one for each service.
Views == {r \in [Services -> Ranks] : \A s \in Services : r[s] \in seen[s]}

-----------------------------------------------------------------------------
(* RegisterService *)

\* CreateServiceProperties takes an id before the registry's mutex is taken.
RegisterCreate(t, cs, r) ==
    LET s == nextServiceID
    IN  /\ pc[t] = "idle" /\ Running /\ s \in Services
        /\ nextServiceID' = s + 1
        /\ objectclass' = [objectclass EXCEPT ![s] = cs]
        /\ rank' = [rank EXCEPT ![s] = r]
        /\ available' = [available EXCEPT ![s] = TRUE]
        /\ bundle' = [bundle EXCEPT ![s] = TRUE]
        /\ Call(t, "regLock", s, NoRank)
        /\ UNCHANGED <<unregistering, lists, owner, seen, sets, told, skipped, cleared>>

RegisterLock(t) ==
    /\ pc[t] = "regLock" /\ Running /\ Acquire(t)
    /\ Goto(t, "regInsert")
    /\ UNCHANGED <<nextServiceID, rank, regState, lists, sets, told, skipped, cleared>>

\* The search compares the new service with each other one at most once, so one view of the
\* rankings decides it.
RegisterInsert(t) ==
    LET s == svc[t]
    IN  /\ pc[t] = "regInsert" /\ Running
        /\ serviceRegistrations' = Append(serviceRegistrations, s)
        /\ \E r \in Views :
             classServices' = [c \in Classes |-> IF c \in objectclass[s]
                                                 THEN Inserted(classServices[c], s, r)
                                                 ELSE classServices[c]]
        /\ Release
        /\ Goto(t, "regReference")
        /\ UNCHANGED <<nextServiceID, rank, regState, sets, told, skipped, cleared>>

\* GetReference throws when a stopping bundle has unregistered the service already.
RegisterReference(t) ==
    /\ pc[t] = "regReference" /\ Running
    /\ \/ available[svc[t]] /\ Goto(t, "regEvent")
       \/ ~available[svc[t]] /\ Goto(t, "idle")
    /\ UNCHANGED <<nextServiceID, rank, regState, lists, owner, seen, sets, told, skipped, cleared>>

\* The listeners are told.
RegisterEvent(t) ==
    /\ pc[t] = "regEvent" /\ Running
    /\ Goto(t, "idle")
    /\ UNCHANGED <<nextServiceID, rank, regState, lists, owner, seen, sets, told, skipped, cleared>>

-----------------------------------------------------------------------------
(* SetProperties *)

\* Called with the registration that RegisterService returned.
Returned(s) == /\ s < nextServiceID
               /\ \A t \in Threads : svc[t] = s => pc[t] \notin {"regLock", "regInsert", "regReference",
                                                                 "regEvent"}

\* The first two checks of "available"; then hooks run without a mutex.
SetStart(t, s, r) ==
    /\ pc[t] = "idle" /\ Running /\ sets < MaxSets
    /\ Returned(s) /\ available[s]
    /\ sets' = sets + 1
    /\ Call(t, "setRank", s, r)
    /\ UNCHANGED <<nextServiceID, rank, regState, lists, owner, seen, told, skipped, cleared>>

SetRank(t) ==
    LET s == svc[t]
    IN  /\ pc[t] = "setRank" /\ Running
        /\ \/ ~available[s] /\ Goto(t, "idle") /\ UNCHANGED <<rank, seen>>
           \/ /\ available[s]
              /\ rank' = [rank EXCEPT ![s] = newRank[t]]
              /\ seen' = IF owner = {} THEN seen ELSE [seen EXCEPT ![s] = @ \cup {newRank[t]}]
              /\ Goto(t, IF rank[s] = newRank[t] THEN "setEvent" ELSE "setLock")
        /\ UNCHANGED <<nextServiceID, regState, lists, owner, sets, told, skipped, cleared>>

\* UpdateServiceRegistrationOrder, unless the service is gone.
SetLock(t) ==
    /\ pc[t] = "setLock" /\ Running
    /\ \/ bundle[svc[t]] /\ Acquire(t) /\ Goto(t, "setSort") /\ UNCHANGED skipped
       \/ /\ ~bundle[svc[t]] /\ Goto(t, "setEvent") /\ UNCHANGED <<owner, seen>>
          /\ skipped' = skipped \cup objectclass[svc[t]]
    /\ UNCHANGED <<nextServiceID, rank, regState, lists, sets, told, cleared>>

\* std::sort: when a ranking changes under it the comparisons contradict each other and the
\* order it leaves is any.
Reordered(list) ==
    {q \in SetToSeqs(ToSet(list)) :
        (\A s \in ToSet(list) : Cardinality(seen[s]) = 1) => BestFirst(q, rank)}

SetSort(t) ==
    LET cs == objectclass[svc[t]]
    IN  /\ pc[t] = "setSort" /\ Running
        /\ \E new \in [cs -> UNION {Reordered(classServices[c]) : c \in cs}] :
             /\ \A c \in cs : new[c] \in Reordered(classServices[c])
             /\ classServices' = [c \in Classes |-> IF c \in cs THEN new[c] ELSE classServices[c]]
        /\ skipped' = skipped \ cs
        /\ Release
        /\ Goto(t, "setEvent")
        /\ UNCHANGED <<nextServiceID, rank, regState, serviceRegistrations, sets, told, cleared>>

\* MODIFIED and MODIFIED_ENDMATCH, unless the service is gone.
SetEvent(t) ==
    /\ pc[t] = "setEvent" /\ Running
    /\ Goto(t, "idle")
    /\ UNCHANGED <<nextServiceID, rank, regState, lists, owner, seen, sets, told, skipped, cleared>>

-----------------------------------------------------------------------------
(* Unregister *)

\* Called with a registration that was returned, or for a bundle that stops, with one that
\* GetRegisteredByBundle lists.
UnregisterStart(t, s) ==
    /\ pc[t] = "idle" /\ Running
    /\ Returned(s) \/ Contains(serviceRegistrations, s)
    /\ available[s]
    /\ Call(t, "unregCas", s, NoRank)
    /\ UNCHANGED <<nextServiceID, rank, regState, lists, owner, seen, sets, told, skipped, cleared>>

UnregisterCas(t) ==
    LET s == svc[t]
    IN  /\ pc[t] = "unregCas" /\ Running
        /\ unregistering' = [unregistering EXCEPT ![s] = TRUE]
        /\ Goto(t, CASE unregistering[s] -> "idle"
                     [] ~unregistering[s] /\ bundle[s]  -> "unregRemove"
                     [] ~unregistering[s] /\ ~bundle[s] -> "unregMark")
        /\ UNCHANGED <<nextServiceID, rank, objectclass, available, bundle, lists, owner, seen,
                       sets, told, skipped, cleared>>

\* Mutants of RemovedFrom: the last service of a class stays, or takes another one along.
RemovedUnlessLast(list, s) == IF Len(list) > 1 THEN RemoveFirst(list, s) ELSE list
RemovedWithPeer(list, s)   == IF Len(list) > 2 THEN RemoveFirst(list, s) ELSE <<>>

\* RemoveServiceRegistration_unlocked: a list with one element is erased with its class. No list
\* has a service twice, so std::remove finds one element at most.
RemovedFrom(list, s) == IF Len(list) > 1 THEN RemoveFirst(list, s) ELSE <<>>

UnregisterRemove(t) ==
    LET s == svc[t]
    IN  /\ pc[t] = "unregRemove" /\ Running /\ owner = {}
        /\ serviceRegistrations' = RemoveFirst(serviceRegistrations, s)
        /\ classServices' = [c \in Classes |-> IF c \in objectclass[s]
                                               THEN RemovedFrom(classServices[c], s)
                                               ELSE classServices[c]]
        /\ Goto(t, "unregEvent")
        /\ UNCHANGED <<nextServiceID, rank, regState, owner, seen, sets, told, skipped, cleared>>

UnregisterEvent(t) ==
    /\ pc[t] = "unregEvent" /\ Running
    /\ told' = [told EXCEPT ![svc[t]] = @ + 1]
    /\ Goto(t, "unregMark")
    /\ UNCHANGED <<nextServiceID, rank, regState, lists, owner, seen, sets, skipped, cleared>>

\* Mutant of UnregisterMark: the flag that excludes other threads is cleared too early.
UnregisterMarkUnlocks(t) ==
    LET s == svc[t]
    IN  /\ pc[t] = "unregMark" /\ Running
        /\ available' = [available EXCEPT ![s] = FALSE]
        /\ unregistering' = [unregistering EXCEPT ![s] = FALSE]
        /\ Goto(t, IF bundle[s] THEN "unregClear" ELSE "fault")
        /\ UNCHANGED <<nextServiceID, rank, objectclass, bundle, lists, owner, seen, sets, told, skipped, cleared>>

\* d->service is dereferenced; a second Unregister, that passed the first check before,
\* finds it reset.
UnregisterMark(t) ==
    LET s == svc[t]
    IN  /\ pc[t] = "unregMark" /\ Running
        /\ available' = [available EXCEPT ![s] = FALSE]
        /\ Goto(t, IF bundle[s] THEN "unregClear" ELSE "fault")
        /\ UNCHANGED <<nextServiceID, rank, objectclass, unregistering, bundle, lists, owner, seen,
                       sets, told, skipped, cleared>>

UnregisterClear(t) ==
    LET s == svc[t]
    IN  /\ pc[t] = "unregClear" /\ Running
        /\ bundle' = [bundle EXCEPT ![s] = FALSE]
        /\ unregistering' = [unregistering EXCEPT ![s] = FALSE]
        /\ Goto(t, "idle")
        /\ UNCHANGED <<nextServiceID, rank, objectclass, available, lists, owner, seen,
                       sets, told, skipped, cleared>>

-----------------------------------------------------------------------------
(* Clear *)

\* The framework has stopped. The services of the system bundle were not unregistered: they
\* stay available and keep their bundle, which is registered with again after a restart.
Clear ==
    /\ Running /\ owner = {} /\ cleared = {} /\ serviceRegistrations # <<>>
    /\ serviceRegistrations' = <<>>
    /\ classServices' = [c \in Classes |-> <<>>]
    /\ cleared' = ToSet(serviceRegistrations)
    /\ UNCHANGED <<nextServiceID, rank, regState, owner, seen, pc, svc, newRank, sets, told, skipped>>

\* Every registration is used up and gone, or the process has crashed.
Ended == /\ \/ ~Running
            \/ /\ nextServiceID > MaxServices
               /\ \A s \in Services : ~available[s]
               /\ \A t \in Threads : pc[t] = "idle"
         /\ UNCHANGED vars

Next ==
    \/ \E t \in Threads :
        \/ \E cs \in ClassSets, r \in Ranks : RegisterCreate(t, cs, r)
        \/ RegisterLock(t) \/ RegisterInsert(t) \/ RegisterReference(t) \/ RegisterEvent(t)
        \/ \E s \in Services, r \in Ranks : SetStart(t, s, r)
        \/ SetRank(t) \/ SetLock(t) \/ SetSort(t) \/ SetEvent(t)
        \/ \E s \in Services : UnregisterStart(t, s)
        \/ UnregisterCas(t) \/ UnregisterRemove(t) \/ UnregisterEvent(t)
        \/ UnregisterMark(t) \/ UnregisterClear(t)
    \/ Clear
    \/ Ended

Spec == Init /\ [][Next]_vars
-----------------------------------------------------------------------------
(* Properties *)

\* A SetProperties that changed a ranking has yet to sort the lists of these classes.
Unsorted == UNION {objectclass[svc[t]] : t \in {u \in Threads : pc[u] \in {"setLock", "setSort"}}}

\* ServiceRegistry::Get, GetServiceReference: the first reference of a class's list is the best
\* one, with the highest ranking and, in a tie, the lowest id. The list is in that order when
\* no SetProperties is between its change and its sort, and none skipped its sort because the
\* service was unregistered meanwhile, whatever searches and sorts read rankings that changed
\* under them.
BestFirstWhenSettled ==
    \A c \in Classes \ (Unsorted \cup skipped) : BestFirst(classServices[c], rank)

\* A listed service is available and has its bundle. GetReference of a listed service throws
\* std::logic_error otherwise, and then one dying service makes every lookup of its class fail.
ListedIsAvailable ==
    \A s \in Services : (\/ Contains(serviceRegistrations, s)
                         \/ \E c \in Classes : Contains(classServices[c], s))
                            => available[s] /\ bundle[s]

\* The list of a class holds exactly the listed services registered with it, each once, though
\* RemoveServiceRegistration_unlocked erases a class whose list has one element unread. It
\* needs that no service the registry was cleared of is unregistered later: that erases the
\* class of a service registered since.
ClassListsComplete ==
    (\A s \in cleared : available[s] /\ ~unregistering[s]) =>
        \A c \in Classes :
            /\ ToSet(classServices[c]) = {s \in ToSet(serviceRegistrations) : c \in objectclass[s]}
            /\ Len(classServices[c]) = Cardinality(ToSet(classServices[c]))

\* Listeners hear of a service's end at most once, however many threads unregister it and
\* although the flag that excludes them is cleared again at the end.
UnregisteringOnce == \A s \in Services : told[s] <= 1

(* What the documentation says and the code does not keep; refuted by TLC. *)

\* With no call of SetProperties or Unregister under way, GetServiceReference(c) returns the
\* service with the highest ranking and then the lowest id (BundleContext.h). A service that is
\* registered while the list is unsorted goes to the wrong place, and stays there when the
\* service whose ranking changed is unregistered before the sort.
QuietMeansBestFirst ==
    (\A t \in Threads : pc[t] = "idle") =>
        \A c \in Classes : BestFirst(classServices[c], rank)
=============================================================================
