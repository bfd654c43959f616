----------------------------- MODULE ServiceUse -----------------------------
(***************************************************************************)
(* The use of ONE registered service by bundles on several threads:        *)
(* ServiceReferenceBasePrivate (get and unget, singleton, bundle and       *)
(* prototype scope), the use counts and instance caches kept by            *)
(* ServiceRegistrationBasePrivate, the holders that unget automatically    *)
(* (ServiceHolder of BundleContext.cpp, UngetHelper of ServiceObjects.cpp) *)
(* and ServiceRegistrationBase::Unregister.                                *)
(*                                                                         *)
(* A step is what runs under one acquisition of the registration's mutex,  *)
(* one access of an atomic flag, or one call into user code (the service   *)
(* factory or a service listener), which runs without the mutex.           *)
(* User code may call back into the framework: a thread is a stack of      *)
(* frames, and the frame above one that is in a callback may start a call. *)
(* A frame that is not in a call may keep a service object, the shared_ptr *)
(* its last get returned.                                                  *)
(***************************************************************************)
EXTENDS Integers, FiniteSets

CONSTANTS Bundles,      \* the bundles that use the service
          Threads,
          Frames,       \* <<thread, depth>>: how deep calls may nest on each thread
          MaxObjects    \* bound on the objects the factory makes, the registered one included

ASSUME ConstantsAssumption ==
    /\ Bundles # {}
    /\ Frames \subseteq Threads \X Nat
    /\ IsFiniteSet(Frames)
    /\ MaxObjects \in Nat \ {0}

Null       == 0            \* nullptr as InterfaceMapConstPtr
Registered == 1            \* the object passed to RegisterService, a service or a factory
Objects    == 1 .. MaxObjects
NoEntry    == -1           \* no key in the "dependents" map
Scopes     == {"singleton", "bundle", "prototype"}
\* Who asks: BundleContext::GetService, ServiceObjects<T>, ServiceObjects<void>.
Paths      == {"context", "objects", "objectsU"}

VARIABLES
    scope,                 \* service.scope, fixed when the service is registered
    available,             \* d->available
    unregistering,         \* d->unregistering
    service,               \* d->service and d->bundle are set (they are reset together)
    dependents,            \* use count by bundle, or NoEntry
    bundleServiceInstance, \* cached object by bundle, or Null
    prototypeServiceInstances,
    marks,                 \* threadMarks: the bundles for which a thread is in the factory
    stopped,               \* history: bundles whose uses were dropped because they stopped
    made,                  \* objects 1 .. made exist
    pc, bnd, path, obj,    \* a frame's position, bundle, kind of holder, and object
    todo,                  \* objects Unregister still has to give back
    released,              \* history: how often UngetService of the factory got an object
    owed,                  \* history: objects stored by the framework while available
    nullHeld               \* history: bundles that got a ServiceHolder around nullptr

flags     == <<scope, available, unregistering, service>>
maps      == <<dependents, bundleServiceInstance, prototypeServiceInstances>>
regVars   == <<flags, maps, stopped, made>>
frameVars == <<marks, pc, bnd, path, obj, todo>>
histVars  == <<released, owed, nullHeld>>
vars      == <<regVars, frameVars, histVars>>

IsFactory == scope # "singleton"

\* What ServiceObjects do for a service of prototype scope; every other get and unget is
\* counted and, for a factory, cached by bundle.
Prototyped(f) == scope = "prototype" /\ path[f] # "context"

PCs == {"idle", "holding",
        "getLocked", "factoryGet", "getStore", "ungetCall",
        "protoFetch", "protoFactory", "protoStore", "protoUngetCall", "protoErase",
        "unregCas", "unregEvent", "unregMark", "unregUnget", "fault"}

\* User code runs in these: the service factory, or the listeners of UNREGISTERING.
Callback == {"factoryGet", "ungetCall", "protoFactory", "protoUngetCall",
             "unregEvent", "unregUnget"}

TypeOK ==
    /\ scope \in Scopes
    /\ available \in BOOLEAN /\ unregistering \in BOOLEAN /\ service \in BOOLEAN
    /\ dependents \in [Bundles -> Nat \cup {NoEntry}]
    /\ bundleServiceInstance \in [Bundles -> Objects \cup {Null}]
    /\ prototypeServiceInstances \in [Bundles -> SUBSET (Objects \cup {Null})]
    /\ marks \in [Threads -> SUBSET Bundles]
    /\ stopped \subseteq Bundles
    /\ made \in Objects
    /\ pc \in [Frames -> PCs]
    /\ bnd \in [Frames -> Bundles]
    /\ path \in [Frames -> Paths]
    /\ obj \in [Frames -> Objects \cup {Null}]
    /\ todo \in [Frames -> SUBSET (Objects \cup {Null})]
    /\ released \in [Objects -> Nat]
    /\ owed \subseteq Objects
    /\ nullHeld \subseteq Bundles

Init ==
    /\ scope \in Scopes
    /\ available = TRUE /\ unregistering = FALSE /\ service = TRUE
    /\ dependents = [b \in Bundles |-> NoEntry]
    /\ bundleServiceInstance = [b \in Bundles |-> Null]
    /\ prototypeServiceInstances = [b \in Bundles |-> {}]
    /\ marks = [t \in Threads |-> {}]
    /\ stopped = {}
    /\ made = Registered
    /\ pc = [f \in Frames |-> "idle"]
    /\ bnd = [f \in Frames |-> CHOOSE b \in Bundles : TRUE]
    /\ path = [f \in Frames |-> "context"]
    /\ obj = [f \in Frames |-> Null]
    /\ todo = [f \in Frames |-> {}]
    /\ released = [o \in Objects |-> 0]
    /\ owed = {}
    /\ nullHeld = {}

-----------------------------------------------------------------------------
(* The stack of a thread. *)

Busy(f) == pc[f] \notin {"idle", "holding"}
Faulted == \E f \in Frames : pc[f] = "fault"

\* A call may start in a frame when every frame of its thread that is inside a call is
\* below it and is running user code.
MayCall(f) ==
    /\ ~Busy(f) /\ ~Faulted
    /\ \A g \in Frames : g[1] = f[1] /\ Busy(g) => g[2] < f[2] /\ pc[g] \in Callback

\* The frame that runs is the topmost one in a call.
Runs(f) ==
    /\ ~Faulted
    /\ \A g \in Frames : g[1] = f[1] /\ g[2] > f[2] => ~Busy(g)

Goto(f, l) == pc' = [pc EXCEPT ![f] = l]

\* The call is over and nothing is kept: the frame forgets its holder.
Leave(f) == /\ Goto(f, "idle")
            /\ obj' = [obj EXCEPT ![f] = Null]
            /\ path' = [path EXCEPT ![f] = "context"]

Fault(f) == /\ Goto(f, "fault")
            /\ UNCHANGED <<regVars, marks, bnd, path, obj, todo, histVars>>

\* A get returns s to the caller. A ServiceHolder is made whatever s is, an UngetHelper
\* only for a service object.
Return(f, s) ==
    /\ IF s # Null \/ path[f] = "context"
       THEN Goto(f, "holding") /\ obj' = [obj EXCEPT ![f] = s] /\ UNCHANGED path
       ELSE Leave(f)
    /\ nullHeld' = IF s = Null /\ path[f] = "context" THEN nullHeld \cup {bnd[f]} ELSE nullHeld

\* std::map::insert(key, 0) leaves an entry that exists alone.
WithEntry(b)  == [dependents EXCEPT ![b] = IF @ = NoEntry THEN 0 ELSE @]
PlusOne(b)    == [dependents EXCEPT ![b] = IF @ = NoEntry THEN 1 ELSE @ + 1]

-----------------------------------------------------------------------------
(* GetServiceInterfaceMap *)

\* The check of the atomic flag without the mutex.
GetStart(f, b, p) ==
    /\ pc[f] = "idle" /\ MayCall(f)
    /\ p = "context" \/ (p = "objects" /\ scope # "prototype")   \* ServiceObjects<void> counts alike
    /\ bnd' = [bnd EXCEPT ![f] = b]
    /\ path' = [path EXCEPT ![f] = p]
    /\ \/ available /\ Goto(f, "getLocked") /\ UNCHANGED <<obj, nullHeld>>
       \/ /\ ~available /\ p = "context"      \* a ServiceHolder around nullptr
          /\ Goto(f, "holding") /\ obj' = [obj EXCEPT ![f] = Null]
          /\ nullHeld' = nullHeld \cup {b}
       \* the other paths return null and nothing happened
    /\ UNCHANGED <<regVars, marks, todo, released, owed>>

GetUnavailable(f) ==
    /\ pc[f] = "getLocked" /\ Runs(f) /\ ~available
    /\ Return(f, Null)
    /\ UNCHANGED <<regVars, marks, bnd, todo, released, owed>>

\* The service itself, or the object the factory made for this bundle earlier.
GetReady(f) ==
    LET s == IF IsFactory THEN bundleServiceInstance[bnd[f]] ELSE Registered
    IN  /\ pc[f] = "getLocked" /\ Runs(f) /\ available
        /\ s # Null
        /\ dependents' = PlusOne(bnd[f])
        /\ Return(f, s)
        /\ UNCHANGED <<flags, bundleServiceInstance, prototypeServiceInstances, stopped, made,
                       marks, bnd, todo, released, owed>>

NeedsFactory(f) == /\ pc[f] = "getLocked" /\ Runs(f) /\ available
                   /\ IsFactory /\ bundleServiceInstance[bnd[f]] = Null

\* The destructor of Unmark also runs on this return, and erases the mark of the outer call.
GetRecursive(f) ==
    /\ NeedsFactory(f) /\ bnd[f] \in marks[f[1]]
    /\ marks' = [marks EXCEPT ![f[1]] = @ \ {bnd[f]}]
    /\ dependents' = WithEntry(bnd[f])
    /\ Return(f, Null)
    /\ UNCHANGED <<flags, bundleServiceInstance, prototypeServiceInstances, stopped, made,
                   bnd, todo, released, owed>>

GetEnterFactory(f) ==
    /\ NeedsFactory(f) /\ bnd[f] \notin marks[f[1]]
    /\ marks' = [marks EXCEPT ![f[1]] = @ \cup {bnd[f]}]
    /\ dependents' = WithEntry(bnd[f])
    /\ Goto(f, "factoryGet")
    /\ UNCHANGED <<flags, bundleServiceInstance, prototypeServiceInstances, stopped, made,
                   bnd, path, obj, todo, histVars>>

\* GetServiceFromFactory: a valid object; or null, an empty map, a missing interface or an
\* exception, which all give null; or a SharedLibraryException or SecurityException, which
\* is rethrown. A null map of a service that was unregistered meanwhile is dereferenced
\* (NullMap below).
FactoryMakes(f) ==
    /\ made < MaxObjects
    /\ made' = made + 1
    /\ obj' = [obj EXCEPT ![f] = made + 1]
    /\ UNCHANGED <<flags, maps, stopped>>

FactoryFails == UNCHANGED <<regVars, obj>>

FactoryGetReturns(f) ==
    /\ pc[f] = "factoryGet" /\ Runs(f)
    /\ FactoryMakes(f) \/ FactoryFails
    /\ Goto(f, "getStore")
    /\ UNCHANGED <<marks, bnd, path, todo, histVars>>

FactoryGetThrows(f) ==
    /\ pc[f] = "factoryGet" /\ Runs(f)
    /\ marks' = [marks EXCEPT ![f[1]] = @ \ {bnd[f]}]
    /\ Leave(f)
    /\ UNCHANGED <<regVars, bnd, todo, histVars>>

\* Mutant of GetStore: the object of the thread that stores last replaces the cached one.
GetStoreOverwrites(f) ==
    LET b == bnd[f]
        s == IF obj[f] # Null THEN obj[f] ELSE bundleServiceInstance[b]
    IN  /\ pc[f] = "getStore" /\ Runs(f)
        /\ bundleServiceInstance' = [bundleServiceInstance EXCEPT ![b] = s]
        /\ dependents' = IF s # Null THEN PlusOne(b) ELSE WithEntry(b)
        /\ owed' = IF s # Null /\ available THEN owed \cup {s} ELSE owed
        /\ marks' = [marks EXCEPT ![f[1]] = @ \ {b}]
        /\ Return(f, s)
        /\ UNCHANGED <<flags, prototypeServiceInstances, stopped, made, bnd, todo, released>>

\* The mutex again: the first object stored for the bundle wins, a second one is dropped.
GetStore(f) ==
    LET b      == bnd[f]
        cached == bundleServiceInstance[b]
        s      == IF cached # Null THEN cached ELSE obj[f]
    IN  /\ pc[f] = "getStore" /\ Runs(f)
        /\ bundleServiceInstance' = [bundleServiceInstance EXCEPT ![b] = s]
        /\ dependents' = IF s # Null THEN PlusOne(b) ELSE WithEntry(b)
        /\ owed' = IF s # Null /\ available THEN owed \cup {s} ELSE owed
        /\ marks' = [marks EXCEPT ![f[1]] = @ \ {b}]
        /\ Return(f, s)
        /\ UNCHANGED <<flags, prototypeServiceInstances, stopped, made, bnd, todo, released>>

-----------------------------------------------------------------------------
(* UngetService *)

\* Mutant of DropUse: the cached object is left behind.
DropUseKeepsInstance(f, b) ==
    LET sfi == bundleServiceInstance[b]
    IN  /\ dependents' = [dependents EXCEPT ![b] = NoEntry]
        /\ UNCHANGED bundleServiceInstance
        /\ IF sfi # Null /\ service
           THEN Goto(f, "ungetCall") /\ obj' = [obj EXCEPT ![f] = sfi] /\ UNCHANGED path
           ELSE Leave(f)

\* The entry and the cached object go together. The factory is called only while d->service
\* is set.
DropUse(f, b) ==
    LET sfi == bundleServiceInstance[b]
    IN  /\ dependents' = [dependents EXCEPT ![b] = NoEntry]
        /\ bundleServiceInstance' = [bundleServiceInstance EXCEPT ![b] = Null]
        /\ IF sfi # Null /\ service
           THEN Goto(f, "ungetCall") /\ obj' = [obj EXCEPT ![f] = sfi] /\ UNCHANGED path
           ELSE Leave(f)

\* The destructor of a ServiceHolder or an UngetHelper: UngetService(bundle, true).
Unget(f) ==
    LET b == bnd[f]
    IN  /\ pc[f] = "holding" /\ MayCall(f) /\ ~Prototyped(f)
        /\ \/ dependents[b] = 1 /\ DropUse(f, b)
           \/ /\ dependents[b] # 1
              /\ dependents' = [dependents EXCEPT ![b] = IF @ > 1 THEN @ - 1 ELSE @]
              /\ Leave(f) /\ UNCHANGED bundleServiceInstance
        /\ UNCHANGED <<flags, prototypeServiceInstances, stopped, made, marks, bnd, todo, histVars>>

\* RemoveBundleResources of a stopping bundle: UngetService(bundle, false) on a service it
\* uses. The registry's list and the flag were read before, so the service may have been
\* unregistered since; and the bundle's context is valid for a while, so gets may follow.
StopUser(f, b) ==
    /\ pc[f] = "idle" /\ MayCall(f) /\ dependents[b] # NoEntry
    /\ stopped' = stopped \cup {b}
    /\ DropUse(f, b)
    /\ bnd' = [bnd EXCEPT ![f] = b]
    /\ UNCHANGED <<flags, prototypeServiceInstances, made, marks, todo, histVars>>

\* factory->UngetService; an exception it throws is caught and changes nothing.
UngetCall(f) ==
    /\ pc[f] = "ungetCall" /\ Runs(f)
    /\ released' = [released EXCEPT ![obj[f]] = @ + 1]
    /\ Leave(f)
    /\ UNCHANGED <<regVars, marks, bnd, todo, owed, nullHeld>>

-----------------------------------------------------------------------------
(* GetPrototypeService, UngetPrototypeService *)

ProtoGetStart(f, b, p) ==
    /\ pc[f] = "idle" /\ MayCall(f)
    /\ scope = "prototype" /\ p # "context"
    /\ available                             \* else it returns null and nothing happened
    /\ bnd' = [bnd EXCEPT ![f] = b]
    /\ path' = [path EXCEPT ![f] = p]
    /\ Goto(f, "protoFetch")
    /\ UNCHANGED <<regVars, marks, obj, todo, histVars>>

\* registration->GetService takes the mutex to read the factory.
ProtoFetch(f) ==
    /\ pc[f] = "protoFetch" /\ Runs(f) /\ service
    /\ Goto(f, "protoFactory")
    /\ UNCHANGED <<regVars, marks, bnd, path, obj, todo, histVars>>

ProtoFactoryReturns(f) ==
    /\ pc[f] = "protoFactory" /\ Runs(f)
    /\ FactoryMakes(f) \/ FactoryFails
    /\ Goto(f, "protoStore")
    /\ UNCHANGED <<marks, bnd, path, todo, histVars>>

ProtoFactoryThrows(f) ==
    /\ pc[f] = "protoFactory" /\ Runs(f)
    /\ Leave(f)
    /\ UNCHANGED <<regVars, marks, bnd, todo, histVars>>

\* The result is stored even when it is null.
ProtoStore(f) ==
    /\ pc[f] = "protoStore" /\ Runs(f)
    /\ prototypeServiceInstances' = [prototypeServiceInstances EXCEPT ![bnd[f]] = @ \cup {obj[f]}]
    /\ owed' = IF obj[f] # Null /\ available THEN owed \cup {obj[f]} ELSE owed
    /\ Return(f, obj[f])
    /\ UNCHANGED <<flags, dependents, bundleServiceInstance, stopped, made, marks, bnd, todo,
                   released>>

\* The destructor of an UngetHelper: the object is looked up by content.
ProtoUnget(f) ==
    LET list == prototypeServiceInstances[bnd[f]]
    IN  /\ pc[f] = "holding" /\ MayCall(f) /\ Prototyped(f)
        /\ \/ /\ service /\ obj[f] \in list
              /\ Goto(f, "protoUngetCall") /\ UNCHANGED <<obj, path>>
           \/ /\ ~service \/ list \cap {obj[f], Null} = {}
              /\ Leave(f)
        /\ UNCHANGED <<regVars, marks, bnd, todo, histVars>>

ProtoUngetCall(f) ==
    /\ pc[f] = "protoUngetCall" /\ Runs(f)
    /\ released' = [released EXCEPT ![obj[f]] = @ + 1]
    /\ Goto(f, "protoErase")
    /\ UNCHANGED <<regVars, marks, bnd, path, obj, todo, owed, nullHeld>>

\* It is erased by pointer, and ServiceObjects<void> hands out a copy of the map, which is
\* not found.
ProtoErase(f) ==
    /\ pc[f] = "protoErase" /\ Runs(f)
    /\ prototypeServiceInstances' =
         IF path[f] = "objects"
         THEN [prototypeServiceInstances EXCEPT ![bnd[f]] = @ \ {obj[f]}]
         ELSE prototypeServiceInstances
    /\ Leave(f)
    /\ UNCHANGED <<flags, dependents, bundleServiceInstance, stopped, made, marks, bnd, todo,
                   histVars>>

-----------------------------------------------------------------------------
(* ServiceRegistrationBase::Unregister *)

\* The check of the flag; an unavailable service makes it throw.
UnregisterStart(f) ==
    /\ pc[f] = "idle" /\ MayCall(f) /\ available
    /\ Goto(f, "unregCas")
    /\ UNCHANGED <<regVars, marks, bnd, path, obj, todo, histVars>>

\* atomic_compare_exchange_strong on "unregistering"; the loser returns. Without a bundle
\* there is nobody to tell.
UnregisterCas(f) ==
    /\ pc[f] = "unregCas" /\ Runs(f)
    /\ \/ unregistering /\ Goto(f, "idle")
       \/ ~unregistering /\ service /\ Goto(f, "unregEvent")
       \/ ~unregistering /\ ~service /\ Goto(f, "unregMark")
    /\ unregistering' = TRUE
    /\ UNCHANGED <<scope, available, service, maps, stopped, made,
                   marks, bnd, path, obj, todo, histVars>>

UnregisterEvent(f) ==
    /\ pc[f] = "unregEvent" /\ Runs(f)
    /\ Goto(f, "unregMark")
    /\ UNCHANGED <<regVars, marks, bnd, path, obj, todo, histVars>>

\* Mutant of Stored: the prototype objects are forgotten.
StoredByBundle == {o \in Objects : \E b \in Bundles : o = bundleServiceInstance[b]}

\* Every object the two maps hold.
Stored == {o \in Objects \cup {Null} : \E b \in Bundles :
              o \in prototypeServiceInstances[b] \/ (o # Null /\ o = bundleServiceInstance[b])}

UnregisterMark(f) ==
    /\ pc[f] = "unregMark" /\ Runs(f) /\ service
    /\ available' = FALSE
    /\ todo' = [todo EXCEPT ![f] = IF IsFactory THEN Stored ELSE {}]
    /\ Goto(f, "unregUnget")
    /\ UNCHANGED <<scope, unregistering, service, maps, stopped, made,
                   marks, bnd, path, obj, histVars>>

UnregisterUnget(f, o) ==
    /\ pc[f] = "unregUnget" /\ Runs(f) /\ o \in todo[f]
    /\ todo' = [todo EXCEPT ![f] = @ \ {o}]
    /\ released' = IF o # Null THEN [released EXCEPT ![o] = @ + 1] ELSE released
    /\ UNCHANGED <<regVars, marks, pc, bnd, path, obj, owed, nullHeld>>

UnregisterClear(f) ==
    /\ pc[f] = "unregUnget" /\ Runs(f) /\ todo[f] = {}
    /\ service' = FALSE
    /\ dependents' = [b \in Bundles |-> NoEntry]
    /\ bundleServiceInstance' = [b \in Bundles |-> Null]
    /\ prototypeServiceInstances' = [b \in Bundles |-> {}]
    /\ unregistering' = FALSE
    /\ Goto(f, "idle")
    /\ UNCHANGED <<scope, available, stopped, made, marks, bnd, path, obj, todo, histVars>>

-----------------------------------------------------------------------------
(* Null pointers the code dereferences. The process ends. *)

\* GetServiceFromFactory, a null map and no registering bundle any more.
NullMap(f) == pc[f] \in {"factoryGet", "protoFactory"} /\ ~service
\* GetPrototypeService, a factory pointer read after Unregister reset d->service.
NullFactory(f) == pc[f] = "protoFetch" /\ ~service
\* Unregister, d->service read after another Unregister reset it.
NullService(f) == pc[f] = "unregMark" /\ ~service
\* UngetPrototypeService, a null entry stored by a get that failed.
NullEntry(f) == /\ pc[f] = "holding" /\ Prototyped(f) /\ service
                /\ Null \in prototypeServiceInstances[bnd[f]]

Crash(f) ==
    \/ Runs(f) /\ (NullMap(f) \/ NullFactory(f) \/ NullService(f)) /\ Fault(f)
    \/ MayCall(f) /\ NullEntry(f) /\ Fault(f)

\* Nothing runs after a crash, and calls on a service that is gone return at once.
Ended == /\ Faulted \/ (~available /\ \A f \in Frames : pc[f] = "idle")
         /\ UNCHANGED vars

FrameStep(f) ==
    \/ GetUnavailable(f) \/ GetReady(f) \/ GetRecursive(f) \/ GetEnterFactory(f)
    \/ FactoryGetReturns(f) \/ FactoryGetThrows(f) \/ GetStore(f)
    \/ Unget(f) \/ UngetCall(f)
    \/ ProtoFetch(f) \/ ProtoFactoryReturns(f) \/ ProtoFactoryThrows(f) \/ ProtoStore(f)
    \/ ProtoUnget(f) \/ ProtoUngetCall(f) \/ ProtoErase(f)
    \/ UnregisterStart(f) \/ UnregisterCas(f) \/ UnregisterEvent(f) \/ UnregisterMark(f)
    \/ UnregisterClear(f)
    \/ Crash(f)

Next ==
    \/ \E f \in Frames :
        \/ FrameStep(f)
        \/ \E b \in Bundles, p \in Paths : GetStart(f, b, p) \/ ProtoGetStart(f, b, p)
        \/ \E b \in Bundles : StopUser(f, b)
        \/ \E o \in todo[f] : UnregisterUnget(f, o)
    \/ Ended

Spec == Init /\ [][Next]_vars
-----------------------------------------------------------------------------
(* Properties *)

\* Frames that keep an object which is counted, and cached by bundle if a factory made it.
Holders(b) == {f \in Frames : pc[f] = "holding" /\ bnd[f] = b /\ obj[f] # Null /\ ~Prototyped(f)}

\* A cached object always has a use: an entry of bundleServiceInstance whose count in
\* dependents is zero or missing could never be given back by UngetService, which looks the
\* count up first and ignores a bundle without one.
CachedIsCounted == \A b \in Bundles : bundleServiceInstance[b] # Null => dependents[b] >= 1

\* While the service is available a bundle that still holds the service object finds it in
\* the cache, counted and not given back to the factory, however gets, ungets and factory
\* calls of other threads interleave. It may fail only for a bundle that was stopped or for
\* which a ServiceHolder was made around nullptr (its destructor drops a use it never had).
HolderKeepsService ==
    available => \A b \in Bundles \ (stopped \cup nullHeld) : \A f \in Holders(b) :
        /\ dependents[b] = Cardinality(Holders(b))
        /\ released[obj[f]] = 0
        /\ IsFactory => bundleServiceInstance[b] = obj[f]

\* The factory never gets an object back twice while the service is available: the unget of
\* a bundle's last use, of a prototype object and of a stopping bundle exclude each other.
ReleasedOnceWhileAvailable == available => \A o \in Objects : released[o] <= 1

\* When Unregister is over, the factory got back every object that the framework had stored
\* while the service was available, or a thread is about to give it back.
UnregisterReturnsObjects ==
    ~service => \A o \in owed : \/ released[o] >= 1
                                \/ \E f \in Frames : /\ pc[f] \in {"ungetCall", "protoUngetCall"}
                                                     /\ obj[f] = o

(* What the documentation says and the code does not keep. TLC refutes each. *)

\* Unregister, past the check that should have thrown, still finds the service it reads
\* (ServiceRegistrationBase.h: std::logic_error if it has already been unregistered).
UnregisterFindsService == \A f \in Frames : pc[f] = "unregMark" => service

\* The count of a bundle is the number of its unbalanced gets (the comment on "dependents").
CountsUnbalancedGets ==
    available => \A b \in Bundles \ stopped :
        Holders(b) # {} => dependents[b] = Cardinality(Holders(b))

\* ServiceFactory::GetService is not called concurrently for one bundle (ServiceFactory.h).
FactoryNotConcurrent ==
    \A f, g \in Frames : pc[f] = "factoryGet" /\ pc[g] = "factoryGet" /\ bnd[f] = bnd[g] => f = g
=============================================================================
