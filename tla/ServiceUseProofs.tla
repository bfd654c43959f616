-------------------------- MODULE ServiceUseProofs --------------------------
(***************************************************************************)
(* Proofs about ServiceUse: its types, that a bundle keeps the service     *)
(* object it holds, and that Unregister gives every object back.           *)
(***************************************************************************)
EXTENDS ServiceUse, FiniteSetTheorems, TLAPS

-----------------------------------------------------------------------------
(* The inductive invariant. *)

\* Which frames hold an object, and what kind of object.
FrameOK(f) ==
    /\ pc[f] \in {"idle", "getLocked", "factoryGet", "protoFetch", "protoFactory",
                  "unregCas", "unregEvent", "unregMark", "unregUnget"} => obj[f] = Null
    /\ pc[f] \in {"getLocked", "factoryGet", "getStore"} => ~Prototyped(f)
    /\ pc[f] \in {"protoFetch", "protoFactory", "protoStore", "protoUngetCall", "protoErase"}
          => Prototyped(f)
    /\ pc[f] \in {"factoryGet", "getStore", "ungetCall"} => IsFactory
    /\ pc[f] \in {"ungetCall", "protoUngetCall", "protoErase"} => obj[f] # Null
    /\ pc[f] = "holding" /\ obj[f] = Null => bnd[f] \in nullHeld /\ path[f] = "context"
    /\ obj[f] <= made
    /\ todo[f] # {} => IsFactory
    /\ pc[f] = "unregUnget" => ~available

FramesOK == \A f \in Frames : FrameOK(f)

\* Without a factory nothing is cached and nothing is given back.
SingletonOK ==
    ~IsFactory => /\ \A b \in Bundles : bundleServiceInstance[b] = Null
                  /\ \A o \in Objects : released[o] = 0

\* A frame owns the object it is about to store or to give back, or holds alone.
Owns(f) == /\ obj[f] # Null
           /\ \/ pc[f] \in {"getStore", "protoStore", "ungetCall", "protoUngetCall"}
              \/ pc[f] = "holding" /\ Prototyped(f)

\* Every object is in one place: the cache of one bundle, or one frame.
OnePlace ==
    /\ \A b \in Bundles : bundleServiceInstance[b] <= made
    /\ \A b, c \in Bundles : bundleServiceInstance[b] # Null
                               /\ bundleServiceInstance[b] = bundleServiceInstance[c] => b = c
    /\ \A f, g \in Frames : Owns(f) /\ Owns(g) /\ obj[f] = obj[g] => f = g
    /\ \A f \in Frames, b \in Bundles : Owns(f) => bundleServiceInstance[b] # obj[f]

\* What the factory got back is in no place any more.
ReleasedIsGone ==
    available => \A o \in Objects :
        /\ released[o] <= 1
        /\ released[o] = 1 => /\ o <= made
                              /\ \A b \in Bundles : bundleServiceInstance[b] # o
                              /\ \A f \in Frames : Owns(f) => obj[f] # o

\* The count is the number of holders, and a factory's object is cached while it is held.
Counted(b) ==
    /\ dependents[b] >= 0 => dependents[b] = Cardinality(Holders(b))
    /\ dependents[b] = NoEntry => Holders(b) = {}
    /\ IsFactory => \A f \in Holders(b) : bundleServiceInstance[b] = obj[f]

UsesOK == available => \A b \in Bundles \ (stopped \cup nullHeld) : Counted(b)

\* One Unregister at a time is at work, as long as the service is there.
UnregPCs == {"unregEvent", "unregMark", "unregUnget"}
UnregInv ==
    /\ available => service
    /\ service => \A f, g \in Frames : pc[f] \in UnregPCs /\ pc[g] \in UnregPCs => f = g
    /\ service => \A f \in Frames : pc[f] \in UnregPCs => unregistering
    /\ \A f \in Frames : pc[f] = "unregUnget" => service

\* An object that is owed was given back or is about to be, or is stored, or Unregister has it on
\* its list.
Gives(f, o)   == pc[f] \in {"ungetCall", "protoUngetCall"} /\ obj[f] = o
Returned(o)   == released[o] >= 1 \/ \E f \in Frames : Gives(f, o)
IsStored(o)   == \E b \in Bundles : bundleServiceInstance[b] = o \/ o \in prototypeServiceInstances[b]
Lists(f, o)   == pc[f] = "unregUnget" /\ o \in todo[f]
Accounted(o)  == Returned(o) \/ (available /\ IsStored(o)) \/ \E f \in Frames : Lists(f, o)
ReturnInv ==
    /\ owed # {} => IsFactory
    /\ \A f \in Frames : pc[f] = "protoErase" => released[obj[f]] >= 1
    /\ \A o \in owed : Accounted(o)

IInv == /\ TypeOK /\ FramesOK /\ SingletonOK /\ CachedIsCounted
        /\ OnePlace /\ ReleasedIsGone /\ UsesOK /\ UnregInv /\ ReturnInv

-----------------------------------------------------------------------------
(* Type correctness. *)

\* A frame names its thread.
LEMMA FrameThread == \A f \in Frames : f[1] \in Threads
  BY ConstantsAssumption

\* Objects are positive numbers in the order in which the factory made them.
LEMMA ObjectsType == /\ Registered \in Objects /\ Null \notin Objects
                     /\ \A m \in Objects : m < MaxObjects => m + 1 \in Objects /\ m + 1 # Null
                     /\ \A m \in Objects : m \in Nat /\ Null <= m /\ Registered <= m /\ m <= m + 1
                     /\ \A m \in Objects, n \in Objects \cup {Null} : n <= m => n <= m + 1
                     /\ Null \in Nat
  BY ConstantsAssumption DEF Objects, Registered, Null

\* A frame that moves keeps the types.
LEMMA GotoType == ASSUME TypeOK, NEW f \in Frames, NEW l \in PCs, Goto(f, l)
                  PROVE  pc' \in [Frames -> PCs]
  BY DEF TypeOK, Goto

\* A frame whose call is over keeps the types.
LEMMA LeaveType == ASSUME TypeOK, NEW f \in Frames, Leave(f)
                   PROVE  /\ pc' \in [Frames -> PCs]
                          /\ obj' \in [Frames -> Objects \cup {Null}]
                          /\ path' \in [Frames -> Paths]
  BY DEF TypeOK, Leave, Goto, PCs, Paths

\* A frame whose get returns an object or null keeps the types.
LEMMA ReturnType == ASSUME TypeOK, NEW f \in Frames, NEW s \in Objects \cup {Null}, Return(f, s)
                    PROVE  /\ pc' \in [Frames -> PCs]
                           /\ obj' \in [Frames -> Objects \cup {Null}]
                           /\ path' \in [Frames -> Paths]
                           /\ nullHeld' \subseteq Bundles
<1>1. nullHeld' \subseteq Bundles
  BY DEF TypeOK, Return
<1>2. CASE Leave(f)
  BY <1>1, <1>2, LeaveType
<1>3. CASE Goto(f, "holding") /\ obj' = [obj EXCEPT ![f] = s] /\ UNCHANGED path
  BY <1>1, <1>3 DEF TypeOK, Goto, PCs
<1>4. QED
  BY <1>2, <1>3 DEF Return

\* A frame that drops a bundle's use keeps the types, those of the two maps included.
LEMMA DropUseType == ASSUME TypeOK, NEW f \in Frames, NEW b \in Bundles, DropUse(f, b)
                     PROVE  /\ dependents' \in [Bundles -> Nat \cup {NoEntry}]
                            /\ bundleServiceInstance' \in [Bundles -> Objects \cup {Null}]
                            /\ pc' \in [Frames -> PCs]
                            /\ obj' \in [Frames -> Objects \cup {Null}]
                            /\ path' \in [Frames -> Paths]
<1>1. /\ dependents' \in [Bundles -> Nat \cup {NoEntry}]
      /\ bundleServiceInstance' \in [Bundles -> Objects \cup {Null}]
  BY DEF TypeOK, DropUse
<1>2. CASE Leave(f)
  BY <1>1, <1>2, LeaveType
<1>3. CASE Goto(f, "ungetCall") /\ obj' = [obj EXCEPT ![f] = bundleServiceInstance[b]] /\ UNCHANGED path
  BY <1>1, <1>3 DEF TypeOK, Goto, PCs
<1>4. QED
  BY <1>2, <1>3 DEF DropUse

\* The two ways to touch a bundle's use count make a count.
LEMMA CountsType == ASSUME TypeOK, NEW b \in Bundles
                    PROVE  /\ PlusOne(b) \in [Bundles -> Nat \cup {NoEntry}]
                           /\ WithEntry(b) \in [Bundles -> Nat \cup {NoEntry}]
  BY DEF TypeOK, PlusOne, WithEntry, NoEntry

\* One more release of an object is a count; null is not counted.
LEMMA ReleasedType == ASSUME TypeOK, NEW o \in Objects \cup {Null}
                      PROVE  [released EXCEPT ![o] = @ + 1] \in [Objects -> Nat]
<1>1. CASE o \in Objects
  BY <1>1 DEF TypeOK
<1>2. CASE o = Null
  <2>1. [released EXCEPT ![Null] = @ + 1] = released
    BY ObjectsType DEF TypeOK
  <2>2. QED
    BY <1>2, <2>1 DEF TypeOK
<1>3. QED
  BY <1>1, <1>2

\* What Unregister collects are objects, or null entries of prototypes.
LEMMA StoredType == Stored \subseteq Objects \cup {Null}
  BY DEF Stored

\* One step of any thread keeps the types.
LEMMA TypeStep == ASSUME TypeOK, [Next]_vars PROVE TypeOK'
<1>1. ASSUME NEW f \in Frames, FrameStep(f) PROVE TypeOK'
  <2>1. CASE GetUnavailable(f)
    BY <2>1, ReturnType DEF GetUnavailable, TypeOK, flags, maps, regVars, histVars
  <2>2. CASE GetReady(f)
    BY <2>2, ReturnType, ObjectsType, CountsType DEF GetReady, IsFactory, TypeOK, flags, maps,
       regVars, histVars
  <2>3. CASE GetRecursive(f)
    BY <2>3, ReturnType, CountsType, FrameThread DEF GetRecursive, NeedsFactory, TypeOK, flags,
       maps, regVars, histVars
  <2>4. CASE GetEnterFactory(f)
    BY <2>4, CountsType, FrameThread, GotoType DEF GetEnterFactory, NeedsFactory, PCs, TypeOK,
       flags, maps, regVars, histVars
  <2>5. CASE FactoryGetReturns(f)
    BY <2>5, GotoType, ObjectsType DEF FactoryGetReturns, FactoryMakes, FactoryFails, PCs, TypeOK,
       flags, maps, regVars, histVars
  <2>6. CASE FactoryGetThrows(f)
    BY <2>6, LeaveType, FrameThread DEF FactoryGetThrows, TypeOK, flags, maps, regVars, histVars
  <2>7. CASE GetStore(f)
    BY <2>7, ReturnType, CountsType, FrameThread DEF GetStore, TypeOK, flags, maps, regVars,
       histVars
  <2>8. CASE Unget(f)
    <3>1. bnd[f] \in Bundles
      BY DEF TypeOK
    <3>2. CASE DropUse(f, bnd[f])
      BY <2>8, <3>1, <3>2, DropUseType DEF Unget, TypeOK, flags, maps, regVars, histVars
    <3>3. CASE /\ dependents' = [dependents EXCEPT ![bnd[f]] = IF @ > 1 THEN @ - 1 ELSE @]
               /\ Leave(f) /\ UNCHANGED bundleServiceInstance
      BY <2>8, <3>1, <3>3, LeaveType DEF Unget, NoEntry, TypeOK, flags, maps, regVars, histVars
    <3>4. QED
      BY <2>8, <3>2, <3>3 DEF Unget
  <2>9. CASE UngetCall(f)
    BY <2>9, LeaveType, ReleasedType DEF UngetCall, TypeOK, flags, maps, regVars, histVars
  <2>10. CASE ProtoFetch(f)
    BY <2>10, GotoType DEF ProtoFetch, PCs, TypeOK, flags, maps, regVars, histVars
  <2>11. CASE ProtoFactoryReturns(f)
    BY <2>11, GotoType, ObjectsType DEF ProtoFactoryReturns, FactoryMakes, FactoryFails, PCs,
       TypeOK, flags, maps, regVars, histVars
  <2>12. CASE ProtoFactoryThrows(f)
    BY <2>12, LeaveType DEF ProtoFactoryThrows, TypeOK, flags, maps, regVars, histVars
  <2>13. CASE ProtoStore(f)
    BY <2>13, ReturnType DEF ProtoStore, TypeOK, flags, maps, regVars, histVars
  <2>14. CASE ProtoUnget(f)
    BY <2>14, LeaveType, GotoType DEF ProtoUnget, PCs, TypeOK, flags, maps, regVars, histVars
  <2>15. CASE ProtoUngetCall(f)
    BY <2>15, GotoType, ReleasedType DEF ProtoUngetCall, PCs, TypeOK, flags, maps, regVars, histVars
  <2>16. CASE ProtoErase(f)
    BY <2>16, LeaveType DEF ProtoErase, TypeOK, flags, maps, regVars, histVars
  <2>17. CASE UnregisterStart(f)
    BY <2>17, GotoType DEF UnregisterStart, PCs, TypeOK, flags, maps, regVars, histVars
  <2>18. CASE UnregisterCas(f)
    BY <2>18, GotoType DEF UnregisterCas, PCs, TypeOK, flags, maps, regVars, histVars
  <2>19. CASE UnregisterEvent(f)
    BY <2>19, GotoType DEF UnregisterEvent, PCs, TypeOK, flags, maps, regVars, histVars
  <2>20. CASE UnregisterMark(f)
    BY <2>20, GotoType, StoredType DEF UnregisterMark, PCs, TypeOK, flags, maps, regVars, histVars
  <2>21. CASE UnregisterClear(f)
    BY <2>21, GotoType DEF UnregisterClear, NoEntry, PCs, TypeOK, flags, maps, regVars, histVars
  <2>22. CASE Crash(f)
    BY <2>22, GotoType DEF Crash, Fault, PCs, TypeOK, flags, maps, regVars, histVars
  <2>23. QED
    BY <1>1, <2>1, <2>2, <2>3, <2>4, <2>5, <2>6, <2>7, <2>8, <2>9, <2>10, <2>11, <2>12, <2>13,
       <2>14, <2>15, <2>16, <2>17, <2>18, <2>19, <2>20, <2>21, <2>22 DEF FrameStep
<1>2. ASSUME NEW f \in Frames, NEW b \in Bundles, NEW p \in Paths, GetStart(f, b, p) PROVE TypeOK'
  BY <1>2 DEF GetStart, Goto, PCs, TypeOK, flags, maps, regVars, histVars
<1>3. ASSUME NEW f \in Frames, NEW b \in Bundles, NEW p \in Paths, ProtoGetStart(f, b, p)
      PROVE TypeOK'
  BY <1>3, GotoType DEF ProtoGetStart, PCs, TypeOK, flags, maps, regVars, histVars
<1>4. ASSUME NEW f \in Frames, NEW b \in Bundles, StopUser(f, b) PROVE TypeOK'
  <2>1. CASE DropUse(f, b)
    BY <1>4, <2>1, DropUseType DEF StopUser, TypeOK, flags, histVars
  <2>2. CASE UNCHANGED <<dependents, bundleServiceInstance, obj, path, pc>>
    BY <1>4, <2>2 DEF StopUser, TypeOK, flags, histVars
  <2>3. QED
    BY <1>4, <2>1, <2>2 DEF StopUser
<1>5. ASSUME NEW f \in Frames, NEW o \in todo[f], UnregisterUnget(f, o) PROVE TypeOK'
  BY <1>5 DEF UnregisterUnget, TypeOK, flags, maps, regVars
<1>6. CASE UNCHANGED vars
  BY <1>6 DEF vars, frameVars, TypeOK, flags, maps, regVars, histVars
<1>7. QED
  BY <1>1, <1>2, <1>3, <1>4, <1>5, <1>6 DEF Next, Ended

\* A service that was just registered has its types.
LEMMA TypeInit == Init => TypeOK
<1> SUFFICES ASSUME Init PROVE TypeOK
  OBVIOUS
<1>1. (CHOOSE b \in Bundles : TRUE) \in Bundles
  BY ConstantsAssumption, Zenon
<1>2. bnd \in [Frames -> Bundles]
  BY <1>1 DEF Init
<1>3. QED
  BY <1>2, ObjectsType, ConstantsAssumption DEF Init, TypeOK, NoEntry, Scopes, Paths, PCs

\* Every variable keeps its type: no count falls below zero and no object is stored that the
\* factory did not make.
THEOREM TypeCorrect == Spec => []TypeOK
  BY TypeInit, TypeStep, PTL DEF Spec

-----------------------------------------------------------------------------
(* Inductive steps: what the helpers do to a frame, pointwise. *)

\* Every frame but f keeps its local variables.
OthersKeep(f) == \A g \in Frames \ {f} : pc'[g] = pc[g] /\ obj'[g] = obj[g] /\ path'[g] = path[g]

\* A frame that moves changes only its own position.
LEMMA GotoFrame == ASSUME TypeOK, NEW f \in Frames, NEW l, Goto(f, l)
                   PROVE  pc'[f] = l /\ \A g \in Frames \ {f} : pc'[g] = pc[g]
  BY DEF TypeOK, Goto

\* A call that is over leaves its frame without an object.
LEMMA LeaveFrame == ASSUME TypeOK, NEW f \in Frames, Leave(f)
                    PROVE  /\ OthersKeep(f)
                           /\ pc'[f] = "idle" /\ obj'[f] = Null /\ path'[f] = "context"
  BY DEF TypeOK, Leave, Goto, OthersKeep

\* A get that returns leaves its frame with the object, or without one if it got none.
LEMMA ReturnFrame ==
    ASSUME TypeOK, NEW f \in Frames, NEW s \in Objects \cup {Null}, Return(f, s)
    PROVE  /\ OthersKeep(f)
           /\ nullHeld \subseteq nullHeld'
           /\ nullHeld' \subseteq nullHeld \cup {bnd[f]}
           /\ \/ s # Null /\ pc'[f] = "holding" /\ obj'[f] = s /\ path'[f] = path[f]
                 /\ nullHeld' = nullHeld
              \/ s = Null /\ pc'[f] = "holding" /\ obj'[f] = Null /\ path'[f] = path[f]
                 /\ path[f] = "context" /\ bnd[f] \in nullHeld'
              \/ s = Null /\ pc'[f] = "idle" /\ obj'[f] = Null /\ path'[f] = "context"
                 /\ nullHeld' = nullHeld
<1>1. CASE s = Null /\ path[f] # "context"
  BY <1>1, LeaveFrame DEF TypeOK, Return
<1>2. CASE s # Null \/ path[f] = "context"
  <2>1. Goto(f, "holding") /\ obj' = [obj EXCEPT ![f] = s] /\ UNCHANGED path
    BY <1>2 DEF Return
  <2>2. QED
    BY <1>2, <2>1, GotoFrame DEF TypeOK, Return, OthersKeep
<1>3. QED
  BY <1>1, <1>2

\* A frame that drops a bundle's use is left with the cached object, to give it back, or idle.
LEMMA DropUseFrame ==
    ASSUME TypeOK, NEW f \in Frames, NEW b \in Bundles, DropUse(f, b)
    PROVE  /\ OthersKeep(f)
           /\ dependents' = [dependents EXCEPT ![b] = NoEntry]
           /\ bundleServiceInstance' = [bundleServiceInstance EXCEPT ![b] = Null]
           /\ \/ /\ bundleServiceInstance[b] # Null
                 /\ pc'[f] = "ungetCall" /\ obj'[f] = bundleServiceInstance[b] /\ path'[f] = path[f]
              \/ pc'[f] = "idle" /\ obj'[f] = Null /\ path'[f] = "context"
<1>1. CASE Leave(f)
  BY <1>1, LeaveFrame DEF DropUse
<1>2. CASE /\ bundleServiceInstance[b] # Null
           /\ Goto(f, "ungetCall") /\ obj' = [obj EXCEPT ![f] = bundleServiceInstance[b]]
           /\ UNCHANGED path
  BY <1>2, GotoFrame DEF TypeOK, DropUse, OthersKeep
<1>3. QED
  BY <1>1, <1>2 DEF DropUse

\* Every step keeps what the positions of the frames say about their objects.
LEMMA FramesStep == ASSUME TypeOK, FramesOK, SingletonOK, OnePlace, [Next]_vars PROVE FramesOK'
<1> TypeOK'
  BY TypeStep
<1>1. ASSUME NEW f \in Frames, FrameStep(f) PROVE FramesOK'
  <2>1. CASE GetUnavailable(f)
    BY <2>1, ObjectsType, ReturnFrame DEF GetUnavailable, TypeOK, FramesOK, FrameOK, Prototyped,
       IsFactory, SingletonOK, OnePlace, OthersKeep, flags, maps, regVars, histVars
  <2>2. CASE GetReady(f)
    BY <2>2, ObjectsType, ReturnFrame DEF GetReady, IsFactory, TypeOK, FramesOK, FrameOK,
       Prototyped, SingletonOK, OnePlace, OthersKeep, flags, maps, regVars, histVars
  <2>3. CASE GetRecursive(f)
    BY <2>3, ObjectsType, ReturnFrame DEF GetRecursive, NeedsFactory, IsFactory, TypeOK, FramesOK,
       FrameOK, Prototyped, SingletonOK, OnePlace, OthersKeep, flags, maps, regVars, histVars
  <2>4. CASE GetEnterFactory(f)
    BY <2>4, ObjectsType, GotoFrame DEF GetEnterFactory, NeedsFactory, IsFactory, TypeOK,
       FramesOK, FrameOK, Prototyped, SingletonOK, OnePlace, OthersKeep, flags, maps, regVars,
       histVars
  <2>5. CASE FactoryGetReturns(f)
    <3>1. CASE FactoryMakes(f)
      <4>1. /\ made' = made + 1 /\ made' \in Objects /\ obj'[f] = made' /\ obj'[f] # Null
            /\ pc'[f] = "getStore" /\ OthersKeep(f)
        BY <2>5, <3>1, ObjectsType, GotoFrame DEF FactoryGetReturns, FactoryMakes, TypeOK,
           OthersKeep
      <4>2. FrameOK(f)'
        BY <2>5, <3>1, <4>1, ObjectsType DEF FactoryGetReturns, FactoryMakes, FramesOK, FrameOK,
           Prototyped, IsFactory, flags, TypeOK
      <4>3. ASSUME NEW g \in Frames \ {f} PROVE FrameOK(g)'
        <5>1. obj[g] \in Nat /\ made \in Nat /\ obj[g] <= made
          BY ObjectsType DEF TypeOK, FramesOK, FrameOK
        <5>2. obj'[g] <= made'
          BY <4>1, <5>1 DEF OthersKeep
        <5>3. QED
          BY <2>5, <3>1, <4>1, <5>2 DEF FactoryGetReturns, FactoryMakes, FramesOK, FrameOK,
             Prototyped, IsFactory, OthersKeep, flags, histVars
      <4>4. QED
        BY <4>2, <4>3 DEF FramesOK
    <3>2. CASE FactoryFails
      BY <2>5, <3>2, ObjectsType, GotoFrame DEF FactoryGetReturns, FactoryFails, TypeOK, FramesOK,
         FrameOK, Prototyped, IsFactory, SingletonOK, OnePlace, OthersKeep, flags, maps, regVars,
         histVars
    <3>3. QED
      BY <2>5, <3>1, <3>2 DEF FactoryGetReturns
  <2>6. CASE FactoryGetThrows(f)
    BY <2>6, ObjectsType, LeaveFrame DEF FactoryGetThrows, TypeOK, FramesOK, FrameOK, Prototyped,
       IsFactory, SingletonOK, OnePlace, OthersKeep, flags, maps, regVars, histVars
  <2>7. CASE GetStore(f)
    BY <2>7, ObjectsType, ReturnFrame DEF GetStore, TypeOK, FramesOK, FrameOK, Prototyped,
       IsFactory, SingletonOK, OnePlace, OthersKeep, flags, maps, regVars, histVars
  <2>8. CASE Unget(f)
    <3>1. CASE DropUse(f, bnd[f])
      BY <2>8, <3>1, ObjectsType, DropUseFrame DEF Unget, TypeOK, FramesOK, FrameOK, Prototyped,
         IsFactory, SingletonOK, OnePlace, OthersKeep, flags, maps, regVars, histVars
    <3>2. CASE /\ dependents' = [dependents EXCEPT ![bnd[f]] = IF @ > 1 THEN @ - 1 ELSE @]
               /\ Leave(f) /\ UNCHANGED bundleServiceInstance
      BY <2>8, <3>2, ObjectsType, LeaveFrame DEF Unget, TypeOK, FramesOK, FrameOK, Prototyped,
         IsFactory, SingletonOK, OnePlace, OthersKeep, flags, maps, regVars, histVars
    <3>3. QED
      BY <2>8, <3>1, <3>2 DEF Unget
  <2>9. CASE UngetCall(f)
    BY <2>9, ObjectsType, LeaveFrame DEF UngetCall, TypeOK, FramesOK, FrameOK, Prototyped,
       IsFactory, SingletonOK, OnePlace, OthersKeep, flags, maps, regVars, histVars
  <2>10. CASE ProtoFetch(f)
    BY <2>10, ObjectsType, GotoFrame DEF ProtoFetch, TypeOK, FramesOK, FrameOK, Prototyped,
       IsFactory, SingletonOK, OnePlace, OthersKeep, flags, maps, regVars, histVars
  <2>11. CASE ProtoFactoryReturns(f)
    <3>1. CASE FactoryMakes(f)
      <4>1. /\ made' = made + 1 /\ made' \in Objects /\ obj'[f] = made' /\ obj'[f] # Null
            /\ pc'[f] = "protoStore" /\ OthersKeep(f)
        BY <2>11, <3>1, ObjectsType, GotoFrame DEF ProtoFactoryReturns, FactoryMakes, TypeOK,
           OthersKeep
      <4>2. FrameOK(f)'
        BY <2>11, <3>1, <4>1, ObjectsType DEF ProtoFactoryReturns, FactoryMakes, FramesOK,
           FrameOK, Prototyped, IsFactory, flags, TypeOK
      <4>3. ASSUME NEW g \in Frames \ {f} PROVE FrameOK(g)'
        <5>1. obj[g] \in Nat /\ made \in Nat /\ obj[g] <= made
          BY ObjectsType DEF TypeOK, FramesOK, FrameOK
        <5>2. obj'[g] <= made'
          BY <4>1, <5>1 DEF OthersKeep
        <5>3. QED
          BY <2>11, <3>1, <4>1, <5>2 DEF ProtoFactoryReturns, FactoryMakes, FramesOK, FrameOK,
             Prototyped, IsFactory, OthersKeep, flags, histVars
      <4>4. QED
        BY <4>2, <4>3 DEF FramesOK
    <3>2. CASE FactoryFails
      BY <2>11, <3>2, ObjectsType, GotoFrame DEF ProtoFactoryReturns, FactoryFails, TypeOK,
         FramesOK, FrameOK, Prototyped, IsFactory, SingletonOK, OnePlace, OthersKeep, flags, maps,
         regVars, histVars
    <3>3. QED
      BY <2>11, <3>1, <3>2 DEF ProtoFactoryReturns
  <2>12. CASE ProtoFactoryThrows(f)
    BY <2>12, ObjectsType, LeaveFrame DEF ProtoFactoryThrows, TypeOK, FramesOK, FrameOK,
       Prototyped, IsFactory, SingletonOK, OnePlace, OthersKeep, flags, maps, regVars, histVars
  <2>13. CASE ProtoStore(f)
    BY <2>13, ObjectsType, ReturnFrame DEF ProtoStore, TypeOK, FramesOK, FrameOK, Prototyped,
       IsFactory, SingletonOK, OnePlace, OthersKeep, flags, maps, regVars, histVars
  <2>14. CASE ProtoUnget(f)
    <3>1. CASE Leave(f)
      BY <2>14, <3>1, ObjectsType, LeaveFrame DEF ProtoUnget, TypeOK, FramesOK, FrameOK,
         Prototyped, IsFactory, SingletonOK, OnePlace, OthersKeep, flags, maps, regVars, histVars
    <3>2. CASE Goto(f, "protoUngetCall") /\ UNCHANGED <<obj, path>>
      BY <2>14, <3>2, ObjectsType, GotoFrame DEF ProtoUnget, TypeOK, FramesOK, FrameOK,
         Prototyped, IsFactory, SingletonOK, OnePlace, OthersKeep, flags, maps, regVars, histVars
    <3>3. QED
      BY <2>14, <3>1, <3>2 DEF ProtoUnget
  <2>15. CASE ProtoUngetCall(f)
    BY <2>15, ObjectsType, GotoFrame DEF ProtoUngetCall, TypeOK, FramesOK, FrameOK, Prototyped,
       IsFactory, SingletonOK, OnePlace, OthersKeep, flags, maps, regVars, histVars
  <2>16. CASE ProtoErase(f)
    BY <2>16, ObjectsType, LeaveFrame DEF ProtoErase, TypeOK, FramesOK, FrameOK, Prototyped,
       IsFactory, SingletonOK, OnePlace, OthersKeep, flags, maps, regVars, histVars
  <2>17. CASE UnregisterStart(f)
    BY <2>17, ObjectsType, GotoFrame DEF UnregisterStart, TypeOK, FramesOK, FrameOK, Prototyped,
       IsFactory, SingletonOK, OnePlace, OthersKeep, flags, maps, regVars, histVars
  <2>18. CASE UnregisterCas(f)
    BY <2>18, ObjectsType, GotoFrame DEF UnregisterCas, TypeOK, FramesOK, FrameOK, Prototyped,
       IsFactory, SingletonOK, OnePlace, OthersKeep, flags, maps, regVars, histVars
  <2>19. CASE UnregisterEvent(f)
    BY <2>19, ObjectsType, GotoFrame DEF UnregisterEvent, TypeOK, FramesOK, FrameOK, Prototyped,
       IsFactory, SingletonOK, OnePlace, OthersKeep, flags, maps, regVars, histVars
  <2>20. CASE UnregisterMark(f)
    BY <2>20, ObjectsType, GotoFrame DEF UnregisterMark, TypeOK, FramesOK, FrameOK, Prototyped,
       IsFactory, SingletonOK, OnePlace, OthersKeep, flags, maps, regVars, histVars
  <2>21. CASE UnregisterClear(f)
    BY <2>21, ObjectsType, GotoFrame DEF UnregisterClear, TypeOK, FramesOK, FrameOK, Prototyped,
       IsFactory, SingletonOK, OnePlace, OthersKeep, flags, maps, regVars, histVars
  <2>22. CASE Crash(f)
    BY <2>22, ObjectsType, GotoFrame DEF Crash, Fault, TypeOK, FramesOK, FrameOK, Prototyped,
       IsFactory, SingletonOK, OnePlace, OthersKeep, flags, maps, regVars, histVars
  <2>23. QED
    BY <1>1, <2>1, <2>2, <2>3, <2>4, <2>5, <2>6, <2>7, <2>8, <2>9, <2>10, <2>11, <2>12, <2>13,
       <2>14, <2>15, <2>16, <2>17, <2>18, <2>19, <2>20, <2>21, <2>22 DEF FrameStep
<1>2. ASSUME NEW f \in Frames, NEW b \in Bundles, NEW p \in Paths, GetStart(f, b, p) PROVE FramesOK'
  BY <1>2, ObjectsType, GotoFrame DEF GetStart, TypeOK, FramesOK, FrameOK, Prototyped, IsFactory,
     SingletonOK, OnePlace, OthersKeep, flags, maps, regVars, histVars
<1>3. ASSUME NEW f \in Frames, NEW b \in Bundles, NEW p \in Paths, ProtoGetStart(f, b, p)
      PROVE FramesOK'
  BY <1>3, ObjectsType, GotoFrame DEF ProtoGetStart, TypeOK, FramesOK, FrameOK, Prototyped,
     IsFactory, SingletonOK, OnePlace, OthersKeep, flags, maps, regVars, histVars
<1>4. ASSUME NEW f \in Frames, NEW b \in Bundles, StopUser(f, b) PROVE FramesOK'
  <2>1. CASE DropUse(f, b)
    BY <1>4, <2>1, ObjectsType, DropUseFrame DEF StopUser, TypeOK, FramesOK, FrameOK, Prototyped,
       IsFactory, SingletonOK, OnePlace, OthersKeep, flags, maps, regVars, histVars
  <2>2. CASE UNCHANGED <<dependents, bundleServiceInstance, obj, path, pc>>
    BY <1>4, <2>2, ObjectsType DEF StopUser, TypeOK, FramesOK, FrameOK, Prototyped, IsFactory,
       SingletonOK, OnePlace, OthersKeep, flags, maps, regVars, histVars
  <2>3. QED
    BY <1>4, <2>1, <2>2 DEF StopUser
<1>5. ASSUME NEW f \in Frames, NEW o \in todo[f], UnregisterUnget(f, o) PROVE FramesOK'
  BY <1>5, ObjectsType DEF UnregisterUnget, TypeOK, FramesOK, FrameOK, Prototyped, IsFactory,
     SingletonOK, OnePlace, OthersKeep, flags, maps, regVars, histVars
<1>6. CASE UNCHANGED vars
  BY <1>6 DEF vars, frameVars, TypeOK, FramesOK, FrameOK, Prototyped, IsFactory, SingletonOK,
     OnePlace, OthersKeep, flags, maps, regVars, histVars
<1>7. QED
  BY <1>1, <1>2, <1>3, <1>4, <1>5, <1>6 DEF Next, Ended

\* Every step keeps the caches of a service that is no factory empty.
LEMMA SingletonStep == ASSUME TypeOK, FramesOK, SingletonOK, [Next]_vars PROVE SingletonOK'
<1> TypeOK'
  BY TypeStep
<1>1. ASSUME NEW f \in Frames, FrameStep(f) PROVE SingletonOK'
  <2>1. CASE GetUnavailable(f)
    BY <2>1, ObjectsType, ReturnFrame DEF GetUnavailable, TypeOK, FramesOK, FrameOK, SingletonOK,
       IsFactory, Prototyped, OthersKeep, flags, maps, regVars, histVars
  <2>2. CASE GetReady(f)
    BY <2>2, ObjectsType, ReturnFrame DEF GetReady, IsFactory, TypeOK, FramesOK, FrameOK,
       SingletonOK, Prototyped, OthersKeep, flags, maps, regVars, histVars
  <2>3. CASE GetRecursive(f)
    BY <2>3, ObjectsType, ReturnFrame DEF GetRecursive, NeedsFactory, IsFactory, TypeOK, FramesOK,
       FrameOK, SingletonOK, Prototyped, OthersKeep, flags, maps, regVars, histVars
  <2>4. CASE GetEnterFactory(f)
    BY <2>4, ObjectsType, GotoFrame DEF GetEnterFactory, NeedsFactory, IsFactory, TypeOK,
       FramesOK, FrameOK, SingletonOK, Prototyped, OthersKeep, flags, maps, regVars, histVars
  <2>5. CASE FactoryGetReturns(f)
    <3>1. CASE FactoryMakes(f)
      <4>1. /\ made' = made + 1 /\ made' \in Objects /\ obj'[f] = made' /\ obj'[f] # Null
            /\ pc'[f] = "getStore" /\ OthersKeep(f)
        BY <2>5, <3>1, ObjectsType, GotoFrame DEF FactoryGetReturns, FactoryMakes, TypeOK,
           OthersKeep
      <4>2. QED
        BY <2>5, <3>1, <4>1, ObjectsType DEF FactoryGetReturns, FactoryMakes, TypeOK, FramesOK,
           FrameOK, SingletonOK, IsFactory, Prototyped, OthersKeep, flags, maps, regVars, histVars
    <3>2. CASE FactoryFails
      BY <2>5, <3>2, ObjectsType, GotoFrame DEF FactoryGetReturns, FactoryFails, TypeOK, FramesOK,
         FrameOK, SingletonOK, IsFactory, Prototyped, OthersKeep, flags, maps, regVars, histVars
    <3>3. QED
      BY <2>5, <3>1, <3>2 DEF FactoryGetReturns
  <2>6. CASE FactoryGetThrows(f)
    BY <2>6, ObjectsType, LeaveFrame DEF FactoryGetThrows, TypeOK, FramesOK, FrameOK, SingletonOK,
       IsFactory, Prototyped, OthersKeep, flags, maps, regVars, histVars
  <2>7. CASE GetStore(f)
    BY <2>7, ObjectsType, ReturnFrame DEF GetStore, TypeOK, FramesOK, FrameOK, SingletonOK,
       IsFactory, Prototyped, OthersKeep, flags, maps, regVars, histVars
  <2>8. CASE Unget(f)
    <3>1. CASE DropUse(f, bnd[f])
      BY <2>8, <3>1, ObjectsType, DropUseFrame DEF Unget, TypeOK, FramesOK, FrameOK, SingletonOK,
         IsFactory, Prototyped, OthersKeep, flags, maps, regVars, histVars
    <3>2. CASE /\ dependents' = [dependents EXCEPT ![bnd[f]] = IF @ > 1 THEN @ - 1 ELSE @]
               /\ Leave(f) /\ UNCHANGED bundleServiceInstance
      BY <2>8, <3>2, ObjectsType, LeaveFrame DEF Unget, TypeOK, FramesOK, FrameOK, SingletonOK,
         IsFactory, Prototyped, OthersKeep, flags, maps, regVars, histVars
    <3>3. QED
      BY <2>8, <3>1, <3>2 DEF Unget
  <2>9. CASE UngetCall(f)
    BY <2>9, ObjectsType, LeaveFrame DEF UngetCall, TypeOK, FramesOK, FrameOK, SingletonOK,
       IsFactory, Prototyped, OthersKeep, flags, maps, regVars, histVars
  <2>10. CASE ProtoFetch(f)
    BY <2>10, ObjectsType, GotoFrame DEF ProtoFetch, TypeOK, FramesOK, FrameOK, SingletonOK,
       IsFactory, Prototyped, OthersKeep, flags, maps, regVars, histVars
  <2>11. CASE ProtoFactoryReturns(f)
    <3>1. CASE FactoryMakes(f)
      <4>1. /\ made' = made + 1 /\ made' \in Objects /\ obj'[f] = made' /\ obj'[f] # Null
            /\ pc'[f] = "protoStore" /\ OthersKeep(f)
        BY <2>11, <3>1, ObjectsType, GotoFrame DEF ProtoFactoryReturns, FactoryMakes, TypeOK,
           OthersKeep
      <4>2. QED
        BY <2>11, <3>1, <4>1, ObjectsType DEF ProtoFactoryReturns, FactoryMakes, TypeOK, FramesOK,
           FrameOK, SingletonOK, IsFactory, Prototyped, OthersKeep, flags, maps, regVars, histVars
    <3>2. CASE FactoryFails
      BY <2>11, <3>2, ObjectsType, GotoFrame DEF ProtoFactoryReturns, FactoryFails, TypeOK,
         FramesOK, FrameOK, SingletonOK, IsFactory, Prototyped, OthersKeep, flags, maps, regVars,
         histVars
    <3>3. QED
      BY <2>11, <3>1, <3>2 DEF ProtoFactoryReturns
  <2>12. CASE ProtoFactoryThrows(f)
    BY <2>12, ObjectsType, LeaveFrame DEF ProtoFactoryThrows, TypeOK, FramesOK, FrameOK,
       SingletonOK, IsFactory, Prototyped, OthersKeep, flags, maps, regVars, histVars
  <2>13. CASE ProtoStore(f)
    BY <2>13, ObjectsType, ReturnFrame DEF ProtoStore, TypeOK, FramesOK, FrameOK, SingletonOK,
       IsFactory, Prototyped, OthersKeep, flags, maps, regVars, histVars
  <2>14. CASE ProtoUnget(f)
    <3>1. CASE Leave(f)
      BY <2>14, <3>1, ObjectsType, LeaveFrame DEF ProtoUnget, TypeOK, FramesOK, FrameOK,
         SingletonOK, IsFactory, Prototyped, OthersKeep, flags, maps, regVars, histVars
    <3>2. CASE Goto(f, "protoUngetCall") /\ UNCHANGED <<obj, path>>
      BY <2>14, <3>2, ObjectsType, GotoFrame DEF ProtoUnget, TypeOK, FramesOK, FrameOK,
         SingletonOK, IsFactory, Prototyped, OthersKeep, flags, maps, regVars, histVars
    <3>3. QED
      BY <2>14, <3>1, <3>2 DEF ProtoUnget
  <2>15. CASE ProtoUngetCall(f)
    BY <2>15, ObjectsType, GotoFrame DEF ProtoUngetCall, TypeOK, FramesOK, FrameOK, SingletonOK,
       IsFactory, Prototyped, OthersKeep, flags, maps, regVars, histVars
  <2>16. CASE ProtoErase(f)
    BY <2>16, ObjectsType, LeaveFrame DEF ProtoErase, TypeOK, FramesOK, FrameOK, SingletonOK,
       IsFactory, Prototyped, OthersKeep, flags, maps, regVars, histVars
  <2>17. CASE UnregisterStart(f)
    BY <2>17, ObjectsType, GotoFrame DEF UnregisterStart, TypeOK, FramesOK, FrameOK, SingletonOK,
       IsFactory, Prototyped, OthersKeep, flags, maps, regVars, histVars
  <2>18. CASE UnregisterCas(f)
    BY <2>18, ObjectsType, GotoFrame DEF UnregisterCas, TypeOK, FramesOK, FrameOK, SingletonOK,
       IsFactory, Prototyped, OthersKeep, flags, maps, regVars, histVars
  <2>19. CASE UnregisterEvent(f)
    BY <2>19, ObjectsType, GotoFrame DEF UnregisterEvent, TypeOK, FramesOK, FrameOK, SingletonOK,
       IsFactory, Prototyped, OthersKeep, flags, maps, regVars, histVars
  <2>20. CASE UnregisterMark(f)
    BY <2>20, ObjectsType, GotoFrame DEF UnregisterMark, TypeOK, FramesOK, FrameOK, SingletonOK,
       IsFactory, Prototyped, OthersKeep, flags, maps, regVars, histVars
  <2>21. CASE UnregisterClear(f)
    BY <2>21, ObjectsType, GotoFrame DEF UnregisterClear, TypeOK, FramesOK, FrameOK, SingletonOK,
       IsFactory, Prototyped, OthersKeep, flags, maps, regVars, histVars
  <2>22. CASE Crash(f)
    BY <2>22, ObjectsType, GotoFrame DEF Crash, Fault, TypeOK, FramesOK, FrameOK, SingletonOK,
       IsFactory, Prototyped, OthersKeep, flags, maps, regVars, histVars
  <2>23. QED
    BY <1>1, <2>1, <2>2, <2>3, <2>4, <2>5, <2>6, <2>7, <2>8, <2>9, <2>10, <2>11, <2>12, <2>13,
       <2>14, <2>15, <2>16, <2>17, <2>18, <2>19, <2>20, <2>21, <2>22 DEF FrameStep
<1>2. ASSUME NEW f \in Frames, NEW b \in Bundles, NEW p \in Paths, GetStart(f, b, p) PROVE SingletonOK'
  BY <1>2, ObjectsType, GotoFrame DEF GetStart, TypeOK, FramesOK, FrameOK, SingletonOK, IsFactory,
     Prototyped, OthersKeep, flags, maps, regVars, histVars
<1>3. ASSUME NEW f \in Frames, NEW b \in Bundles, NEW p \in Paths, ProtoGetStart(f, b, p)
      PROVE SingletonOK'
  BY <1>3, ObjectsType, GotoFrame DEF ProtoGetStart, TypeOK, FramesOK, FrameOK, SingletonOK,
     IsFactory, Prototyped, OthersKeep, flags, maps, regVars, histVars
<1>4. ASSUME NEW f \in Frames, NEW b \in Bundles, StopUser(f, b) PROVE SingletonOK'
  <2>1. CASE DropUse(f, b)
    BY <1>4, <2>1, ObjectsType, DropUseFrame DEF StopUser, TypeOK, FramesOK, FrameOK, SingletonOK,
       IsFactory, Prototyped, OthersKeep, flags, maps, regVars, histVars
  <2>2. CASE UNCHANGED <<dependents, bundleServiceInstance, obj, path, pc>>
    BY <1>4, <2>2, ObjectsType DEF StopUser, TypeOK, FramesOK, FrameOK, SingletonOK, IsFactory,
       Prototyped, OthersKeep, flags, maps, regVars, histVars
  <2>3. QED
    BY <1>4, <2>1, <2>2 DEF StopUser
<1>5. ASSUME NEW f \in Frames, NEW o \in todo[f], UnregisterUnget(f, o) PROVE SingletonOK'
  BY <1>5, ObjectsType DEF UnregisterUnget, TypeOK, FramesOK, FrameOK, SingletonOK, IsFactory,
     Prototyped, OthersKeep, flags, maps, regVars, histVars
<1>6. CASE UNCHANGED vars
  BY <1>6 DEF vars, frameVars, TypeOK, FramesOK, FrameOK, SingletonOK, IsFactory, Prototyped,
     OthersKeep, flags, maps, regVars, histVars
<1>7. QED
  BY <1>1, <1>2, <1>3, <1>4, <1>5, <1>6 DEF Next, Ended

\* Every step keeps a cached object counted: UngetService drops both under one lock.
LEMMA CachedStep == ASSUME TypeOK, CachedIsCounted, [Next]_vars PROVE CachedIsCounted'
<1> TypeOK'
  BY TypeStep
<1>1. ASSUME NEW f \in Frames, FrameStep(f) PROVE CachedIsCounted'
  <2>1. CASE GetUnavailable(f)
    BY <2>1, ObjectsType, ReturnFrame DEF GetUnavailable, TypeOK, CachedIsCounted, NoEntry,
       PlusOne, WithEntry, OthersKeep, flags, maps, regVars, histVars
  <2>2. CASE GetReady(f)
    BY <2>2, ObjectsType, ReturnFrame DEF GetReady, IsFactory, TypeOK, CachedIsCounted, NoEntry,
       PlusOne, WithEntry, OthersKeep, flags, maps, regVars, histVars
  <2>3. CASE GetRecursive(f)
    BY <2>3, ObjectsType, ReturnFrame DEF GetRecursive, NeedsFactory, IsFactory, TypeOK,
       CachedIsCounted, NoEntry, PlusOne, WithEntry, OthersKeep, flags, maps, regVars, histVars
  <2>4. CASE GetEnterFactory(f)
    BY <2>4, ObjectsType, GotoFrame DEF GetEnterFactory, NeedsFactory, IsFactory, TypeOK,
       CachedIsCounted, NoEntry, PlusOne, WithEntry, OthersKeep, flags, maps, regVars, histVars
  <2>5. CASE FactoryGetReturns(f)
    <3>1. CASE FactoryMakes(f)
      <4>1. /\ made' = made + 1 /\ made' \in Objects /\ obj'[f] = made' /\ obj'[f] # Null
            /\ pc'[f] = "getStore" /\ OthersKeep(f)
        BY <2>5, <3>1, ObjectsType, GotoFrame DEF FactoryGetReturns, FactoryMakes, TypeOK,
           OthersKeep
      <4>2. QED
        BY <2>5, <3>1, <4>1, ObjectsType DEF FactoryGetReturns, FactoryMakes, TypeOK,
           CachedIsCounted, NoEntry, PlusOne, WithEntry, OthersKeep, flags, maps, regVars,
           histVars
    <3>2. CASE FactoryFails
      BY <2>5, <3>2, ObjectsType, GotoFrame DEF FactoryGetReturns, FactoryFails, TypeOK,
         CachedIsCounted, NoEntry, PlusOne, WithEntry, OthersKeep, flags, maps, regVars, histVars
    <3>3. QED
      BY <2>5, <3>1, <3>2 DEF FactoryGetReturns
  <2>6. CASE FactoryGetThrows(f)
    BY <2>6, ObjectsType, LeaveFrame DEF FactoryGetThrows, TypeOK, CachedIsCounted, NoEntry,
       PlusOne, WithEntry, OthersKeep, flags, maps, regVars, histVars
  <2>7. CASE GetStore(f)
    BY <2>7, ObjectsType, ReturnFrame DEF GetStore, TypeOK, CachedIsCounted, NoEntry, PlusOne,
       WithEntry, OthersKeep, flags, maps, regVars, histVars
  <2>8. CASE Unget(f)
    <3>1. CASE DropUse(f, bnd[f])
      BY <2>8, <3>1, ObjectsType, DropUseFrame DEF Unget, TypeOK, CachedIsCounted, NoEntry,
         PlusOne, WithEntry, OthersKeep, flags, maps, regVars, histVars
    <3>2. CASE /\ dependents' = [dependents EXCEPT ![bnd[f]] = IF @ > 1 THEN @ - 1 ELSE @]
               /\ Leave(f) /\ UNCHANGED bundleServiceInstance
      BY <2>8, <3>2, ObjectsType, LeaveFrame DEF Unget, TypeOK, CachedIsCounted, NoEntry, PlusOne,
         WithEntry, OthersKeep, flags, maps, regVars, histVars
    <3>3. QED
      BY <2>8, <3>1, <3>2 DEF Unget
  <2>9. CASE UngetCall(f)
    BY <2>9, ObjectsType, LeaveFrame DEF UngetCall, TypeOK, CachedIsCounted, NoEntry, PlusOne,
       WithEntry, OthersKeep, flags, maps, regVars, histVars
  <2>10. CASE ProtoFetch(f)
    BY <2>10, ObjectsType, GotoFrame DEF ProtoFetch, TypeOK, CachedIsCounted, NoEntry, PlusOne,
       WithEntry, OthersKeep, flags, maps, regVars, histVars
  <2>11. CASE ProtoFactoryReturns(f)
    <3>1. CASE FactoryMakes(f)
      <4>1. /\ made' = made + 1 /\ made' \in Objects /\ obj'[f] = made' /\ obj'[f] # Null
            /\ pc'[f] = "protoStore" /\ OthersKeep(f)
        BY <2>11, <3>1, ObjectsType, GotoFrame DEF ProtoFactoryReturns, FactoryMakes, TypeOK,
           OthersKeep
      <4>2. QED
        BY <2>11, <3>1, <4>1, ObjectsType DEF ProtoFactoryReturns, FactoryMakes, TypeOK,
           CachedIsCounted, NoEntry, PlusOne, WithEntry, OthersKeep, flags, maps, regVars,
           histVars
    <3>2. CASE FactoryFails
      BY <2>11, <3>2, ObjectsType, GotoFrame DEF ProtoFactoryReturns, FactoryFails, TypeOK,
         CachedIsCounted, NoEntry, PlusOne, WithEntry, OthersKeep, flags, maps, regVars, histVars
    <3>3. QED
      BY <2>11, <3>1, <3>2 DEF ProtoFactoryReturns
  <2>12. CASE ProtoFactoryThrows(f)
    BY <2>12, ObjectsType, LeaveFrame DEF ProtoFactoryThrows, TypeOK, CachedIsCounted, NoEntry,
       PlusOne, WithEntry, OthersKeep, flags, maps, regVars, histVars
  <2>13. CASE ProtoStore(f)
    BY <2>13, ObjectsType, ReturnFrame DEF ProtoStore, TypeOK, CachedIsCounted, NoEntry, PlusOne,
       WithEntry, OthersKeep, flags, maps, regVars, histVars
  <2>14. CASE ProtoUnget(f)
    <3>1. CASE Leave(f)
      BY <2>14, <3>1, ObjectsType, LeaveFrame DEF ProtoUnget, TypeOK, CachedIsCounted, NoEntry,
         PlusOne, WithEntry, OthersKeep, flags, maps, regVars, histVars
    <3>2. CASE Goto(f, "protoUngetCall") /\ UNCHANGED <<obj, path>>
      BY <2>14, <3>2, ObjectsType, GotoFrame DEF ProtoUnget, TypeOK, CachedIsCounted, NoEntry,
         PlusOne, WithEntry, OthersKeep, flags, maps, regVars, histVars
    <3>3. QED
      BY <2>14, <3>1, <3>2 DEF ProtoUnget
  <2>15. CASE ProtoUngetCall(f)
    BY <2>15, ObjectsType, GotoFrame DEF ProtoUngetCall, TypeOK, CachedIsCounted, NoEntry,
       PlusOne, WithEntry, OthersKeep, flags, maps, regVars, histVars
  <2>16. CASE ProtoErase(f)
    BY <2>16, ObjectsType, LeaveFrame DEF ProtoErase, TypeOK, CachedIsCounted, NoEntry, PlusOne,
       WithEntry, OthersKeep, flags, maps, regVars, histVars
  <2>17. CASE UnregisterStart(f)
    BY <2>17, ObjectsType, GotoFrame DEF UnregisterStart, TypeOK, CachedIsCounted, NoEntry,
       PlusOne, WithEntry, OthersKeep, flags, maps, regVars, histVars
  <2>18. CASE UnregisterCas(f)
    BY <2>18, ObjectsType, GotoFrame DEF UnregisterCas, TypeOK, CachedIsCounted, NoEntry, PlusOne,
       WithEntry, OthersKeep, flags, maps, regVars, histVars
  <2>19. CASE UnregisterEvent(f)
    BY <2>19, ObjectsType, GotoFrame DEF UnregisterEvent, TypeOK, CachedIsCounted, NoEntry,
       PlusOne, WithEntry, OthersKeep, flags, maps, regVars, histVars
  <2>20. CASE UnregisterMark(f)
    BY <2>20, ObjectsType, GotoFrame DEF UnregisterMark, TypeOK, CachedIsCounted, NoEntry,
       PlusOne, WithEntry, OthersKeep, flags, maps, regVars, histVars
  <2>21. CASE UnregisterClear(f)
    BY <2>21, ObjectsType, GotoFrame DEF UnregisterClear, TypeOK, CachedIsCounted, NoEntry,
       PlusOne, WithEntry, OthersKeep, flags, maps, regVars, histVars
  <2>22. CASE Crash(f)
    BY <2>22, ObjectsType, GotoFrame DEF Crash, Fault, TypeOK, CachedIsCounted, NoEntry, PlusOne,
       WithEntry, OthersKeep, flags, maps, regVars, histVars
  <2>23. QED
    BY <1>1, <2>1, <2>2, <2>3, <2>4, <2>5, <2>6, <2>7, <2>8, <2>9, <2>10, <2>11, <2>12, <2>13,
       <2>14, <2>15, <2>16, <2>17, <2>18, <2>19, <2>20, <2>21, <2>22 DEF FrameStep
<1>2. ASSUME NEW f \in Frames, NEW b \in Bundles, NEW p \in Paths, GetStart(f, b, p) PROVE CachedIsCounted'
  BY <1>2, ObjectsType, GotoFrame DEF GetStart, TypeOK, CachedIsCounted, NoEntry, PlusOne,
     WithEntry, OthersKeep, flags, maps, regVars, histVars
<1>3. ASSUME NEW f \in Frames, NEW b \in Bundles, NEW p \in Paths, ProtoGetStart(f, b, p)
      PROVE CachedIsCounted'
  BY <1>3, ObjectsType, GotoFrame DEF ProtoGetStart, TypeOK, CachedIsCounted, NoEntry, PlusOne,
     WithEntry, OthersKeep, flags, maps, regVars, histVars
<1>4. ASSUME NEW f \in Frames, NEW b \in Bundles, StopUser(f, b) PROVE CachedIsCounted'
  <2>1. CASE DropUse(f, b)
    BY <1>4, <2>1, ObjectsType, DropUseFrame DEF StopUser, TypeOK, CachedIsCounted, NoEntry,
       PlusOne, WithEntry, OthersKeep, flags, maps, regVars, histVars
  <2>2. CASE UNCHANGED <<dependents, bundleServiceInstance, obj, path, pc>>
    BY <1>4, <2>2, ObjectsType DEF StopUser, TypeOK, CachedIsCounted, NoEntry, PlusOne, WithEntry,
       OthersKeep, flags, maps, regVars, histVars
  <2>3. QED
    BY <1>4, <2>1, <2>2 DEF StopUser
<1>5. ASSUME NEW f \in Frames, NEW o \in todo[f], UnregisterUnget(f, o) PROVE CachedIsCounted'
  BY <1>5, ObjectsType DEF UnregisterUnget, TypeOK, CachedIsCounted, NoEntry, PlusOne, WithEntry,
     OthersKeep, flags, maps, regVars, histVars
<1>6. CASE UNCHANGED vars
  BY <1>6 DEF vars, frameVars, TypeOK, CachedIsCounted, NoEntry, PlusOne, WithEntry, OthersKeep,
     flags, maps, regVars, histVars
<1>7. QED
  BY <1>1, <1>2, <1>3, <1>4, <1>5, <1>6 DEF Next, Ended

\* An object the last use of a bundle drops moves from the cache to the frame.
LEMMA DropUsePlace ==
    ASSUME TypeOK, OnePlace, NEW f \in Frames, NEW b \in Bundles, DropUse(f, b),
           UNCHANGED <<made, scope>>
    PROVE  OnePlace'
<1> DEFINE inst == bundleServiceInstance
<1>1. /\ inst'[b] = Null
      /\ \A c \in Bundles \ {b} : inst'[c] = inst[c]
  BY DropUseFrame DEF TypeOK
<1>2. \A g \in Frames \ {f} : Owns(g)' <=> Owns(g)
  BY DropUseFrame DEF OthersKeep, Owns, Prototyped
<1>3. Owns(f)' => obj'[f] = inst[b] /\ inst[b] # Null
  BY DropUseFrame DEF Owns
<1>4. \A g \in Frames \ {f} : obj'[g] = obj[g]
  BY DropUseFrame DEF OthersKeep
<1>5. \A c \in Bundles : inst'[c] <= made'
  BY <1>1, ObjectsType DEF TypeOK, OnePlace
<1>6. \A c, e \in Bundles : inst'[c] # Null /\ inst'[c] = inst'[e] => c = e
  BY <1>1 DEF OnePlace
<1>7. \A g, h \in Frames : Owns(g)' /\ Owns(h)' /\ obj'[g] = obj'[h] => g = h
  BY <1>2, <1>3, <1>4 DEF OnePlace
<1>8. \A g \in Frames, c \in Bundles : Owns(g)' => inst'[c] # obj'[g]
  <2>1. ASSUME NEW g \in Frames, NEW c \in Bundles, Owns(g)' PROVE inst'[c] # obj'[g]
    <3>1. obj'[g] # Null
      BY <2>1 DEF Owns
    <3>2. QED
      BY <1>1, <1>2, <1>3, <1>4, <2>1, <3>1 DEF OnePlace
  <2>2. QED
    BY <2>1
<1>9. QED
  BY <1>5, <1>6, <1>7, <1>8 DEF OnePlace

\* A step that makes nothing, leaves the caches alone and gives no frame a new object keeps every
\* object in its place.
LEMMA PlaceKept ==
    ASSUME OnePlace, UNCHANGED <<made, bundleServiceInstance>>,
           \A g \in Frames : Owns(g)' => Owns(g) /\ obj'[g] = obj[g]
    PROVE  OnePlace'
  BY DEF OnePlace

\* The same for a step of one frame.
LEMMA FramePlaceKept ==
    ASSUME OnePlace, NEW f \in Frames, OthersKeep(f), UNCHANGED <<made, scope, bundleServiceInstance>>,
           Owns(f)' => Owns(f) /\ obj'[f] = obj[f]
    PROVE  OnePlace'
<1>1. \A g \in Frames \ {f} : Owns(g)' => Owns(g) /\ obj'[g] = obj[g]
  BY DEF OthersKeep, Owns, Prototyped
<1>2. QED
  BY <1>1, PlaceKept

\* Every step leaves an object in at most one place: GetStore drops the object that came second,
\* and a new one differs from all before.
LEMMA OnePlaceStep == ASSUME TypeOK, FramesOK, OnePlace, [Next]_vars PROVE OnePlace'
<1> TypeOK'
  BY TypeStep
<1>1. ASSUME NEW f \in Frames, FrameStep(f) PROVE OnePlace'
  <2>1. CASE GetUnavailable(f)
    <3>1. OthersKeep(f) /\ obj'[f] = Null /\ UNCHANGED <<made, scope, bundleServiceInstance>>
      BY <2>1, ReturnFrame DEF GetUnavailable, flags, maps, regVars
    <3>2. QED
      BY <3>1, FramePlaceKept DEF Owns
  <2>2. CASE GetReady(f)
    BY <2>2, ObjectsType, ReturnFrame DEF GetReady, IsFactory, TypeOK, FramesOK, FrameOK,
       OnePlace, Owns, Prototyped, OthersKeep, flags, maps, regVars, histVars
  <2>3. CASE GetRecursive(f)
    <3>1. OthersKeep(f) /\ obj'[f] = Null /\ UNCHANGED <<made, scope, bundleServiceInstance>>
      BY <2>3, ReturnFrame DEF GetRecursive, flags
    <3>2. QED
      BY <3>1, FramePlaceKept DEF Owns
  <2>4. CASE GetEnterFactory(f)
    BY <2>4, ObjectsType, GotoFrame DEF GetEnterFactory, NeedsFactory, IsFactory, TypeOK,
       FramesOK, FrameOK, OnePlace, Owns, Prototyped, OthersKeep, flags, maps, regVars, histVars
  <2>5. CASE FactoryGetReturns(f)
    <3>1. CASE FactoryMakes(f)
      <4>1. /\ made' = made + 1 /\ made' \in Objects /\ obj'[f] = made' /\ obj'[f] # Null
            /\ pc'[f] = "getStore" /\ OthersKeep(f)
        BY <2>5, <3>1, ObjectsType, GotoFrame DEF FactoryGetReturns, FactoryMakes, TypeOK,
           OthersKeep
      <4>2. \A g \in Frames : obj[g] # made'
        <5>1. ASSUME NEW g \in Frames PROVE obj[g] # made'
          <6>1. obj[g] \in Nat /\ made \in Nat /\ obj[g] <= made
            BY ObjectsType DEF TypeOK, FramesOK, FrameOK
          <6>2. QED
            BY <4>1, <6>1
        <5>2. QED
          BY <5>1
      <4>3. \A b \in Bundles : bundleServiceInstance[b] # made' /\ bundleServiceInstance[b] <= made'
        <5>1. ASSUME NEW b \in Bundles
              PROVE  bundleServiceInstance[b] # made' /\ bundleServiceInstance[b] <= made'
          <6>1. bundleServiceInstance[b] \in Nat /\ made \in Nat /\ bundleServiceInstance[b] <= made
            BY ObjectsType DEF TypeOK, OnePlace
          <6>2. QED
            BY <4>1, <6>1
        <5>2. QED
          BY <5>1
      <4>4. \A g \in Frames \ {f} : Owns(g)' <=> Owns(g)
        BY <2>5, <3>1, <4>1 DEF FactoryGetReturns, FactoryMakes, flags, OthersKeep, Owns, Prototyped
      <4>5. QED
        BY <2>5, <3>1, <4>1, <4>2, <4>3, <4>4 DEF FactoryGetReturns, FactoryMakes, maps, OnePlace,
           OthersKeep, Owns
    <3>2. CASE FactoryFails
      BY <2>5, <3>2, ObjectsType, GotoFrame DEF FactoryGetReturns, FactoryFails, TypeOK, FramesOK,
         FrameOK, OnePlace, Owns, Prototyped, OthersKeep, flags, maps, regVars, histVars
    <3>3. QED
      BY <2>5, <3>1, <3>2 DEF FactoryGetReturns
  <2>6. CASE FactoryGetThrows(f)
    BY <2>6, ObjectsType, LeaveFrame DEF FactoryGetThrows, TypeOK, FramesOK, FrameOK, OnePlace,
       Owns, Prototyped, OthersKeep, flags, maps, regVars, histVars
  <2>7. CASE GetStore(f)
    <3> DEFINE b == bnd[f]
               s == IF bundleServiceInstance[b] # Null THEN bundleServiceInstance[b] ELSE obj[f]
    <3>1. b \in Bundles /\ s \in Objects \cup {Null}
      BY DEF TypeOK
    <3>2. /\ pc[f] = "getStore" /\ Return(f, s) /\ UNCHANGED <<made, scope>>
          /\ bundleServiceInstance' = [bundleServiceInstance EXCEPT ![b] = s]
      BY <2>7 DEF GetStore, flags
    <3>3. /\ OthersKeep(f)
          /\ obj'[f] = Null \/ (pc'[f] = "holding" /\ path'[f] = path[f])
      BY <3>1, <3>2, ReturnFrame
    <3>4. ~Prototyped(f) /\ obj[f] <= made
      BY <3>2 DEF FramesOK, FrameOK
    <3>5. ~Owns(f)'
      BY <3>2, <3>3, <3>4 DEF Owns, Prototyped
    <3>6. CASE s = bundleServiceInstance[b]
      <4>1. bundleServiceInstance' = bundleServiceInstance
        BY <3>1, <3>2, <3>6 DEF TypeOK
      <4>2. QED
        BY <3>2, <3>3, <3>5, <4>1, FramePlaceKept
    <3>7. CASE s # bundleServiceInstance[b]
      <4>1. s = obj[f] /\ s # Null /\ Owns(f)
        BY <3>2, <3>7 DEF Owns
      <4>2. /\ bundleServiceInstance'[b] = obj[f]
            /\ \A c \in Bundles \ {b} : bundleServiceInstance'[c] = bundleServiceInstance[c]
        BY <3>1, <3>2, <4>1 DEF TypeOK
      <4>3. \A g \in Frames \ {f} : (Owns(g)' <=> Owns(g)) /\ obj'[g] = obj[g]
        BY <3>2, <3>3 DEF OthersKeep, Owns, Prototyped
      <4>4. \A c \in Bundles : bundleServiceInstance'[c] <= made'
        BY <3>2, <3>4, <4>2 DEF OnePlace
      <4>5. \A c, e \in Bundles : bundleServiceInstance'[c] # Null
                /\ bundleServiceInstance'[c] = bundleServiceInstance'[e] => c = e
        BY <4>1, <4>2 DEF OnePlace
      <4>6. \A g, h \in Frames : Owns(g)' /\ Owns(h)' /\ obj'[g] = obj'[h] => g = h
        BY <3>5, <4>3 DEF OnePlace
      <4>7. \A g \in Frames, c \in Bundles : Owns(g)' => bundleServiceInstance'[c] # obj'[g]
        BY <3>5, <4>1, <4>2, <4>3 DEF OnePlace
      <4>8. QED
        BY <4>4, <4>5, <4>6, <4>7 DEF OnePlace
    <3>8. QED
      BY <3>6, <3>7
  <2>8. CASE Unget(f)
    <3>1. CASE DropUse(f, bnd[f])
      BY <2>8, <3>1, DropUsePlace DEF Unget, TypeOK, flags
    <3>2. CASE /\ dependents' = [dependents EXCEPT ![bnd[f]] = IF @ > 1 THEN @ - 1 ELSE @]
               /\ Leave(f) /\ UNCHANGED bundleServiceInstance
      BY <2>8, <3>2, ObjectsType, LeaveFrame DEF Unget, TypeOK, FramesOK, FrameOK, OnePlace, Owns,
         Prototyped, OthersKeep, flags, maps, regVars, histVars
    <3>3. QED
      BY <2>8, <3>1, <3>2 DEF Unget
  <2>9. CASE UngetCall(f)
    BY <2>9, ObjectsType, LeaveFrame DEF UngetCall, TypeOK, FramesOK, FrameOK, OnePlace, Owns,
       Prototyped, OthersKeep, flags, maps, regVars, histVars
  <2>10. CASE ProtoFetch(f)
    BY <2>10, ObjectsType, GotoFrame DEF ProtoFetch, TypeOK, FramesOK, FrameOK, OnePlace, Owns,
       Prototyped, OthersKeep, flags, maps, regVars, histVars
  <2>11. CASE ProtoFactoryReturns(f)
    <3>1. CASE FactoryMakes(f)
      <4>1. /\ made' = made + 1 /\ made' \in Objects /\ obj'[f] = made' /\ obj'[f] # Null
            /\ pc'[f] = "protoStore" /\ OthersKeep(f)
        BY <2>11, <3>1, ObjectsType, GotoFrame DEF ProtoFactoryReturns, FactoryMakes, TypeOK,
           OthersKeep
      <4>2. \A g \in Frames : obj[g] # made'
        <5>1. ASSUME NEW g \in Frames PROVE obj[g] # made'
          <6>1. obj[g] \in Nat /\ made \in Nat /\ obj[g] <= made
            BY ObjectsType DEF TypeOK, FramesOK, FrameOK
          <6>2. QED
            BY <4>1, <6>1
        <5>2. QED
          BY <5>1
      <4>3. \A b \in Bundles : bundleServiceInstance[b] # made' /\ bundleServiceInstance[b] <= made'
        <5>1. ASSUME NEW b \in Bundles
              PROVE  bundleServiceInstance[b] # made' /\ bundleServiceInstance[b] <= made'
          <6>1. bundleServiceInstance[b] \in Nat /\ made \in Nat /\ bundleServiceInstance[b] <= made
            BY ObjectsType DEF TypeOK, OnePlace
          <6>2. QED
            BY <4>1, <6>1
        <5>2. QED
          BY <5>1
      <4>4. \A g \in Frames \ {f} : Owns(g)' <=> Owns(g)
        BY <2>11, <3>1, <4>1 DEF ProtoFactoryReturns, FactoryMakes, flags, OthersKeep, Owns,
           Prototyped
      <4>5. QED
        BY <2>11, <3>1, <4>1, <4>2, <4>3, <4>4 DEF ProtoFactoryReturns, FactoryMakes, maps,
           OnePlace, OthersKeep, Owns
    <3>2. CASE FactoryFails
      BY <2>11, <3>2, ObjectsType, GotoFrame DEF ProtoFactoryReturns, FactoryFails, TypeOK,
         FramesOK, FrameOK, OnePlace, Owns, Prototyped, OthersKeep, flags, maps, regVars, histVars
    <3>3. QED
      BY <2>11, <3>1, <3>2 DEF ProtoFactoryReturns
  <2>12. CASE ProtoFactoryThrows(f)
    <3>1. OthersKeep(f) /\ obj'[f] = Null /\ UNCHANGED <<made, scope, bundleServiceInstance>>
      BY <2>12, LeaveFrame DEF ProtoFactoryThrows, flags, maps, regVars
    <3>2. QED
      BY <3>1, FramePlaceKept DEF Owns
  <2>13. CASE ProtoStore(f)
    <3>1. /\ pc[f] = "protoStore" /\ Return(f, obj[f]) /\ obj[f] \in Objects \cup {Null}
          /\ UNCHANGED <<made, scope, bundleServiceInstance>>
      BY <2>13 DEF ProtoStore, TypeOK, flags
    <3>2. OthersKeep(f) /\ (obj'[f] = Null \/ obj'[f] = obj[f])
      BY <3>1, ReturnFrame
    <3>3. QED
      BY <3>1, <3>2, FramePlaceKept DEF Owns
  <2>14. CASE ProtoUnget(f)
    <3>1. CASE Leave(f)
      <4>1. OthersKeep(f) /\ obj'[f] = Null /\ UNCHANGED <<made, scope, bundleServiceInstance>>
        BY <2>14, <3>1, LeaveFrame DEF ProtoUnget, flags, maps, regVars
      <4>2. QED
        BY <4>1, FramePlaceKept DEF Owns
    <3>2. CASE Goto(f, "protoUngetCall") /\ UNCHANGED <<obj, path>>
      BY <2>14, <3>2, ObjectsType, GotoFrame DEF ProtoUnget, TypeOK, FramesOK, FrameOK, OnePlace,
         Owns, Prototyped, OthersKeep, flags, maps, regVars, histVars
    <3>3. QED
      BY <2>14, <3>1, <3>2 DEF ProtoUnget
  <2>15. CASE ProtoUngetCall(f)
    BY <2>15, ObjectsType, GotoFrame DEF ProtoUngetCall, TypeOK, FramesOK, FrameOK, OnePlace,
       Owns, Prototyped, OthersKeep, flags, maps, regVars, histVars
  <2>16. CASE ProtoErase(f)
    <3>1. OthersKeep(f) /\ obj'[f] = Null /\ UNCHANGED <<made, scope, bundleServiceInstance>>
      BY <2>16, LeaveFrame DEF ProtoErase, flags
    <3>2. QED
      BY <3>1, FramePlaceKept DEF Owns
  <2>17. CASE UnregisterStart(f)
    BY <2>17, ObjectsType, GotoFrame DEF UnregisterStart, TypeOK, FramesOK, FrameOK, OnePlace,
       Owns, Prototyped, OthersKeep, flags, maps, regVars, histVars
  <2>18. CASE UnregisterCas(f)
    BY <2>18, ObjectsType, GotoFrame DEF UnregisterCas, TypeOK, FramesOK, FrameOK, OnePlace, Owns,
       Prototyped, OthersKeep, flags, maps, regVars, histVars
  <2>19. CASE UnregisterEvent(f)
    BY <2>19, ObjectsType, GotoFrame DEF UnregisterEvent, TypeOK, FramesOK, FrameOK, OnePlace,
       Owns, Prototyped, OthersKeep, flags, maps, regVars, histVars
  <2>20. CASE UnregisterMark(f)
    BY <2>20, ObjectsType, GotoFrame DEF UnregisterMark, TypeOK, FramesOK, FrameOK, OnePlace,
       Owns, Prototyped, OthersKeep, flags, maps, regVars, histVars
  <2>21. CASE UnregisterClear(f)
    BY <2>21, ObjectsType, GotoFrame DEF UnregisterClear, TypeOK, FramesOK, FrameOK, OnePlace,
       Owns, Prototyped, OthersKeep, flags, maps, regVars, histVars
  <2>22. CASE Crash(f)
    BY <2>22, ObjectsType, GotoFrame DEF Crash, Fault, TypeOK, FramesOK, FrameOK, OnePlace, Owns,
       Prototyped, OthersKeep, flags, maps, regVars, histVars
  <2>23. QED
    BY <1>1, <2>1, <2>2, <2>3, <2>4, <2>5, <2>6, <2>7, <2>8, <2>9, <2>10, <2>11, <2>12, <2>13,
       <2>14, <2>15, <2>16, <2>17, <2>18, <2>19, <2>20, <2>21, <2>22 DEF FrameStep
<1>2. ASSUME NEW f \in Frames, NEW b \in Bundles, NEW p \in Paths, GetStart(f, b, p) PROVE OnePlace'
  BY <1>2, ObjectsType, GotoFrame DEF GetStart, TypeOK, FramesOK, FrameOK, OnePlace, Owns,
     Prototyped, OthersKeep, flags, maps, regVars, histVars
<1>3. ASSUME NEW f \in Frames, NEW b \in Bundles, NEW p \in Paths, ProtoGetStart(f, b, p)
      PROVE OnePlace'
  BY <1>3, ObjectsType, GotoFrame DEF ProtoGetStart, TypeOK, FramesOK, FrameOK, OnePlace, Owns,
     Prototyped, OthersKeep, flags, maps, regVars, histVars
<1>4. ASSUME NEW f \in Frames, NEW b \in Bundles, StopUser(f, b) PROVE OnePlace'
  <2>1. CASE DropUse(f, b)
    BY <1>4, <2>1, DropUsePlace DEF StopUser, flags
  <2>2. CASE UNCHANGED <<dependents, bundleServiceInstance, obj, path, pc>>
    BY <1>4, <2>2, ObjectsType DEF StopUser, TypeOK, FramesOK, FrameOK, OnePlace, Owns,
       Prototyped, OthersKeep, flags, maps, regVars, histVars
  <2>3. QED
    BY <1>4, <2>1, <2>2 DEF StopUser
<1>5. ASSUME NEW f \in Frames, NEW o \in todo[f], UnregisterUnget(f, o) PROVE OnePlace'
  BY <1>5, ObjectsType DEF UnregisterUnget, TypeOK, FramesOK, FrameOK, OnePlace, Owns, Prototyped,
     OthersKeep, flags, maps, regVars, histVars
<1>6. CASE UNCHANGED vars
  BY <1>6 DEF vars, frameVars, TypeOK, FramesOK, FrameOK, OnePlace, Owns, Prototyped, OthersKeep,
     flags, maps, regVars, histVars
<1>7. QED
  BY <1>1, <1>2, <1>3, <1>4, <1>5, <1>6 DEF Next, Ended

\* An object a frame owns was not released before, and is in no place afterwards.
LEMMA ReleaseOwned ==
    ASSUME TypeOK, FramesOK, OnePlace, ReleasedIsGone, NEW f \in Frames, Owns(f), ~Owns(f)',
           OthersKeep(f), released' = [released EXCEPT ![obj[f]] = @ + 1],
           UNCHANGED <<available, scope, bundleServiceInstance, made>>
    PROVE  ReleasedIsGone'
<1> SUFFICES ASSUME available, NEW o \in Objects
             PROVE  /\ released'[o] <= 1
                    /\ released'[o] = 1 => /\ o <= made
                                           /\ \A b \in Bundles : bundleServiceInstance[b] # o
                                           /\ \A g \in Frames : Owns(g)' => obj'[g] # o
  BY DEF ReleasedIsGone
<1>1. \A g \in Frames \ {f} : (Owns(g)' <=> Owns(g)) /\ obj'[g] = obj[g]
  BY DEF OthersKeep, Owns, Prototyped
<1>2. CASE o = obj[f]
  <2>1. released[o] \in Nat /\ released[o] <= 1 /\ released[o] # 1
    BY <1>2 DEF TypeOK, ReleasedIsGone
  <2>2. released'[o] = released[o] + 1
    BY <1>2 DEF TypeOK
  <2>3. o <= made
    BY <1>2 DEF FramesOK, FrameOK
  <2>4. \A b \in Bundles : bundleServiceInstance[b] # o
    BY <1>2 DEF OnePlace
  <2>5. \A g \in Frames : Owns(g)' => obj'[g] # o
    BY <1>1, <1>2 DEF OnePlace
  <2>6. QED
    BY <2>1, <2>2, <2>3, <2>4, <2>5
<1>3. CASE o # obj[f]
  BY <1>1, <1>3 DEF TypeOK, ReleasedIsGone
<1>4. QED
  BY <1>2, <1>3

\* Every step that gives an object back takes it from its only place, while the service is
\* available.
LEMMA ReleasedStep == ASSUME TypeOK, FramesOK, OnePlace, ReleasedIsGone, [Next]_vars PROVE ReleasedIsGone'
<1> TypeOK'
  BY TypeStep
<1>1. ASSUME NEW f \in Frames, FrameStep(f) PROVE ReleasedIsGone'
  <2>1. CASE GetUnavailable(f)
    BY <2>1, ObjectsType, ReturnFrame DEF GetUnavailable, TypeOK, FramesOK, FrameOK, OnePlace,
       ReleasedIsGone, Owns, Prototyped, OthersKeep, flags, maps, regVars, histVars
  <2>2. CASE GetReady(f)
    BY <2>2, ObjectsType, ReturnFrame DEF GetReady, IsFactory, TypeOK, FramesOK, FrameOK,
       OnePlace, ReleasedIsGone, Owns, Prototyped, OthersKeep, flags, maps, regVars, histVars
  <2>3. CASE GetRecursive(f)
    BY <2>3, ObjectsType, ReturnFrame DEF GetRecursive, NeedsFactory, IsFactory, TypeOK, FramesOK,
       FrameOK, OnePlace, ReleasedIsGone, Owns, Prototyped, OthersKeep, flags, maps, regVars,
       histVars
  <2>4. CASE GetEnterFactory(f)
    BY <2>4, ObjectsType, GotoFrame DEF GetEnterFactory, NeedsFactory, IsFactory, TypeOK,
       FramesOK, FrameOK, OnePlace, ReleasedIsGone, Owns, Prototyped, OthersKeep, flags, maps,
       regVars, histVars
  <2>5. CASE FactoryGetReturns(f)
    <3>1. CASE FactoryMakes(f)
      <4>1. /\ made' = made + 1 /\ made' \in Objects /\ obj'[f] = made' /\ obj'[f] # Null
            /\ pc'[f] = "getStore" /\ OthersKeep(f)
        BY <2>5, <3>1, ObjectsType, GotoFrame DEF FactoryGetReturns, FactoryMakes, TypeOK,
           OthersKeep
      <4>2. QED
        BY <2>5, <3>1, <4>1, ObjectsType DEF FactoryGetReturns, FactoryMakes, TypeOK, FramesOK,
           FrameOK, OnePlace, ReleasedIsGone, Owns, Prototyped, OthersKeep, flags, maps, regVars,
           histVars
    <3>2. CASE FactoryFails
      BY <2>5, <3>2, ObjectsType, GotoFrame DEF FactoryGetReturns, FactoryFails, TypeOK, FramesOK,
         FrameOK, OnePlace, ReleasedIsGone, Owns, Prototyped, OthersKeep, flags, maps, regVars,
         histVars
    <3>3. QED
      BY <2>5, <3>1, <3>2 DEF FactoryGetReturns
  <2>6. CASE FactoryGetThrows(f)
    BY <2>6, ObjectsType, LeaveFrame DEF FactoryGetThrows, TypeOK, FramesOK, FrameOK, OnePlace,
       ReleasedIsGone, Owns, Prototyped, OthersKeep, flags, maps, regVars, histVars
  <2>7. CASE GetStore(f)
    BY <2>7, ObjectsType, ReturnFrame DEF GetStore, TypeOK, FramesOK, FrameOK, OnePlace,
       ReleasedIsGone, Owns, Prototyped, OthersKeep, flags, maps, regVars, histVars
  <2>8. CASE Unget(f)
    <3>1. CASE DropUse(f, bnd[f])
      BY <2>8, <3>1, ObjectsType, DropUseFrame DEF Unget, TypeOK, FramesOK, FrameOK, OnePlace,
         ReleasedIsGone, Owns, Prototyped, OthersKeep, flags, maps, regVars, histVars
    <3>2. CASE /\ dependents' = [dependents EXCEPT ![bnd[f]] = IF @ > 1 THEN @ - 1 ELSE @]
               /\ Leave(f) /\ UNCHANGED bundleServiceInstance
      BY <2>8, <3>2, ObjectsType, LeaveFrame DEF Unget, TypeOK, FramesOK, FrameOK, OnePlace,
         ReleasedIsGone, Owns, Prototyped, OthersKeep, flags, maps, regVars, histVars
    <3>3. QED
      BY <2>8, <3>1, <3>2 DEF Unget
  <2>9. CASE UngetCall(f)
    <3>1. Owns(f) /\ ~Owns(f)' /\ OthersKeep(f)
      BY <2>9, LeaveFrame DEF UngetCall, FramesOK, FrameOK, Owns
    <3>2. QED
      BY <2>9, <3>1, ReleaseOwned DEF UngetCall, regVars, flags, maps
  <2>10. CASE ProtoFetch(f)
    BY <2>10, ObjectsType, GotoFrame DEF ProtoFetch, TypeOK, FramesOK, FrameOK, OnePlace,
       ReleasedIsGone, Owns, Prototyped, OthersKeep, flags, maps, regVars, histVars
  <2>11. CASE ProtoFactoryReturns(f)
    <3>1. CASE FactoryMakes(f)
      <4>1. /\ made' = made + 1 /\ made' \in Objects /\ obj'[f] = made' /\ obj'[f] # Null
            /\ pc'[f] = "protoStore" /\ OthersKeep(f)
        BY <2>11, <3>1, ObjectsType, GotoFrame DEF ProtoFactoryReturns, FactoryMakes, TypeOK,
           OthersKeep
      <4>2. QED
        BY <2>11, <3>1, <4>1, ObjectsType DEF ProtoFactoryReturns, FactoryMakes, TypeOK, FramesOK,
           FrameOK, OnePlace, ReleasedIsGone, Owns, Prototyped, OthersKeep, flags, maps, regVars,
           histVars
    <3>2. CASE FactoryFails
      BY <2>11, <3>2, ObjectsType, GotoFrame DEF ProtoFactoryReturns, FactoryFails, TypeOK,
         FramesOK, FrameOK, OnePlace, ReleasedIsGone, Owns, Prototyped, OthersKeep, flags, maps,
         regVars, histVars
    <3>3. QED
      BY <2>11, <3>1, <3>2 DEF ProtoFactoryReturns
  <2>12. CASE ProtoFactoryThrows(f)
    BY <2>12, ObjectsType, LeaveFrame DEF ProtoFactoryThrows, TypeOK, FramesOK, FrameOK, OnePlace,
       ReleasedIsGone, Owns, Prototyped, OthersKeep, flags, maps, regVars, histVars
  <2>13. CASE ProtoStore(f)
    BY <2>13, ObjectsType, ReturnFrame DEF ProtoStore, TypeOK, FramesOK, FrameOK, OnePlace,
       ReleasedIsGone, Owns, Prototyped, OthersKeep, flags, maps, regVars, histVars
  <2>14. CASE ProtoUnget(f)
    <3>1. CASE Leave(f)
      BY <2>14, <3>1, ObjectsType, LeaveFrame DEF ProtoUnget, TypeOK, FramesOK, FrameOK, OnePlace,
         ReleasedIsGone, Owns, Prototyped, OthersKeep, flags, maps, regVars, histVars
    <3>2. CASE Goto(f, "protoUngetCall") /\ UNCHANGED <<obj, path>>
      BY <2>14, <3>2, ObjectsType, GotoFrame DEF ProtoUnget, TypeOK, FramesOK, FrameOK, OnePlace,
         ReleasedIsGone, Owns, Prototyped, OthersKeep, flags, maps, regVars, histVars
    <3>3. QED
      BY <2>14, <3>1, <3>2 DEF ProtoUnget
  <2>15. CASE ProtoUngetCall(f)
    <3>1. Owns(f) /\ ~Owns(f)' /\ OthersKeep(f)
      BY <2>15, GotoFrame DEF ProtoUngetCall, FramesOK, FrameOK, Owns, OthersKeep
    <3>2. QED
      BY <2>15, <3>1, ReleaseOwned DEF ProtoUngetCall, regVars, flags, maps
  <2>16. CASE ProtoErase(f)
    BY <2>16, ObjectsType, LeaveFrame DEF ProtoErase, TypeOK, FramesOK, FrameOK, OnePlace,
       ReleasedIsGone, Owns, Prototyped, OthersKeep, flags, maps, regVars, histVars
  <2>17. CASE UnregisterStart(f)
    BY <2>17, ObjectsType, GotoFrame DEF UnregisterStart, TypeOK, FramesOK, FrameOK, OnePlace,
       ReleasedIsGone, Owns, Prototyped, OthersKeep, flags, maps, regVars, histVars
  <2>18. CASE UnregisterCas(f)
    BY <2>18, ObjectsType, GotoFrame DEF UnregisterCas, TypeOK, FramesOK, FrameOK, OnePlace,
       ReleasedIsGone, Owns, Prototyped, OthersKeep, flags, maps, regVars, histVars
  <2>19. CASE UnregisterEvent(f)
    BY <2>19, ObjectsType, GotoFrame DEF UnregisterEvent, TypeOK, FramesOK, FrameOK, OnePlace,
       ReleasedIsGone, Owns, Prototyped, OthersKeep, flags, maps, regVars, histVars
  <2>20. CASE UnregisterMark(f)
    BY <2>20, ObjectsType, GotoFrame DEF UnregisterMark, TypeOK, FramesOK, FrameOK, OnePlace,
       ReleasedIsGone, Owns, Prototyped, OthersKeep, flags, maps, regVars, histVars
  <2>21. CASE UnregisterClear(f)
    BY <2>21, ObjectsType, GotoFrame DEF UnregisterClear, TypeOK, FramesOK, FrameOK, OnePlace,
       ReleasedIsGone, Owns, Prototyped, OthersKeep, flags, maps, regVars, histVars
  <2>22. CASE Crash(f)
    <3>1. Fault(f)
      BY <2>22 DEF Crash
    <3>2. ~Owns(f)' /\ \A g \in Frames \ {f} : Owns(g)' <=> Owns(g)
      BY <3>1, GotoFrame DEF Fault, Owns, Prototyped, regVars, flags
    <3>3. QED
      BY <3>1, <3>2 DEF Fault, ReleasedIsGone, regVars, flags, maps, histVars
  <2>23. QED
    BY <1>1, <2>1, <2>2, <2>3, <2>4, <2>5, <2>6, <2>7, <2>8, <2>9, <2>10, <2>11, <2>12, <2>13,
       <2>14, <2>15, <2>16, <2>17, <2>18, <2>19, <2>20, <2>21, <2>22 DEF FrameStep
<1>2. ASSUME NEW f \in Frames, NEW b \in Bundles, NEW p \in Paths, GetStart(f, b, p) PROVE ReleasedIsGone'
  BY <1>2, ObjectsType, GotoFrame DEF GetStart, TypeOK, FramesOK, FrameOK, OnePlace,
     ReleasedIsGone, Owns, Prototyped, OthersKeep, flags, maps, regVars, histVars
<1>3. ASSUME NEW f \in Frames, NEW b \in Bundles, NEW p \in Paths, ProtoGetStart(f, b, p)
      PROVE ReleasedIsGone'
  BY <1>3, ObjectsType, GotoFrame DEF ProtoGetStart, TypeOK, FramesOK, FrameOK, OnePlace,
     ReleasedIsGone, Owns, Prototyped, OthersKeep, flags, maps, regVars, histVars
<1>4. ASSUME NEW f \in Frames, NEW b \in Bundles, StopUser(f, b) PROVE ReleasedIsGone'
  <2>1. CASE DropUse(f, b)
    BY <1>4, <2>1, ObjectsType, DropUseFrame DEF StopUser, TypeOK, FramesOK, FrameOK, OnePlace,
       ReleasedIsGone, Owns, Prototyped, OthersKeep, flags, maps, regVars, histVars
  <2>2. CASE UNCHANGED <<dependents, bundleServiceInstance, obj, path, pc>>
    BY <1>4, <2>2, ObjectsType DEF StopUser, TypeOK, FramesOK, FrameOK, OnePlace, ReleasedIsGone,
       Owns, Prototyped, OthersKeep, flags, maps, regVars, histVars
  <2>3. QED
    BY <1>4, <2>1, <2>2 DEF StopUser
<1>5. ASSUME NEW f \in Frames, NEW o \in todo[f], UnregisterUnget(f, o) PROVE ReleasedIsGone'
  BY <1>5, ObjectsType DEF UnregisterUnget, TypeOK, FramesOK, FrameOK, OnePlace, ReleasedIsGone,
     Owns, Prototyped, OthersKeep, flags, maps, regVars, histVars
<1>6. CASE UNCHANGED vars
  BY <1>6 DEF vars, frameVars, TypeOK, FramesOK, FrameOK, OnePlace, ReleasedIsGone, Owns,
     Prototyped, OthersKeep, flags, maps, regVars, histVars
<1>7. QED
  BY <1>1, <1>2, <1>3, <1>4, <1>5, <1>6 DEF Next, Ended

\* A frame that keeps a counted object.
IsHolder(f) == pc[f] = "holding" /\ obj[f] # Null /\ ~Prototyped(f)

\* The holders of a bundle can be counted.
LEMMA HoldersFinite == \A b \in Bundles : IsFiniteSet(Holders(b)) /\ Cardinality(Holders(b)) \in Nat
<1>1. ASSUME NEW b \in Bundles PROVE IsFiniteSet(Holders(b)) /\ Cardinality(Holders(b)) \in Nat
  <2>1. Holders(b) \in SUBSET Frames
    BY DEF Holders
  <2>2. IsFiniteSet(Holders(b))
    BY <2>1, ConstantsAssumption, FS_Subset
  <2>3. QED
    BY <2>2, FS_CardinalityType
<1>2. QED
  BY <1>1

\* A step that makes no holder and ends none keeps the counts exact, if it changes a count
\* at most from "no entry" to zero where they are claimed to be exact.
LEMMA UsesQuiet ==
    ASSUME TypeOK, UsesOK, NEW f \in Frames,
           OthersKeep(f), \A g \in Frames \ {f} : bnd'[g] = bnd[g],
           ~IsHolder(f), ~IsHolder(f)', UNCHANGED scope,
           available' => available, stopped \subseteq stopped', nullHeld \subseteq nullHeld',
           available' => \A b \in Bundles \ (stopped' \cup nullHeld') :
               /\ bundleServiceInstance'[b] = bundleServiceInstance[b]
               /\ \/ dependents'[b] = dependents[b]
                  \/ dependents[b] = NoEntry /\ dependents'[b] = 0
    PROVE  UsesOK'
<1> SUFFICES ASSUME available', NEW b \in Bundles \ (stopped' \cup nullHeld') PROVE Counted(b)'
  BY DEF UsesOK
<1>1. Counted(b)
  BY DEF UsesOK
<1>2. Holders(b)' = Holders(b)
  BY DEF Holders, IsHolder, Prototyped, OthersKeep
<1>3. \A g \in Holders(b) : obj'[g] = obj[g]
  BY DEF Holders, IsHolder, OthersKeep
<1>4. CASE dependents'[b] = dependents[b]
  BY <1>1, <1>2, <1>3, <1>4 DEF Counted, IsFactory
<1>5. CASE dependents[b] = NoEntry /\ dependents'[b] = 0
  BY <1>1, <1>2, <1>3, <1>5, FS_EmptySet DEF Counted, IsFactory, NoEntry
<1>6. QED
  BY <1>4, <1>5

\* A get that succeeds adds a holder and one to the count, and does not replace the object
\* that earlier holders have.
LEMMA UsesAdd ==
    ASSUME TypeOK, UsesOK, NEW f \in Frames, OthersKeep(f), UNCHANGED <<bnd, scope, available,
           stopped, nullHeld>>, ~IsHolder(f), IsHolder(f)',
           dependents' = PlusOne(bnd[f]),
           \A b \in Bundles : bundleServiceInstance[b] # Null \/ b # bnd[f]
                                => bundleServiceInstance'[b] = bundleServiceInstance[b],
           IsFactory => bundleServiceInstance'[bnd[f]] = obj'[f]
    PROVE  UsesOK'
<1> SUFFICES ASSUME available, NEW b \in Bundles \ (stopped \cup nullHeld) PROVE Counted(b)'
  BY DEF UsesOK
<1>1. Counted(b)
  BY DEF UsesOK
<1>2. bnd[f] \in Bundles /\ dependents[b] \in Nat \cup {NoEntry}
  BY DEF TypeOK
<1>3. CASE b # bnd[f]
  <2>1. dependents'[b] = dependents[b]
    BY <1>2, <1>3 DEF PlusOne, TypeOK
  <2>2. Holders(b)' = Holders(b)
    BY <1>3 DEF Holders, IsHolder, Prototyped, OthersKeep
  <2>3. \A g \in Holders(b) : obj'[g] = obj[g]
    BY DEF Holders, IsHolder, OthersKeep
  <2>4. QED
    BY <1>1, <1>3, <2>1, <2>2, <2>3 DEF Counted, IsFactory
<1>4. CASE b = bnd[f]
  <2>1. Holders(b)' = Holders(b) \cup {f} /\ f \notin Holders(b)
    BY <1>4 DEF Holders, IsHolder, Prototyped, OthersKeep
  <2>2. Cardinality(Holders(b)') = Cardinality(Holders(b)) + 1
    BY <2>1, HoldersFinite, FS_AddElement
  <2>3. dependents'[b] = IF dependents[b] = NoEntry THEN 1 ELSE dependents[b] + 1
    BY <1>2, <1>4 DEF PlusOne, TypeOK
  <2>4. dependents'[b] = Cardinality(Holders(b)') /\ dependents'[b] # NoEntry
    BY <1>1, <1>2, <2>2, <2>3, FS_EmptySet, HoldersFinite DEF Counted, NoEntry
  <2>5. ASSUME IsFactory, NEW g \in Holders(b)' PROVE bundleServiceInstance'[b] = obj'[g]
    <3>1. CASE g = f
      BY <1>4, <2>5, <3>1
    <3>2. CASE g # f
      <4>1. g \in Holders(b) /\ obj'[g] = obj[g] /\ obj[g] # Null
        BY <2>1, <2>5, <3>2 DEF Holders, OthersKeep
      <4>2. QED
        BY <1>1, <2>5, <4>1 DEF Counted
    <3>3. QED
      BY <3>1, <3>2
  <2>6. QED
    BY <2>4, <2>5 DEF Counted, IsFactory
<1>5. QED
  BY <1>3, <1>4

\* A holder that ungets takes one from the count; the last one takes the entry and the
\* cached object with it, and leaves no holder behind.
LEMMA UsesRemove ==
    ASSUME TypeOK, UsesOK, NEW f \in Frames, OthersKeep(f), UNCHANGED <<bnd, scope, available,
           stopped, nullHeld>>, IsHolder(f), ~IsHolder(f)',
           \A b \in Bundles \ {bnd[f]} : /\ bundleServiceInstance'[b] = bundleServiceInstance[b]
                                         /\ dependents'[b] = dependents[b],
           \/ dependents[bnd[f]] = 1 /\ dependents'[bnd[f]] = NoEntry
           \/ /\ dependents[bnd[f]] # 1
              /\ dependents'[bnd[f]] = IF dependents[bnd[f]] > 1 THEN dependents[bnd[f]] - 1
                                                                 ELSE dependents[bnd[f]]
              /\ bundleServiceInstance'[bnd[f]] = bundleServiceInstance[bnd[f]]
    PROVE  UsesOK'
<1> SUFFICES ASSUME available, NEW b \in Bundles \ (stopped \cup nullHeld) PROVE Counted(b)'
  BY DEF UsesOK
<1>1. Counted(b)
  BY DEF UsesOK
<1>2. bnd[f] \in Bundles /\ dependents[b] \in Nat \cup {NoEntry}
  BY DEF TypeOK
<1>3. CASE b # bnd[f]
  <2>1. Holders(b)' = Holders(b)
    BY <1>3 DEF Holders, IsHolder, Prototyped, OthersKeep
  <2>2. \A g \in Holders(b) : obj'[g] = obj[g]
    BY <1>3 DEF Holders, IsHolder, OthersKeep
  <2>3. QED
    BY <1>1, <1>3, <2>1, <2>2 DEF Counted, IsFactory
<1>4. CASE b = bnd[f]
  <2>1. Holders(b)' = Holders(b) \ {f} /\ f \in Holders(b)
    BY <1>4 DEF Holders, IsHolder, Prototyped, OthersKeep
  <2>2. /\ IsFiniteSet(Holders(b)')
        /\ Cardinality(Holders(b)') = Cardinality(Holders(b)) - 1
        /\ Cardinality(Holders(b)) \in Nat
        /\ Cardinality(Holders(b)') \in Nat
    BY <2>1, HoldersFinite, FS_RemoveElement, FS_CardinalityType
  <2>3. dependents[b] = Cardinality(Holders(b)) /\ dependents[b] # 0
    BY <1>1, <1>2, <2>1, <2>2 DEF Counted, NoEntry
  <2>4. CASE dependents[b] = 1
    <3>1. Holders(b)' = {}
      BY <2>2, <2>3, <2>4, FS_EmptySet
    <3>2. dependents'[b] = NoEntry
      BY <1>4, <2>4
    <3>3. QED
      BY <3>1, <3>2 DEF Counted, NoEntry
  <2>5. CASE dependents[b] # 1
    <3>1. /\ dependents'[b] = dependents[b] - 1 /\ dependents'[b] # NoEntry
          /\ bundleServiceInstance'[b] = bundleServiceInstance[b]
      BY <1>2, <1>4, <2>2, <2>3, <2>5 DEF NoEntry
    <3>2. \A g \in Holders(b)' : g \in Holders(b) /\ obj'[g] = obj[g]
      BY <2>1 DEF Holders, OthersKeep
    <3>3. QED
      BY <1>1, <2>2, <2>3, <3>1, <3>2 DEF Counted, IsFactory
  <2>6. QED
    BY <2>4, <2>5
<1>5. QED
  BY <1>3, <1>4

\* Every step keeps the count of a bundle equal to the number of its holders.
LEMMA UsesStep == ASSUME TypeOK, FramesOK, UsesOK, [Next]_vars PROVE UsesOK'
<1> TypeOK'
  BY TypeStep
<1>1. ASSUME NEW f \in Frames, FrameStep(f) PROVE UsesOK'
  <2>1. CASE GetUnavailable(f)
    BY <2>1, ReturnFrame, UsesQuiet, ObjectsType DEF GetUnavailable, TypeOK, FramesOK, FrameOK,
       IsHolder, OthersKeep, Prototyped, flags, maps, regVars, histVars
  <2>2. CASE GetReady(f)
    <3> DEFINE s == IF IsFactory THEN bundleServiceInstance[bnd[f]] ELSE Registered
    <3>1. s \in Objects \cup {Null} /\ s # Null /\ Return(f, s)
      BY <2>2, ObjectsType DEF GetReady, TypeOK
    <3>2. /\ OthersKeep(f) /\ UNCHANGED nullHeld /\ pc'[f] = "holding" /\ obj'[f] = s
          /\ path'[f] = path[f]
      BY <3>1, ReturnFrame
    <3>3. ~IsHolder(f) /\ IsHolder(f)'
      BY <2>2, <3>1, <3>2 DEF GetReady, FramesOK, FrameOK, flags, IsHolder, Prototyped
    <3>4. QED
      BY <2>2, <3>2, <3>3, UsesAdd DEF GetReady, flags
  <2>3. CASE GetRecursive(f)
    BY <2>3, ReturnFrame, UsesQuiet, ObjectsType DEF GetRecursive, NeedsFactory, WithEntry,
       TypeOK, FramesOK, FrameOK, IsHolder, OthersKeep, Prototyped, flags, maps, regVars, histVars
  <2>4. CASE GetEnterFactory(f)
    BY <2>4, GotoFrame, UsesQuiet, ObjectsType DEF GetEnterFactory, NeedsFactory, WithEntry,
       TypeOK, FramesOK, FrameOK, IsHolder, OthersKeep, Prototyped, flags, maps, regVars, histVars
  <2>5. CASE FactoryGetReturns(f)
    <3>1. OthersKeep(f) /\ ~IsHolder(f) /\ ~IsHolder(f)'
      BY <2>5, GotoFrame DEF FactoryGetReturns, FactoryMakes, FactoryFails, TypeOK, IsHolder,
         OthersKeep
    <3>2. UNCHANGED <<flags, maps, stopped, bnd, nullHeld>>
      BY <2>5 DEF FactoryGetReturns, FactoryMakes, FactoryFails, regVars, histVars
    <3>3. QED
      BY <3>1, <3>2, UsesQuiet DEF flags, maps
  <2>6. CASE FactoryGetThrows(f)
    BY <2>6, LeaveFrame, UsesQuiet, ObjectsType DEF FactoryGetThrows, TypeOK, FramesOK, FrameOK,
       IsHolder, OthersKeep, Prototyped, flags, maps, regVars, histVars
  <2>7. CASE GetStore(f)
    <3> DEFINE cached == bundleServiceInstance[bnd[f]]
               s == IF cached # Null THEN cached ELSE obj[f]
    <3>1. s \in Objects \cup {Null} /\ Return(f, s) /\ ~IsHolder(f) /\ ~Prototyped(f)
      BY <2>7 DEF GetStore, TypeOK, IsHolder, FramesOK, FrameOK
    <3>2. CASE s = Null
      <4>1. OthersKeep(f) /\ ~IsHolder(f)' /\ nullHeld \subseteq nullHeld'
        BY <3>1, <3>2, ReturnFrame DEF IsHolder
      <4>2. \A b \in Bundles : bundleServiceInstance'[b] = bundleServiceInstance[b]
        BY <2>7, <3>2 DEF GetStore, TypeOK
      <4>3. dependents' = WithEntry(bnd[f])
        BY <2>7, <3>2 DEF GetStore
      <4>4. \A b \in Bundles : \/ dependents'[b] = dependents[b]
                               \/ dependents[b] = NoEntry /\ dependents'[b] = 0
        BY <4>3 DEF WithEntry, TypeOK
      <4>5. QED
        BY <2>7, <3>1, <4>1, <4>2, <4>4, UsesQuiet DEF GetStore, flags
    <3>3. CASE s # Null
      <4>1. /\ OthersKeep(f) /\ UNCHANGED nullHeld /\ pc'[f] = "holding" /\ obj'[f] = s
            /\ path'[f] = path[f]
        BY <3>1, <3>3, ReturnFrame
      <4>2. IsHolder(f)'
        BY <2>7, <3>1, <3>3, <4>1 DEF GetStore, flags, IsHolder, Prototyped
      <4>3. dependents' = PlusOne(bnd[f])
        BY <2>7, <3>3 DEF GetStore
      <4>4. bundleServiceInstance' = [bundleServiceInstance EXCEPT ![bnd[f]] = s]
        BY <2>7 DEF GetStore
      <4>5. /\ bundleServiceInstance'[bnd[f]] = obj'[f]
            /\ \A b \in Bundles : bundleServiceInstance[b] # Null \/ b # bnd[f]
                                   => bundleServiceInstance'[b] = bundleServiceInstance[b]
        BY <4>1, <4>4 DEF TypeOK
      <4>6. QED
        BY <2>7, <3>1, <4>1, <4>2, <4>3, <4>5, UsesAdd DEF GetStore, flags
    <3>4. QED
      BY <3>2, <3>3
  <2>8. CASE Unget(f)
    <3>1. bnd[f] \in Bundles /\ dependents[bnd[f]] \in Nat \cup {NoEntry}
      BY DEF TypeOK
    <3>2. OthersKeep(f) /\ ~IsHolder(f)'
      <4>1. CASE DropUse(f, bnd[f])
        BY <3>1, <4>1, DropUseFrame DEF IsHolder
      <4>2. CASE Leave(f)
        BY <4>2, LeaveFrame DEF IsHolder
      <4>3. QED
        BY <2>8, <4>1, <4>2 DEF Unget
    <3>3. \A b \in Bundles \ {bnd[f]} : /\ bundleServiceInstance'[b] = bundleServiceInstance[b]
                                           /\ dependents'[b] = dependents[b]
      BY <2>8, <3>1, DropUseFrame DEF Unget, TypeOK
    <3>4. UNCHANGED <<bnd, scope, available, stopped, nullHeld>>
      BY <2>8 DEF Unget, flags, histVars
    <3>5. \/ dependents[bnd[f]] = 1 /\ dependents'[bnd[f]] = NoEntry
          \/ /\ dependents[bnd[f]] # 1
             /\ dependents'[bnd[f]] = IF dependents[bnd[f]] > 1 THEN dependents[bnd[f]] - 1
                                                                ELSE dependents[bnd[f]]
             /\ bundleServiceInstance'[bnd[f]] = bundleServiceInstance[bnd[f]]
      BY <2>8, <3>1, DropUseFrame DEF Unget, TypeOK
    <3>6. CASE IsHolder(f)
      BY <3>2, <3>3, <3>4, <3>5, <3>6, UsesRemove
    <3>7. CASE ~IsHolder(f)
      <4>1. bnd[f] \in nullHeld
        BY <2>8, <3>7 DEF Unget, IsHolder, FramesOK, FrameOK
      <4>2. QED
        BY <3>2, <3>3, <3>4, <3>7, <4>1, UsesQuiet
    <3>8. QED
      BY <3>6, <3>7
  <2>9. CASE UngetCall(f)
    BY <2>9, LeaveFrame, UsesQuiet, ObjectsType DEF UngetCall, TypeOK, FramesOK, FrameOK,
       IsHolder, OthersKeep, Prototyped, flags, maps, regVars, histVars
  <2>10. CASE ProtoFetch(f)
    BY <2>10, GotoFrame, UsesQuiet, ObjectsType DEF ProtoFetch, TypeOK, FramesOK, FrameOK,
       IsHolder, OthersKeep, Prototyped, flags, maps, regVars, histVars
  <2>11. CASE ProtoFactoryReturns(f)
    <3>1. OthersKeep(f) /\ ~IsHolder(f) /\ ~IsHolder(f)'
      BY <2>11, GotoFrame DEF ProtoFactoryReturns, FactoryMakes, FactoryFails, TypeOK, IsHolder,
         OthersKeep
    <3>2. UNCHANGED <<flags, maps, stopped, bnd, nullHeld>>
      BY <2>11 DEF ProtoFactoryReturns, FactoryMakes, FactoryFails, regVars, histVars
    <3>3. QED
      BY <3>1, <3>2, UsesQuiet DEF flags, maps
  <2>12. CASE ProtoFactoryThrows(f)
    BY <2>12, LeaveFrame, UsesQuiet, ObjectsType DEF ProtoFactoryThrows, TypeOK, FramesOK,
       FrameOK, IsHolder, OthersKeep, Prototyped, flags, maps, regVars, histVars
  <2>13. CASE ProtoStore(f)
    BY <2>13, ReturnFrame, UsesQuiet, ObjectsType DEF ProtoStore, TypeOK, FramesOK, FrameOK,
       IsHolder, OthersKeep, Prototyped, flags, maps, regVars, histVars
  <2>14. CASE ProtoUnget(f)
    <3>1. CASE Leave(f)
      BY <2>14, <3>1, LeaveFrame, UsesQuiet DEF ProtoUnget, IsHolder, flags, maps, regVars, histVars
    <3>2. CASE Goto(f, "protoUngetCall") /\ UNCHANGED <<obj, path>>
      BY <2>14, <3>2, GotoFrame, UsesQuiet DEF ProtoUnget, IsHolder, OthersKeep, flags, maps,
         regVars, histVars
    <3>3. QED
      BY <2>14, <3>1, <3>2 DEF ProtoUnget
  <2>15. CASE ProtoUngetCall(f)
    BY <2>15, GotoFrame, UsesQuiet, ObjectsType DEF ProtoUngetCall, TypeOK, FramesOK, FrameOK,
       IsHolder, OthersKeep, Prototyped, flags, maps, regVars, histVars
  <2>16. CASE ProtoErase(f)
    BY <2>16, LeaveFrame, UsesQuiet, ObjectsType DEF ProtoErase, TypeOK, FramesOK, FrameOK,
       IsHolder, OthersKeep, Prototyped, flags, maps, regVars, histVars
  <2>17. CASE UnregisterStart(f)
    BY <2>17, GotoFrame, UsesQuiet, ObjectsType DEF UnregisterStart, TypeOK, FramesOK, FrameOK,
       IsHolder, OthersKeep, Prototyped, flags, maps, regVars, histVars
  <2>18. CASE UnregisterCas(f)
    BY <2>18, GotoFrame, UsesQuiet, ObjectsType DEF UnregisterCas, TypeOK, FramesOK, FrameOK,
       IsHolder, OthersKeep, Prototyped, flags, maps, regVars, histVars
  <2>19. CASE UnregisterEvent(f)
    BY <2>19, GotoFrame, UsesQuiet, ObjectsType DEF UnregisterEvent, TypeOK, FramesOK, FrameOK,
       IsHolder, OthersKeep, Prototyped, flags, maps, regVars, histVars
  <2>20. CASE UnregisterMark(f)
    BY <2>20, GotoFrame, UsesQuiet, ObjectsType DEF UnregisterMark, TypeOK, FramesOK, FrameOK,
       IsHolder, OthersKeep, Prototyped, flags, maps, regVars, histVars
  <2>21. CASE UnregisterClear(f)
    BY <2>21, GotoFrame, UsesQuiet, ObjectsType DEF UnregisterClear, TypeOK, FramesOK, FrameOK,
       IsHolder, OthersKeep, Prototyped, flags, maps, regVars, histVars
  <2>22. CASE Crash(f)
    <3>1. Fault(f)
      BY <2>22 DEF Crash
    <3>2. UNCHANGED <<flags, maps, stopped, bnd, obj, path, nullHeld>>
      BY <3>1 DEF Fault, regVars, histVars
    <3>3. \A g \in Frames \ {f} : pc'[g] = pc[g] /\ pc'[f] = "fault"
      BY <3>1, GotoFrame DEF Fault
    <3>4. CASE IsHolder(f)
      BY <2>22, <3>4 DEF Crash, NullMap, NullFactory, NullService, NullEntry, IsHolder
    <3>5. CASE ~IsHolder(f)
      <4>1. OthersKeep(f) /\ ~IsHolder(f)'
        BY <3>1, <3>2, GotoFrame DEF Fault, OthersKeep, IsHolder
      <4>2. QED
        BY <3>2, <3>5, <4>1, UsesQuiet DEF flags, maps
    <3>6. QED
      BY <3>4, <3>5
  <2>23. QED
    BY <1>1, <2>1, <2>2, <2>3, <2>4, <2>5, <2>6, <2>7, <2>8, <2>9, <2>10, <2>11, <2>12, <2>13,
       <2>14, <2>15, <2>16, <2>17, <2>18, <2>19, <2>20, <2>21, <2>22 DEF FrameStep
<1>2. ASSUME NEW f \in Frames, NEW b \in Bundles, NEW p \in Paths, GetStart(f, b, p) PROVE UsesOK'
  <2>1. OthersKeep(f) /\ ~IsHolder(f)
    BY <1>2, GotoFrame DEF GetStart, TypeOK, IsHolder, OthersKeep
  <2>2. ~IsHolder(f)' /\ nullHeld \subseteq nullHeld'
    BY <1>2, GotoFrame DEF GetStart, TypeOK, IsHolder
  <2>3. UNCHANGED <<flags, maps, stopped>> /\ \A g \in Frames \ {f} : bnd'[g] = bnd[g]
    BY <1>2 DEF GetStart, TypeOK, regVars
  <2>4. QED
    BY <2>1, <2>2, <2>3, UsesQuiet DEF flags, maps
<1>3. ASSUME NEW f \in Frames, NEW b \in Bundles, NEW p \in Paths, ProtoGetStart(f, b, p)
      PROVE UsesOK'
  <2>1. OthersKeep(f) /\ ~IsHolder(f) /\ ~IsHolder(f)'
    BY <1>3, GotoFrame DEF ProtoGetStart, TypeOK, IsHolder, OthersKeep
  <2>2. UNCHANGED <<flags, maps, stopped, nullHeld>> /\ \A g \in Frames \ {f} : bnd'[g] = bnd[g]
    BY <1>3 DEF ProtoGetStart, TypeOK, regVars, histVars
  <2>3. QED
    BY <2>1, <2>2, UsesQuiet DEF flags, maps
<1>4. ASSUME NEW f \in Frames, NEW b \in Bundles, StopUser(f, b) PROVE UsesOK'
  <2>1. OthersKeep(f) /\ ~IsHolder(f) /\ ~IsHolder(f)'
    <3>1. CASE DropUse(f, b)
      BY <1>4, <3>1, DropUseFrame DEF StopUser, IsHolder
    <3>2. CASE UNCHANGED <<obj, path, pc>>
      BY <1>4, <3>2 DEF StopUser, IsHolder, OthersKeep
    <3>3. QED
      BY <1>4, <3>1, <3>2 DEF StopUser
  <2>2. \A c \in Bundles \ {b} : /\ bundleServiceInstance'[c] = bundleServiceInstance[c]
                                  /\ dependents'[c] = dependents[c]
    BY <1>4, DropUseFrame DEF StopUser, TypeOK
  <2>3. /\ UNCHANGED <<flags, nullHeld>> /\ stopped' = stopped \cup {b}
        /\ \A g \in Frames \ {f} : bnd'[g] = bnd[g]
    BY <1>4 DEF StopUser, TypeOK, histVars
  <2>4. QED
    BY <2>1, <2>2, <2>3, UsesQuiet DEF flags
<1>5. ASSUME NEW f \in Frames, NEW o \in todo[f], UnregisterUnget(f, o) PROVE UsesOK'
  <2>1. UNCHANGED <<flags, maps, stopped, pc, bnd, path, obj, nullHeld>>
    BY <1>5 DEF UnregisterUnget, regVars
  <2>2. QED
    BY <2>1 DEF UsesOK, Counted, Holders, Prototyped, IsFactory, flags, maps
<1>6. CASE UNCHANGED vars
  BY <1>6 DEF vars, frameVars, UsesOK, Counted, Holders, Prototyped, IsFactory, flags, maps,
     regVars, histVars
<1>7. QED
  BY <1>1, <1>2, <1>3, <1>4, <1>5, <1>6 DEF Next, Ended

-----------------------------------------------------------------------------
(* Unregister gives everything back. *)

\* A step of a frame that is not at work in Unregister.
LEMMA UnregKept ==
    ASSUME UnregInv, NEW f \in Frames, OthersKeep(f), UNCHANGED flags, pc'[f] \notin UnregPCs
    PROVE  UnregInv'
<1>1. \A g \in Frames : pc'[g] \in UnregPCs => pc[g] \in UnregPCs /\ pc'[g] = pc[g]
  BY DEF OthersKeep
<1>2. \A g \in Frames : pc'[g] = "unregUnget" => pc[g] = "unregUnget"
  BY <1>1 DEF UnregPCs
<1>3. service' = service /\ available' = available /\ unregistering' = unregistering
  BY DEF flags
<1>4. QED
  BY <1>1, <1>2, <1>3 DEF UnregInv

\* What a step of frame f must do for the objects that are owed.
LEMMA ReturnKept ==
    ASSUME TypeOK, TypeOK', FramesOK, ReturnInv, NEW f \in Frames, OthersKeep(f),
           \A g \in Frames \ {f} : todo'[g] = todo[g], UNCHANGED scope,
           \A o \in Objects : released'[o] >= released[o],
           pc'[f] = "protoErase" => released'[obj'[f]] >= 1,
           owed' # {} => IsFactory,
           \A o \in owed' : o \in owed \/ (available' /\ IsStored(o)'),
           \A o \in owed : Gives(f, o) => released'[o] >= 1 \/ Gives(f, o)',
           \A o \in owed : Lists(f, o) => released'[o] >= 1 \/ Lists(f, o)',
           \A o \in owed : available /\ IsStored(o) => Accounted(o)'
    PROVE  ReturnInv'
<1>1. owed' # {} => IsFactory'
  BY DEF IsFactory
<1>2. \A o \in Objects : released[o] >= 1 => released'[o] >= 1
  BY DEF TypeOK
<1>3. ASSUME NEW g \in Frames, pc'[g] = "protoErase" PROVE released'[obj'[g]] >= 1
  <2>1. CASE g = f
    BY <1>3, <2>1
  <2>2. CASE g # f
    <3>1. pc[g] = "protoErase" /\ obj'[g] = obj[g]
      BY <1>3, <2>2 DEF OthersKeep
    <3>2. obj[g] \in Objects
      BY <3>1 DEF FramesOK, FrameOK, TypeOK
    <3>3. released[obj[g]] >= 1
      BY <3>1 DEF ReturnInv
    <3>4. QED
      BY <1>2, <3>1, <3>2, <3>3
  <2>3. QED
    BY <2>1, <2>2
<1>4. ASSUME NEW o \in owed PROVE Accounted(o)'
  <2>1. o \in Objects /\ Accounted(o)
    BY DEF TypeOK, ReturnInv
  <2>2. CASE released[o] >= 1
    BY <1>2, <2>1, <2>2 DEF Accounted, Returned
  <2>3. ASSUME NEW g \in Frames, Gives(g, o) PROVE Returned(o)'
    <3>1. g # f => Gives(g, o)'
      BY <2>3 DEF Gives, OthersKeep
    <3>2. QED
      BY <2>3, <3>1 DEF Returned
  <2>4. ASSUME NEW g \in Frames, Lists(g, o) PROVE released'[o] >= 1 \/ Lists(g, o)'
    <3>1. g # f => Lists(g, o)'
      BY <2>4 DEF Lists, OthersKeep
    <3>2. QED
      BY <2>4, <3>1
  <2>5. QED
    BY <2>1, <2>2, <2>3, <2>4 DEF Accounted, Returned
<1>5. \A o \in owed' : Accounted(o)'
  BY <1>4 DEF Accounted
<1>6. QED
  BY <1>1, <1>3, <1>5 DEF ReturnInv

\* A step that gives nothing back and stores nothing.
LEMMA ReturnQuiet ==
    ASSUME TypeOK, TypeOK', FramesOK, ReturnInv, NEW f \in Frames, OthersKeep(f),
           UNCHANGED <<scope, available, bundleServiceInstance, prototypeServiceInstances, todo, released, owed>>,
           pc[f] \notin {"ungetCall", "protoUngetCall", "unregUnget"}, pc'[f] # "protoErase"
    PROVE  ReturnInv'
<1>1. \A o \in Objects : released'[o] >= released[o]
  BY DEF TypeOK
<1>2. \A o \in owed : ~ Gives(f, o) /\ ~ Lists(f, o)
  BY DEF Gives, Lists
<1>3. \A o \in owed : available /\ IsStored(o) => Accounted(o)'
  BY DEF Accounted, IsStored
<1>4. owed' # {} => IsFactory
  BY DEF ReturnInv
<1>5. QED
  BY <1>1, <1>2, <1>3, <1>4, ReturnKept

\* A bundle's last use is dropped: the frame that drops it gives the object back.
LEMMA ReturnDrop ==
    ASSUME TypeOK, TypeOK', FramesOK, ReturnInv, UnregInv, NEW f \in Frames, NEW b \in Bundles, DropUse(f, b),
           UNCHANGED <<flags, prototypeServiceInstances, todo, released, owed>>,
           pc[f] \in {"idle", "holding"}
    PROVE  ReturnInv' /\ UnregInv'
<1>1. /\ OthersKeep(f) /\ pc'[f] \notin UnregPCs /\ pc'[f] # "protoErase"
      /\ bundleServiceInstance' = [bundleServiceInstance EXCEPT ![b] = Null]
  BY DropUseFrame DEF UnregPCs
<1>2. \A o \in Objects : released'[o] >= released[o]
  BY DEF TypeOK
<1>3. \A o \in owed : ~ Gives(f, o) /\ ~ Lists(f, o)
  BY DEF Gives, Lists
<1>4. ASSUME NEW o \in owed, available, IsStored(o) PROVE Accounted(o)'
  <2>1. service /\ available' /\ o # Null
    BY <1>4, ObjectsType DEF UnregInv, flags, TypeOK
  <2>2. PICK c \in Bundles : bundleServiceInstance[c] = o \/ o \in prototypeServiceInstances[c]
    BY <1>4 DEF IsStored
  <2>3. CASE c = b /\ bundleServiceInstance[c] = o
    <3>1. Goto(f, "ungetCall") /\ obj' = [obj EXCEPT ![f] = o]
      BY <2>1, <2>3 DEF DropUse
    <3>2. pc'[f] = "ungetCall" /\ obj'[f] = o
      BY <3>1, GotoFrame DEF TypeOK
    <3>3. QED
      BY <3>2 DEF Accounted, Returned, Gives
  <2>4. CASE c # b /\ bundleServiceInstance[c] = o
    <3>1. bundleServiceInstance'[c] = o
      BY <1>1, <2>4 DEF TypeOK
    <3>2. QED
      BY <2>1, <3>1 DEF Accounted, IsStored
  <2>5. CASE o \in prototypeServiceInstances[c]
    BY <2>1, <2>5 DEF Accounted, IsStored
  <2>6. QED
    BY <2>2, <2>3, <2>4, <2>5
<1>5. owed' # {} => IsFactory
  BY DEF ReturnInv
<1>6. UnregInv'
  BY <1>1, UnregKept
<1>7. QED
  BY <1>1, <1>2, <1>3, <1>4, <1>5, <1>6, ReturnKept DEF flags

\* Every step keeps one Unregister at work and accounts for every object that is owed.
LEMMA ReturnStep ==
    ASSUME TypeOK, FramesOK, SingletonOK, UnregInv, ReturnInv, [Next]_vars PROVE UnregInv' /\ ReturnInv'
<1> DEFINE P == UnregInv' /\ ReturnInv'
<1> TypeOK'
  BY TypeStep
<1>1. ASSUME NEW f \in Frames, OthersKeep(f), pc[f] \notin {"ungetCall", "protoUngetCall", "unregUnget"},
             pc'[f] \notin UnregPCs \cup {"protoErase"},
             UNCHANGED <<flags, bundleServiceInstance, prototypeServiceInstances, todo, released, owed>>
      PROVE  P
  <2>1. UnregInv'
    BY <1>1, UnregKept
  <2>2. ReturnInv'
    BY <1>1, ReturnQuiet DEF flags
  <2>3. QED
    BY <2>1, <2>2
<1>2. ASSUME NEW f \in Frames, GetUnavailable(f) PROVE P
  <2>1. OthersKeep(f) /\ pc'[f] \in {"idle", "holding"} /\ pc[f] = "getLocked"
    BY <1>2, ReturnFrame, ObjectsType DEF GetUnavailable
  <2>2. UNCHANGED <<flags, bundleServiceInstance, prototypeServiceInstances, todo, released, owed>>
    BY <1>2 DEF GetUnavailable, regVars, maps
  <2>3. QED
    BY <1>1, <2>1, <2>2 DEF UnregPCs
<1>3. ASSUME NEW f \in Frames, GetReady(f) PROVE P
  <2> DEFINE s == IF IsFactory THEN bundleServiceInstance[bnd[f]] ELSE Registered
  <2>1. s \in Objects \cup {Null} /\ Return(f, s) /\ pc[f] = "getLocked"
    BY <1>3, ObjectsType DEF GetReady, TypeOK
  <2>2. OthersKeep(f) /\ pc'[f] \in {"idle", "holding"}
    BY <2>1, ReturnFrame
  <2>3. UNCHANGED <<flags, bundleServiceInstance, prototypeServiceInstances, todo, released, owed>>
    BY <1>3 DEF GetReady
  <2>4. QED
    BY <1>1, <2>1, <2>2, <2>3 DEF UnregPCs
<1>4. ASSUME NEW f \in Frames, GetRecursive(f) PROVE P
  <2>1. OthersKeep(f) /\ pc'[f] \in {"idle", "holding"} /\ pc[f] = "getLocked"
    BY <1>4, ReturnFrame, ObjectsType DEF GetRecursive, NeedsFactory
  <2>2. UNCHANGED <<flags, bundleServiceInstance, prototypeServiceInstances, todo, released, owed>>
    BY <1>4 DEF GetRecursive
  <2>3. QED
    BY <1>1, <2>1, <2>2 DEF UnregPCs
<1>5. ASSUME NEW f \in Frames, GetEnterFactory(f) PROVE P
  <2>1. OthersKeep(f) /\ pc'[f] = "factoryGet" /\ pc[f] = "getLocked"
    BY <1>5, GotoFrame DEF GetEnterFactory, NeedsFactory, OthersKeep
  <2>2. UNCHANGED <<flags, bundleServiceInstance, prototypeServiceInstances, todo, released, owed>>
    BY <1>5 DEF GetEnterFactory, histVars
  <2>3. QED
    BY <1>1, <2>1, <2>2 DEF UnregPCs
<1>6. ASSUME NEW f \in Frames, FactoryGetReturns(f) \/ ProtoFactoryReturns(f) PROVE P
  <2>1. PICK l \in {"getStore", "protoStore"} : Goto(f, l)
    BY <1>6 DEF FactoryGetReturns, ProtoFactoryReturns
  <2>2. /\ pc[f] \in {"factoryGet", "protoFactory"} /\ path' = path /\ (FactoryMakes(f) \/ FactoryFails)
        /\ UNCHANGED <<marks, bnd, path, todo, histVars>>
    BY <1>6 DEF FactoryGetReturns, ProtoFactoryReturns
  <2>3. /\ \A g \in Frames \ {f} : obj'[g] = obj[g]
        /\ UNCHANGED <<flags, bundleServiceInstance, prototypeServiceInstances>>
    BY <2>2 DEF FactoryMakes, FactoryFails, TypeOK, maps, regVars
  <2>4. OthersKeep(f) /\ pc'[f] = l
    BY <2>1, <2>2, <2>3, GotoFrame DEF OthersKeep
  <2>5. QED
    BY <1>1, <2>2, <2>3, <2>4 DEF UnregPCs, histVars
<1>7. ASSUME NEW f \in Frames, FactoryGetThrows(f) \/ ProtoFactoryThrows(f) PROVE P
  <2>1. OthersKeep(f) /\ pc'[f] = "idle" /\ pc[f] \in {"factoryGet", "protoFactory"}
    BY <1>7, LeaveFrame DEF FactoryGetThrows, ProtoFactoryThrows
  <2>2. UNCHANGED <<flags, bundleServiceInstance, prototypeServiceInstances, todo, released, owed>>
    BY <1>7 DEF FactoryGetThrows, ProtoFactoryThrows, regVars, maps, histVars
  <2>3. QED
    BY <1>1, <2>1, <2>2 DEF UnregPCs
<1>8. ASSUME NEW f \in Frames, GetStore(f) PROVE P
  <2> DEFINE b == bnd[f]
             s == IF bundleServiceInstance[b] # Null THEN bundleServiceInstance[b] ELSE obj[f]
  <2>1. s \in Objects \cup {Null} /\ Return(f, s) /\ pc[f] = "getStore" /\ b \in Bundles /\ IsFactory
    BY <1>8 DEF GetStore, TypeOK, FramesOK, FrameOK
  <2>2. OthersKeep(f) /\ pc'[f] \in {"idle", "holding"}
    BY <2>1, ReturnFrame
  <2>3. /\ UNCHANGED <<flags, prototypeServiceInstances, todo, released>>
        /\ bundleServiceInstance' = [bundleServiceInstance EXCEPT ![b] = s]
        /\ owed' = IF s # Null /\ available THEN owed \cup {s} ELSE owed
    BY <1>8 DEF GetStore
  <2>4. \A c \in Bundles : bundleServiceInstance[c] # Null => bundleServiceInstance'[c] = bundleServiceInstance[c]
    BY <2>3 DEF TypeOK
  <2>5. ASSUME NEW o \in owed, available, IsStored(o) PROVE Accounted(o)'
    <3>1. o # Null /\ available'
      BY <2>3, <2>5, ObjectsType DEF TypeOK, flags
    <3>2. PICK c \in Bundles : bundleServiceInstance[c] = o \/ o \in prototypeServiceInstances[c]
      BY <2>5 DEF IsStored
    <3>3. bundleServiceInstance'[c] = o \/ o \in prototypeServiceInstances'[c]
      BY <2>3, <2>4, <3>1, <3>2
    <3>4. QED
      BY <3>1, <3>3 DEF Accounted, IsStored
  <2>6. \A o \in owed' : o \in owed \/ (available' /\ IsStored(o)')
    <3>1. bundleServiceInstance'[b] = s
      BY <2>1, <2>3 DEF TypeOK
    <3>2. QED
      BY <2>1, <2>3, <3>1 DEF IsStored, flags
  <2>7. \A o \in owed : ~ Gives(f, o) /\ ~ Lists(f, o)
    BY <2>1 DEF Gives, Lists
  <2>8. \A o \in Objects : released'[o] >= released[o]
    BY <2>3 DEF TypeOK
  <2>9. ReturnInv'
    BY <2>1, <2>2, <2>3, <2>5, <2>6, <2>7, <2>8, ReturnKept DEF flags
  <2>10. UnregInv'
    BY <2>2, <2>3, UnregKept DEF UnregPCs
  <2>11. QED
    BY <2>9, <2>10
<1>9. ASSUME NEW f \in Frames, Unget(f) PROVE P
  <2>1. /\ pc[f] = "holding" /\ bnd[f] \in Bundles
        /\ UNCHANGED <<flags, prototypeServiceInstances, todo, released, owed>>
    BY <1>9 DEF Unget, TypeOK, histVars
  <2>2. CASE DropUse(f, bnd[f])
    BY <2>1, <2>2, ReturnDrop
  <2>3. CASE Leave(f) /\ UNCHANGED bundleServiceInstance
    BY <1>1, <2>1, <2>3, LeaveFrame DEF UnregPCs
  <2>4. QED
    BY <1>9, <2>2, <2>3 DEF Unget
<1>10. ASSUME NEW f \in Frames, NEW b \in Bundles, StopUser(f, b) PROVE P
  BY <1>10, ReturnDrop DEF StopUser, histVars
<1>11. ASSUME NEW f \in Frames, UngetCall(f) \/ ProtoUngetCall(f) PROVE P
  <2>1. /\ pc[f] \in {"ungetCall", "protoUngetCall"} /\ released' = [released EXCEPT ![obj[f]] = @ + 1]
        /\ UNCHANGED <<flags, bundleServiceInstance, prototypeServiceInstances, todo, owed>>
    BY <1>11 DEF UngetCall, ProtoUngetCall, regVars, maps
  <2>2. OthersKeep(f) /\ (pc'[f] = "idle" \/ (pc'[f] = "protoErase" /\ obj'[f] = obj[f]))
    <3>1. CASE UngetCall(f)
      BY <3>1, LeaveFrame DEF UngetCall
    <3>2. CASE ProtoUngetCall(f)
      BY <3>2, GotoFrame DEF ProtoUngetCall, OthersKeep
    <3>3. QED
      BY <1>11, <3>1, <3>2
  <2>3. obj[f] \in Objects
    BY <2>1 DEF FramesOK, FrameOK, TypeOK
  <2>4. released'[obj[f]] >= 1 /\ \A o \in Objects : released'[o] >= released[o]
    BY <2>1, <2>3 DEF TypeOK
  <2>5. \A o \in owed : (Gives(f, o) => released'[o] >= 1) /\ ~ Lists(f, o)
    BY <2>1, <2>4 DEF Gives, Lists
  <2>6. \A o \in owed : available /\ IsStored(o) => Accounted(o)'
    BY <2>1 DEF Accounted, IsStored, flags
  <2>7. owed' # {} => IsFactory
    BY <2>1 DEF ReturnInv
  <2>8. ReturnInv'
    BY <2>1, <2>2, <2>4, <2>5, <2>6, <2>7, ReturnKept DEF flags
  <2>9. UnregInv'
    BY <2>1, <2>2, UnregKept DEF UnregPCs
  <2>10. QED
    BY <2>8, <2>9
<1>12. ASSUME NEW f \in Frames, ProtoFetch(f) PROVE P
  <2>1. OthersKeep(f) /\ pc'[f] = "protoFactory" /\ pc[f] = "protoFetch"
    BY <1>12, GotoFrame DEF ProtoFetch, OthersKeep
  <2>2. UNCHANGED <<flags, bundleServiceInstance, prototypeServiceInstances, todo, released, owed>>
    BY <1>12 DEF ProtoFetch, regVars, maps, histVars
  <2>3. QED
    BY <1>1, <2>1, <2>2 DEF UnregPCs
<1>13. ASSUME NEW f \in Frames, ProtoStore(f) PROVE P
  <2> DEFINE b == bnd[f]
  <2>1. obj[f] \in Objects \cup {Null} /\ pc[f] = "protoStore" /\ b \in Bundles /\ IsFactory
    BY <1>13 DEF ProtoStore, TypeOK, FramesOK, FrameOK, Prototyped, IsFactory
  <2>2. OthersKeep(f) /\ pc'[f] \in {"idle", "holding"}
    BY <1>13, <2>1, ReturnFrame DEF ProtoStore
  <2>3. /\ UNCHANGED <<flags, bundleServiceInstance, todo, released>>
        /\ prototypeServiceInstances' = [prototypeServiceInstances EXCEPT ![b] = @ \cup {obj[f]}]
        /\ owed' = IF obj[f] # Null /\ available THEN owed \cup {obj[f]} ELSE owed
    BY <1>13 DEF ProtoStore
  <2>4. /\ \A c \in Bundles : prototypeServiceInstances[c] \subseteq prototypeServiceInstances'[c]
        /\ obj[f] \in prototypeServiceInstances'[b]
    BY <2>1, <2>3 DEF TypeOK
  <2>5. \A o \in owed : available /\ IsStored(o) => Accounted(o)'
    BY <2>3, <2>4 DEF Accounted, IsStored, flags
  <2>6. \A o \in owed' : o \in owed \/ (available' /\ IsStored(o)')
    BY <2>1, <2>3, <2>4 DEF IsStored, flags
  <2>7. \A o \in owed : ~ Gives(f, o) /\ ~ Lists(f, o)
    BY <2>1 DEF Gives, Lists
  <2>8. \A o \in Objects : released'[o] >= released[o]
    BY <2>3 DEF TypeOK
  <2>9. ReturnInv'
    BY <2>1, <2>2, <2>3, <2>5, <2>6, <2>7, <2>8, ReturnKept DEF flags
  <2>10. UnregInv'
    BY <2>2, <2>3, UnregKept DEF UnregPCs
  <2>11. QED
    BY <2>9, <2>10
<1>14. ASSUME NEW f \in Frames, ProtoUnget(f) PROVE P
  <2>1. OthersKeep(f) /\ pc'[f] \in {"idle", "protoUngetCall"} /\ pc[f] = "holding"
    <3>1. CASE Leave(f)
      BY <1>14, <3>1, LeaveFrame DEF ProtoUnget
    <3>2. CASE Goto(f, "protoUngetCall") /\ UNCHANGED <<obj, path>>
      BY <1>14, <3>2, GotoFrame DEF ProtoUnget, OthersKeep
    <3>3. QED
      BY <1>14, <3>1, <3>2 DEF ProtoUnget
  <2>2. UNCHANGED <<flags, bundleServiceInstance, prototypeServiceInstances, todo, released, owed>>
    BY <1>14 DEF ProtoUnget, regVars, maps, histVars
  <2>3. QED
    BY <1>1, <2>1, <2>2 DEF UnregPCs
<1>15. ASSUME NEW f \in Frames, ProtoErase(f) PROVE P
  <2>1. /\ OthersKeep(f) /\ pc'[f] = "idle" /\ pc[f] = "protoErase" /\ bnd[f] \in Bundles
        /\ UNCHANGED <<flags, bundleServiceInstance, todo, released, owed>>
    BY <1>15, LeaveFrame DEF ProtoErase, histVars, TypeOK
  <2>2. \A c \in Bundles : prototypeServiceInstances[c] \ {obj[f]} \subseteq prototypeServiceInstances'[c]
    BY <1>15, <2>1 DEF ProtoErase, TypeOK
  <2>3. released'[obj[f]] >= 1
    BY <2>1 DEF ReturnInv
  <2>4. \A o \in owed : available /\ IsStored(o) => Accounted(o)'
    BY <2>1, <2>2, <2>3 DEF Accounted, Returned, IsStored, flags
  <2>5. \A o \in owed : ~ Gives(f, o) /\ ~ Lists(f, o)
    BY <2>1 DEF Gives, Lists
  <2>6. \A o \in Objects : released'[o] >= released[o]
    BY <2>1 DEF TypeOK
  <2>7. owed' # {} => IsFactory
    BY <2>1 DEF ReturnInv
  <2>8. ReturnInv'
    BY <2>1, <2>4, <2>5, <2>6, <2>7, ReturnKept DEF flags
  <2>9. UnregInv'
    BY <2>1, UnregKept DEF UnregPCs
  <2>10. QED
    BY <2>8, <2>9
<1>16. ASSUME NEW f \in Frames, UnregisterStart(f) PROVE P
  <2>1. OthersKeep(f) /\ pc'[f] = "unregCas" /\ pc[f] = "idle"
    BY <1>16, GotoFrame DEF UnregisterStart, OthersKeep
  <2>2. UNCHANGED <<flags, bundleServiceInstance, prototypeServiceInstances, todo, released, owed>>
    BY <1>16 DEF UnregisterStart, regVars, maps, histVars
  <2>3. QED
    BY <1>1, <2>1, <2>2 DEF UnregPCs
<1>17. ASSUME NEW f \in Frames, UnregisterCas(f) PROVE P
  <2>1. /\ OthersKeep(f) /\ pc'[f] \in {"idle", "unregEvent", "unregMark"} /\ pc[f] = "unregCas"
        /\ pc'[f] = "unregEvent" => service /\ ~unregistering
        /\ pc'[f] = "unregMark" => ~service
    BY <1>17, GotoFrame DEF UnregisterCas, OthersKeep
  <2>2. /\ UNCHANGED <<scope, available, service, bundleServiceInstance, prototypeServiceInstances, todo, released, owed>>
        /\ unregistering'
    BY <1>17 DEF UnregisterCas, maps, histVars
  <2>3. ReturnInv'
    BY <2>1, <2>2, ReturnQuiet
  <2>4. \A g \in Frames \ {f} : pc'[g] = pc[g]
    BY <2>1 DEF OthersKeep
  <2>5. /\ available' => service'
        /\ service' => \A g \in Frames : pc'[g] \in UnregPCs => unregistering'
        /\ \A g \in Frames : pc'[g] = "unregUnget" => service'
    BY <2>1, <2>2, <2>4 DEF UnregInv
  <2>6. service' => \A g, h \in Frames : pc'[g] \in UnregPCs /\ pc'[h] \in UnregPCs => g = h
    BY <2>1, <2>2, <2>4 DEF UnregInv, UnregPCs
  <2>7. QED
    BY <2>3, <2>5, <2>6 DEF UnregInv
<1>18. ASSUME NEW f \in Frames, UnregisterEvent(f) PROVE P
  <2>1. OthersKeep(f) /\ pc'[f] = "unregMark" /\ pc[f] = "unregEvent"
    BY <1>18, GotoFrame DEF UnregisterEvent, OthersKeep
  <2>2. UNCHANGED <<flags, bundleServiceInstance, prototypeServiceInstances, todo, released, owed>>
    BY <1>18 DEF UnregisterEvent, regVars, maps, histVars
  <2>3. ReturnInv'
    BY <2>1, <2>2, ReturnQuiet DEF flags
  <2>4. \A g \in Frames : /\ pc'[g] \in UnregPCs => pc[g] \in UnregPCs
                          /\ pc'[g] = "unregUnget" => pc[g] = "unregUnget"
    BY <2>1 DEF OthersKeep, UnregPCs
  <2>5. QED
    BY <2>2, <2>3, <2>4 DEF UnregInv, flags
<1>19. ASSUME NEW f \in Frames, UnregisterMark(f) PROVE P
  <2>1. OthersKeep(f) /\ pc'[f] = "unregUnget" /\ pc[f] = "unregMark"
    BY <1>19, GotoFrame DEF UnregisterMark, OthersKeep
  <2>2. /\ service /\ ~available' /\ todo' = [todo EXCEPT ![f] = IF IsFactory THEN Stored ELSE {}]
        /\ UNCHANGED <<scope, unregistering, service, released, owed>>
    BY <1>19 DEF UnregisterMark, histVars
  <2>3. \A g \in Frames : pc'[g] \in UnregPCs => pc[g] \in UnregPCs
    BY <2>1 DEF OthersKeep, UnregPCs
  <2>4. UnregInv'
    BY <2>2, <2>3 DEF UnregInv
  <2>5. ASSUME NEW o \in owed, IsStored(o) PROVE Accounted(o)'
    <3>1. IsFactory /\ o \in Objects
      BY DEF ReturnInv, TypeOK
    <3>2. o \in Stored
      BY <2>5, <3>1, ObjectsType DEF IsStored, Stored
    <3>3. o \in todo'[f]
      BY <2>2, <3>1, <3>2 DEF TypeOK
    <3>4. QED
      BY <2>1, <3>3 DEF Accounted, Lists
  <2>6. \A o \in owed : ~ Gives(f, o) /\ ~ Lists(f, o)
    BY <2>1 DEF Gives, Lists
  <2>7. (\A o \in Objects : released'[o] >= released[o]) /\ \A g \in Frames \ {f} : todo'[g] = todo[g]
    BY <2>2 DEF TypeOK
  <2>8. owed' # {} => IsFactory
    BY <2>2 DEF ReturnInv
  <2>9. ReturnInv'
    BY <2>1, <2>2, <2>5, <2>6, <2>7, <2>8, ReturnKept
  <2>10. QED
    BY <2>4, <2>9
<1>20. ASSUME NEW f \in Frames, NEW o \in todo[f], UnregisterUnget(f, o) PROVE P
  <2>1. /\ OthersKeep(f) /\ pc' = pc /\ pc[f] = "unregUnget" /\ obj' = obj
        /\ UNCHANGED <<flags, bundleServiceInstance, prototypeServiceInstances, owed>>
        /\ todo' = [todo EXCEPT ![f] = @ \ {o}]
        /\ released' = IF o # Null THEN [released EXCEPT ![o] = @ + 1] ELSE released
    BY <1>20 DEF UnregisterUnget, OthersKeep, regVars, maps
  <2>2. o \in Objects \cup {Null} /\ ~available
    BY <2>1 DEF TypeOK, FramesOK, FrameOK
  <2>3. /\ \A x \in Objects : released'[x] >= released[x]
        /\ o # Null => released'[o] >= 1
        /\ \A g \in Frames \ {f} : todo'[g] = todo[g]
        /\ todo'[f] = todo[f] \ {o}
    BY <2>1, <2>2 DEF TypeOK
  <2>4. \A x \in owed : x # Null
    BY ObjectsType DEF TypeOK
  <2>5. \A x \in owed : Lists(f, x) => released'[x] >= 1 \/ Lists(f, x)'
    BY <2>1, <2>3, <2>4 DEF Lists
  <2>6. \A x \in owed : ~ Gives(f, x)
    BY <2>1 DEF Gives
  <2>7. owed' # {} => IsFactory
    BY <2>1 DEF ReturnInv
  <2>8. ReturnInv'
    BY <2>1, <2>2, <2>3, <2>5, <2>6, <2>7, ReturnKept DEF flags
  <2>9. UnregInv'
    BY <2>1 DEF UnregInv, flags
  <2>10. QED
    BY <2>8, <2>9
<1>21. ASSUME NEW f \in Frames, UnregisterClear(f) PROVE P
  <2>1. OthersKeep(f) /\ pc'[f] = "idle" /\ pc[f] = "unregUnget"
    BY <1>21, GotoFrame DEF UnregisterClear, OthersKeep
  <2>2. todo[f] = {} /\ ~service' /\ UNCHANGED <<scope, available, todo, released, owed>>
    BY <1>21 DEF UnregisterClear, histVars
  <2>3. ~available /\ service
    BY <2>1 DEF FramesOK, FrameOK, UnregInv
  <2>4. \A g \in Frames : pc'[g] # "unregUnget"
    BY <2>1, <2>3 DEF UnregInv, OthersKeep, UnregPCs
  <2>5. UnregInv'
    BY <2>2, <2>3, <2>4 DEF UnregInv
  <2>6. \A o \in owed : ~ Gives(f, o) /\ ~ Lists(f, o)
    BY <2>1, <2>2 DEF Gives, Lists
  <2>7. \A o \in Objects : released'[o] >= released[o]
    BY <2>2 DEF TypeOK
  <2>8. owed' # {} => IsFactory
    BY <2>2 DEF ReturnInv
  <2>9. ReturnInv'
    BY <2>1, <2>2, <2>3, <2>6, <2>7, <2>8, ReturnKept
  <2>10. QED
    BY <2>5, <2>9
<1>22. ASSUME NEW f \in Frames, Crash(f) PROVE P
  <2>1. Fault(f) /\ pc[f] \notin {"ungetCall", "protoUngetCall", "unregUnget"}
    BY <1>22 DEF Crash, NullMap, NullFactory, NullService, NullEntry
  <2>2. OthersKeep(f) /\ pc'[f] = "fault"
    BY <2>1, GotoFrame DEF Fault, OthersKeep
  <2>3. UNCHANGED <<flags, bundleServiceInstance, prototypeServiceInstances, todo, released, owed>>
    BY <2>1 DEF Fault, regVars, maps, histVars
  <2>4. QED
    BY <1>1, <2>1, <2>2, <2>3 DEF UnregPCs
<1>23. ASSUME NEW f \in Frames, NEW b \in Bundles, NEW p \in Paths, GetStart(f, b, p) \/ ProtoGetStart(f, b, p)
       PROVE  P
  <2>1. PICK l \in {"getLocked", "holding", "protoFetch"} : Goto(f, l)
    BY <1>23 DEF GetStart, ProtoGetStart
  <2>2. /\ pc[f] = "idle" /\ \A g \in Frames \ {f} : obj'[g] = obj[g] /\ bnd'[g] = bnd[g] /\ path'[g] = path[g]
    BY <1>23 DEF GetStart, ProtoGetStart, TypeOK
  <2>3. OthersKeep(f) /\ pc'[f] = l
    BY <2>1, <2>2, GotoFrame DEF OthersKeep
  <2>4. UNCHANGED <<flags, bundleServiceInstance, prototypeServiceInstances, todo, released, owed>>
    BY <1>23 DEF GetStart, ProtoGetStart, regVars, maps, histVars
  <2>5. QED
    BY <1>1, <2>2, <2>3, <2>4 DEF UnregPCs
<1>24. CASE UNCHANGED vars
  <2>1. UNCHANGED <<flags, bundleServiceInstance, prototypeServiceInstances, pc, obj, todo, released, owed>>
    BY <1>24 DEF vars, regVars, maps, frameVars, histVars
  <2>2. UnregInv'
    BY <2>1 DEF UnregInv, flags
  <2>3. \A o : Accounted(o)' <=> Accounted(o)
    BY <2>1 DEF Accounted, Returned, Gives, Lists, IsStored, flags
  <2>4. ReturnInv'
    BY <2>1, <2>3 DEF ReturnInv, IsFactory, flags
  <2>5. QED
    BY <2>2, <2>4
<1>25. QED
  BY <1>2, <1>3, <1>4, <1>5, <1>6, <1>7, <1>8, <1>9, <1>10, <1>11, <1>12, <1>13, <1>14, <1>15, <1>16,
     <1>17, <1>18, <1>19, <1>20, <1>21, <1>22, <1>23, <1>24 DEF Next, FrameStep, Ended

-----------------------------------------------------------------------------
(* The theorems. *)

\* The invariant holds in every reachable state of ServiceUse.
LEMMA Inductive == Spec => []IInv
<1>1. Init => IInv
  <2> SUFFICES ASSUME Init PROVE IInv
    OBVIOUS
  <2>1. TypeOK
    BY TypeInit
  <2>2. FramesOK
    BY <2>1, ObjectsType DEF Init, TypeOK, FramesOK, FrameOK
  <2>3. SingletonOK /\ CachedIsCounted
    BY DEF Init, SingletonOK, CachedIsCounted
  <2>4. OnePlace /\ ReleasedIsGone
    BY <2>1, ObjectsType DEF Init, TypeOK, OnePlace, ReleasedIsGone, Owns
  <2>5. UsesOK
    <3>1. \A b \in Bundles : Holders(b) = {}
      BY DEF Init, Holders
    <3>2. \A b \in Bundles : dependents[b] = NoEntry
      BY DEF Init
    <3>3. QED
      BY <3>1, <3>2 DEF UsesOK, Counted, NoEntry
  <2>6. UnregInv /\ ReturnInv
    BY DEF Init, UnregInv, UnregPCs, ReturnInv
  <2>7. QED
    BY <2>1, <2>2, <2>3, <2>4, <2>5, <2>6 DEF IInv
<1>2. IInv /\ [Next]_vars => IInv'
  BY TypeStep, FramesStep, SingletonStep, CachedStep, OnePlaceStep, ReleasedStep, UsesStep,
     ReturnStep DEF IInv
<1>3. QED
  BY <1>1, <1>2, PTL DEF Spec

\* An object in the cache of a bundle always has a use count of at least one, so that some
\* UngetService will give it back.
THEOREM CachedAlwaysCounted == Spec => []CachedIsCounted
<1>1. IInv => CachedIsCounted
  BY DEF IInv
<1>2. QED
  BY <1>1, Inductive, PTL

\* While the service is available its factory never gets the same object back twice.
THEOREM NeverReleasedTwice == Spec => []ReleasedOnceWhileAvailable
<1>1. IInv => ReleasedOnceWhileAvailable
  BY DEF IInv, ReleasedIsGone, ReleasedOnceWhileAvailable
<1>2. QED
  BY <1>1, Inductive, PTL

\* However many threads get and unget, a bundle keeps the service object it holds: the count
\* is the number of its holders, and the factory did not get the object back.
THEOREM HoldersKeepService == Spec => []HolderKeepsService
<1>1. IInv => HolderKeepsService
  <2> SUFFICES ASSUME IInv, available, NEW b \in Bundles \ (stopped \cup nullHeld),
                      NEW f \in Holders(b)
               PROVE  /\ dependents[b] = Cardinality(Holders(b))
                      /\ released[obj[f]] = 0
                      /\ IsFactory => bundleServiceInstance[b] = obj[f]
    BY DEF HolderKeepsService
  <2>1. Counted(b) /\ TypeOK
    BY DEF IInv, UsesOK
  <2>2. f \in Frames /\ obj[f] # Null /\ obj[f] \in Objects /\ released[obj[f]] \in Nat
    BY <2>1 DEF Holders, TypeOK
  <2>3. dependents[b] = Cardinality(Holders(b))
    BY <2>1 DEF Counted, TypeOK, NoEntry
  <2>4. IsFactory => bundleServiceInstance[b] = obj[f]
    BY <2>1 DEF Counted
  <2>5. released[obj[f]] = 0
    <3>1. CASE IsFactory
      <4>1. released[obj[f]] <= 1 /\ released[obj[f]] # 1
        BY <2>2, <2>4, <3>1 DEF IInv, ReleasedIsGone
      <4>2. QED
        BY <2>2, <4>1
    <3>2. CASE ~IsFactory
      BY <2>2, <3>2 DEF IInv, SingletonOK
    <3>3. QED
      BY <3>1, <3>2
  <2>6. QED
    BY <2>3, <2>4, <2>5
<1>2. QED
  BY <1>1, Inductive, PTL

\* When Unregister is over, whatever the threads that get and unget meanwhile do, the factory got
\* back every object the framework stored while the service was available, or a thread is in the
\* call that gives it back.
THEOREM UnregisterAlwaysReturnsObjects == Spec => []UnregisterReturnsObjects
<1>1. IInv => UnregisterReturnsObjects
  <2> SUFFICES ASSUME IInv, ~service, NEW o \in owed PROVE Returned(o)
    BY DEF UnregisterReturnsObjects, Returned, Gives
  <2>1. ~available /\ \A f \in Frames : pc[f] # "unregUnget"
    BY DEF IInv, UnregInv
  <2>2. Accounted(o)
    BY DEF IInv, ReturnInv
  <2>3. QED
    BY <2>1, <2>2 DEF Accounted, Lists
<1>2. QED
  BY <1>1, Inductive, PTL
=============================================================================
