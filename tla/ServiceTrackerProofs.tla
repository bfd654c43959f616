------------------------ MODULE ServiceTrackerProofs ------------------------
(***************************************************************************)
(* Theorems about ServiceTracker, for any threads, services, generations,  *)
(* calls and objects: Close waits for the customizers, the tracker         *)
(* implements CustomizerContract, and when no call is in progress an open  *)
(* tracker has lost no service and keeps no stale one, and a closed one is *)
(* empty.                                                                  *)
(***************************************************************************)
EXTENDS ServiceTracker, FiniteSetTheorems, WellFoundedInduction, TLAPS

PCs   == {"idle"} \cup EventPCs \cup TrackPCs \cup OpenPCs \cup ClosePCs \cup ReadPCs
Froms == {"none", "initial", "close", "remove", "get", "wait", "again"} \cup Events
CallType == [pc : PCs, from : Froms, ev : {"none", "track", "untrack"}, g : 0 .. MaxOpens, i : 0 .. MaxItems,
             o : 0 .. MaxObjects, refs : SUBSET Items]

\* Where a call is about a service, and where about a generation.
ItemPCs == EventPCs \cup TrackPCs \cup {"storeRef", "getObject"}
GenPCs  == {"countUp", "check", "closeWait", "closeRefs", "closeEach", "waitLock", "sleep", "asleep"}
               \cup TrackPCs \cup OpenPCs

CallOK(c) ==
    /\ c \in CallType
    /\ c.pc \in ItemPCs => c.i # 0
    /\ c.pc \in GenPCs => c.g # 0
    /\ c.pc \in {"countUp", "check"} => c.ev # "none"
    /\ c.o # 0 => c.pc \in {"final", "removing", "storeService"}
    /\ c.pc = "removing" => c.o # 0
    /\ c.pc \in EventPCs => c.from \in Events
    /\ c.from \in Events => c.i # 0

CallsInv ==
    /\ call \in [Threads -> CallType]
    /\ \A t \in Threads : /\ CallOK(call[t])
                          /\ call[t].pc \in {"storeRef", "getObject"} => current # 0
                          /\ call[t].pc = "closeWait" => call[t].g \in closed

StateInv ==
    /\ state \in [Items -> {"new", "listed", "unlisted", "gone"}] /\ matching \subseteq Items
    /\ listener \in 0 .. MaxOpens /\ current \in 0 .. MaxOpens /\ opened \in 0 .. MaxOpens
    /\ closed \subseteq Gens
    /\ initial \in [Gens -> SUBSET Items] /\ adding \in [Gens -> SUBSET Items]
    /\ tracked \in [Gens -> [Items -> 0 .. MaxObjects]]
    /\ latch \in [Gens -> Int]
    /\ cachedReference \in 0 .. MaxItems /\ cachedService \in 0 .. MaxObjects
    /\ cachedReference # 0 => current # 0
    /\ budget \in 0 .. MaxCalls
    /\ nextObj \in 1 .. MaxObjects + 1
    /\ madeFor \in [Objects -> (Gens \X Items) \cup {NoKey}]
    /\ removed \subseteq Objects /\ refused \subseteq Gens \X Items
    /\ raced \subseteq Items /\ during \subseteq Items /\ left \subseteq Gens \X Items /\ overlap \subseteq Gens

OwnersInv ==
    /\ dOwner = {} \/ \E t \in Threads : dOwner = {t}
    /\ tOwner \in [Gens -> SUBSET Threads]
    /\ \A g \in Gens : tOwner[g] = {} \/ \E t \in Threads : tOwner[g] = {t}

\* The latch of a generation counts the events that are being delivered to it, until Close has
\* waited; after that no event gets past its check.
Counted(c, g) == InEvent(c) /\ c.g = g /\ c.pc \in {"check"} \cup TrackPCs
Past(c, g)    == InEvent(c) /\ c.g = g /\ c.pc \in TrackPCs
CountedIn(g)  == {t \in Threads : Counted(call[t], g)}
CountInv ==
    \A g \in Gens :
        /\ latch[g] = Unusable => g \in closed /\ \A t \in Threads : ~ Past(call[t], g)
        /\ latch[g] # Unusable => latch[g] = Cardinality(CountedIn(g))

\* An object is in one place: a call has it, or it is tracked, or it was reported as removed. A
\* service that is being added is not tracked.
Holds(c) == c.pc \in {"final", "removing"} /\ c.o # 0
LifeInv ==
    /\ \A g \in Gens, i \in Items : tracked[g][i] # 0 =>
          tracked[g][i] < nextObj /\ madeFor[tracked[g][i]] = <<g, i>> /\ tracked[g][i] \notin removed
    /\ \A t \in Threads : Holds(call[t]) =>
          /\ call[t].o < nextObj /\ madeFor[call[t].o] = <<call[t].g, call[t].i>> /\ call[t].o \notin removed
          /\ \A g \in Gens, i \in Items : tracked[g][i] # call[t].o
    /\ \A t, u \in Threads : Holds(call[t]) /\ Holds(call[u]) /\ call[t].o = call[u].o => t = u
    /\ \A o \in removed : o < nextObj
    /\ \A g \in Gens : \A i \in adding[g] : tracked[g][i] = 0

IInv == CallsInv /\ StateInv /\ OwnersInv /\ CountInv /\ LifeInv
-----------------------------------------------------------------------------
(* Calls. *)

LEMMA CallIs ==
    ASSUME NEW c \in CallType
    PROVE  /\ c.pc \in PCs /\ c.from \in Froms /\ c.ev \in {"none", "track", "untrack"} /\ c.g \in 0 .. MaxOpens
           /\ c.i \in 0 .. MaxItems /\ c.o \in 0 .. MaxObjects /\ c.refs \subseteq Items
           /\ c.g # 0 => c.g \in Gens
           /\ c.i # 0 => c.i \in Items
           /\ c.o # 0 => c.o \in Objects
<1>1. /\ c.pc \in PCs /\ c.from \in Froms /\ c.ev \in {"none", "track", "untrack"} /\ c.g \in 0 .. MaxOpens
      /\ c.i \in 0 .. MaxItems /\ c.o \in 0 .. MaxObjects /\ c.refs \subseteq Items
  BY DEF CallType
<1>2. MaxOpens \in Nat /\ MaxItems \in Nat /\ MaxObjects \in Nat
  BY TrackerAssumption
<1>3. QED
  BY <1>1, <1>2 DEF Gens, Items, Objects

LEMMA IdleIs ==
    /\ CallOK(Idle) /\ Idle \in CallType /\ Idle.pc = "idle" /\ Idle.from = "none" /\ Idle.ev = "none"
    /\ Idle.g = 0 /\ Idle.i = 0 /\ Idle.o = 0 /\ Idle.refs = {}
<1>1. MaxOpens \in Nat /\ MaxItems \in Nat /\ MaxObjects \in Nat
  BY TrackerAssumption
<1>2. Idle \in CallType
  BY <1>1 DEF Idle, CallType, PCs, Froms
<1>3. QED
  BY <1>2 DEF Idle, CallOK, ItemPCs, GenPCs, EventPCs, TrackPCs, OpenPCs, Events

\* A call goes to another place.
LEMMA PcIs ==
    ASSUME NEW c \in CallType, NEW l \in PCs
    PROVE  /\ [c EXCEPT !.pc = l] \in CallType
           /\ [c EXCEPT !.pc = l].pc = l /\ [c EXCEPT !.pc = l].from = c.from /\ [c EXCEPT !.pc = l].ev = c.ev
           /\ [c EXCEPT !.pc = l].g = c.g /\ [c EXCEPT !.pc = l].i = c.i /\ [c EXCEPT !.pc = l].o = c.o
           /\ [c EXCEPT !.pc = l].refs = c.refs
BY DEF CallType

\* Thread t goes to d; others may be woken.
Moves(t, d) ==
    /\ call' \in [Threads -> CallType] /\ call'[t] = d
    /\ \A u \in Threads : u # t =>
          \/ call'[u] = call[u]
          \/ call[u].pc = "asleep" /\ call'[u] = [call[u] EXCEPT !.pc = "waitLock"]

LEMMA SetIs ==
    ASSUME call \in [Threads -> CallType], NEW t \in Threads, NEW d \in CallType, Set(t, d)
    PROVE  Moves(t, d)
BY DEF Set, Moves

LEMMA WokenIs ==
    ASSUME call \in [Threads -> CallType], NEW t \in Threads, NEW d \in CallType, NEW g, d.pc # "asleep",
           call' = Woken([call EXCEPT ![t] = d], g)
    PROVE  Moves(t, d)
<1>1. PICK calls : calls = [call EXCEPT ![t] = d]
  OBVIOUS
<1>2. calls \in [Threads -> CallType] /\ calls[t] = d /\ \A u \in Threads : u # t => calls[u] = call[u]
  BY <1>1
<1>3. call' = [u \in Threads |-> IF calls[u].pc = "asleep" /\ calls[u].g = g
                                 THEN [calls[u] EXCEPT !.pc = "waitLock"] ELSE calls[u]]
  BY <1>1 DEF Woken
<1>4. \A u \in Threads : [calls[u] EXCEPT !.pc = "waitLock"] \in CallType
  <2>1. "waitLock" \in PCs
    BY DEF PCs, ReadPCs
  <2>2. QED
    BY <1>2, <2>1, PcIs
<1>5. call' \in [Threads -> CallType]
  BY <1>2, <1>3, <1>4
<1>6. call'[t] = d
  BY <1>2, <1>3
<1>7. \A u \in Threads : u # t => \/ call'[u] = call[u]
                                  \/ call[u].pc = "asleep" /\ call'[u] = [call[u] EXCEPT !.pc = "waitLock"]
  BY <1>2, <1>3, ZenonT(60)
<1>8. QED
  BY <1>5, <1>6, <1>7, ZenonT(60) DEF Moves

\* Those that are woken.
LEMMA OthersAre ==
    ASSUME CallsInv, NEW t \in Threads, NEW d, Moves(t, d), NEW u \in Threads, u # t
    PROVE  \/ call'[u] = call[u]
           \/ /\ call[u].pc = "asleep" /\ call'[u].pc = "waitLock" /\ CallOK(call[u]) /\ CallOK(call'[u])
              /\ call'[u].g = call[u].g /\ call'[u].from = call[u].from
<1>1. CASE call[u].pc = "asleep" /\ call'[u] = [call[u] EXCEPT !.pc = "waitLock"]
  <2>1. PICK c \in CallType : c = call[u]
    BY DEF CallsInv
  <2>2. "waitLock" \in PCs /\ CallOK(c) /\ c.pc = "asleep"
    BY <1>1, <2>1 DEF PCs, ReadPCs, CallsInv
  <2>3. PICK e : e = [c EXCEPT !.pc = "waitLock"]
    OBVIOUS
  <2>4. e \in CallType /\ e.pc = "waitLock" /\ e.from = c.from /\ e.ev = c.ev /\ e.g = c.g /\ e.i = c.i /\ e.o = c.o
    BY <2>2, <2>3, PcIs
  <2>5. c.g # 0 /\ c.o = 0
    BY <2>2 DEF CallOK, GenPCs
  <2>6. CallOK(e)
    BY <2>2, <2>4, <2>5 DEF CallOK, ItemPCs, EventPCs, TrackPCs
  <2>7. QED
    BY <1>1, <2>1, <2>2, <2>3, <2>4, <2>6
<1>2. QED
  BY <1>1 DEF Moves

LEMMA CallsKeep ==
    ASSUME CallsInv, NEW t \in Threads, NEW d, CallOK(d), Moves(t, d),
           current # 0 => current' # 0, closed \subseteq closed',
           d.pc \in {"storeRef", "getObject"} => current' # 0,
           d.pc = "closeWait" => d.g \in closed'
    PROVE  CallsInv'
<1>1. ASSUME NEW u \in Threads
      PROVE  /\ CallOK(call'[u])
             /\ call'[u].pc \in {"storeRef", "getObject"} => current' # 0
             /\ call'[u].pc = "closeWait" => call'[u].g \in closed'
  <2>1. CASE u = t
    BY <2>1 DEF Moves
  <2>2. CASE u # t
    BY <2>2, OthersAre DEF CallsInv
  <2>3. QED
    BY <2>1, <2>2
<1>2. QED
  BY <1>1 DEF CallsInv, Moves

-----------------------------------------------------------------------------
(* Counting. *)

LEMMA CountedSame ==
    ASSUME CallsInv, NEW t \in Threads, NEW d, Moves(t, d), NEW g, NEW u \in Threads, u # t
    PROVE  /\ Counted(call'[u], g) <=> Counted(call[u], g)
           /\ Past(call'[u], g) <=> Past(call[u], g)
<1>1. \/ call'[u] = call[u]
      \/ call[u].pc = "asleep" /\ call'[u].pc = "waitLock"
  BY OthersAre
<1>2. QED
  BY <1>1 DEF Counted, Past, TrackPCs

LEMMA CountQuiet ==
    ASSUME CallsInv, CountInv, NEW t \in Threads, NEW d, Moves(t, d), latch' = latch, closed \subseteq closed',
           \A g \in Gens : Counted(d, g) <=> Counted(call[t], g),
           \A g \in Gens : Past(d, g) => Past(call[t], g) \/ latch[g] # Unusable
    PROVE  CountInv'
<1>1. call'[t] = d
  BY DEF Moves
<1>2. ASSUME NEW g \in Gens PROVE CountedIn(g)' = CountedIn(g)
  BY <1>1, CountedSame DEF CountedIn
<1>3. ASSUME NEW g \in Gens, NEW u \in Threads, Past(call'[u], g) PROVE Past(call[u], g) \/ latch[g] # Unusable
  BY <1>1, <1>3, CountedSame
<1>4. QED
  BY <1>2, <1>3 DEF CountInv

LEMMA CountedFinite ==
    ASSUME NEW g PROVE IsFiniteSet(CountedIn(g)) /\ Cardinality(CountedIn(g)) \in Nat
                       /\ Cardinality(CountedIn(g)) <= Cardinality(Threads)
<1>1. CountedIn(g) \subseteq Threads /\ IsFiniteSet(Threads)
  BY TrackerAssumption DEF CountedIn
<1>2. QED
  BY <1>1, FS_Subset, FS_CardinalityType

\* The event has been delivered, or it was none.
LEMMA CountLeave ==
    ASSUME CallsInv, CountInv, StateInv, NEW t \in Threads, NEW d, Moves(t, d), latch' = CountDown(t), closed' = closed,
           call[t].pc \in {"check"} \cup TrackPCs, \A g : ~ Counted(d, g) /\ ~ Past(d, g)
    PROVE  CountInv' /\ latch' \in [Gens -> Int]
<1>1. call'[t] = d
  BY DEF Moves
<1>2. CASE ~ InEvent(call[t])
  <2>1. latch' = latch
    BY <1>2 DEF CountDown
  <2>2. \A g : ~ Counted(call[t], g)
    BY <1>2 DEF Counted
  <2>3. CountInv'
    BY <2>1, <2>2, CountQuiet
  <2>4. QED
    BY <2>1, <2>3 DEF StateInv
<1>3. CASE InEvent(call[t])
  <2>1. PICK k : k = call[t].g
    OBVIOUS
  <2>2. k \in Gens
    BY <2>1, CallIs DEF CallsInv, CallOK, GenPCs
  <2>3. latch' = IF latch[k] > 0 THEN [latch EXCEPT ![k] = @ - 1] ELSE latch
    BY <1>3, <2>1 DEF CountDown
  <2>4. t \in CountedIn(k) /\ Counted(call[t], k) /\ \A g : g # k => ~ Counted(call[t], g)
    BY <1>3, <2>1 DEF CountedIn, Counted
  <2>5. \A g : CountedIn(g)' = CountedIn(g) \ {t}
    BY <1>1, CountedSame DEF CountedIn
  <2>6. \A g \in Gens : g # k => CountedIn(g)' = CountedIn(g)
    BY <2>4, <2>5 DEF CountedIn
  <2>7. \A g, u : u \in Threads /\ Past(call'[u], g) => Past(call[u], g)
    BY <1>1, CountedSame
  <2>8. latch \in [Gens -> Int]
    BY DEF StateInv
  <2>9. latch' \in [Gens -> Int] /\ \A g \in Gens : g # k => latch'[g] = latch[g]
    BY <2>2, <2>3, <2>8
  <2>10. /\ Cardinality(CountedIn(k)') = Cardinality(CountedIn(k)) - 1
         /\ Cardinality(CountedIn(k)) \in Nat /\ Cardinality(CountedIn(k)) > 0
    <3>1. IsFiniteSet(CountedIn(k)) /\ Cardinality(CountedIn(k)) \in Nat
      BY CountedFinite
    <3>2. Cardinality(CountedIn(k) \ {t}) = Cardinality(CountedIn(k)) - 1
      BY <2>4, <3>1, FS_RemoveElement
    <3>3. Cardinality(CountedIn(k)) # 0
      BY <2>4, <3>1, FS_EmptySet
    <3>4. QED
      BY <2>5, <3>1, <3>2, <3>3
  <2>11. /\ latch'[k] = Unusable => latch[k] = Unusable
         /\ latch'[k] # Unusable => latch'[k] = Cardinality(CountedIn(k)')
    <3>1. CASE latch[k] = Unusable
      BY <2>2, <2>3, <2>8, <3>1 DEF Unusable
    <3>2. CASE latch[k] # Unusable
      <4>1. latch[k] = Cardinality(CountedIn(k))
        BY <2>2, <3>2 DEF CountInv
      <4>2. latch'[k] = latch[k] - 1
        BY <2>2, <2>3, <2>8, <2>10, <4>1
      <4>3. QED
        BY <2>10, <4>1, <4>2 DEF Unusable
    <3>3. QED
      BY <3>1, <3>2
  <2>12. ASSUME NEW g \in Gens
         PROVE  /\ latch'[g] = Unusable => g \in closed /\ \A u \in Threads : ~ Past(call'[u], g)
                /\ latch'[g] # Unusable => latch'[g] = Cardinality(CountedIn(g)')
    <3>1. CASE g = k
      BY <2>2, <2>7, <2>11, <3>1 DEF CountInv
    <3>2. CASE g # k
      BY <2>6, <2>7, <2>9, <3>2 DEF CountInv
    <3>3. QED
      BY <3>1, <3>2
  <2>13. QED
    BY <2>9, <2>12 DEF CountInv
<1>4. QED
  BY <1>2, <1>3
-----------------------------------------------------------------------------
(* Objects. *)

Life   == [o \in Objects |-> LifeOf(o)]
StepOK == [Contract!Next]_<<Life, madeFor>>

LEMMA HoldsSame ==
    ASSUME CallsInv, NEW t \in Threads, NEW d, Moves(t, d), NEW u \in Threads, u # t
    PROVE  /\ Holds(call'[u]) <=> Holds(call[u])
           /\ Holds(call[u]) => call'[u] = call[u]
           /\ call'[u].pc \in {"final", "removing"} \/ call[u].pc \in {"final", "removing"} => call'[u] = call[u]
<1>1. \/ call'[u] = call[u]
      \/ call[u].pc = "asleep" /\ call'[u].pc = "waitLock"
  BY OthersAre
<1>2. QED
  BY <1>1 DEF Holds

Offers(c, o)    == c.pc = "final" /\ c.o = o
Withdraws(c, o) == c.pc = "removing" /\ c.o = o
IsTracked(o)    == \E g \in Gens : \E i \in Items : tracked[g][i] = o

\* An object that the step is not about.
LEMMA LifeSame ==
    ASSUME CallsInv, NEW t \in Threads, NEW d, Moves(t, d), NEW o,
           Offers(d, o) <=> Offers(call[t], o), Withdraws(d, o) <=> Withdraws(call[t], o),
           IsTracked(o)' <=> IsTracked(o), o \in removed' <=> o \in removed, o >= nextObj' <=> o >= nextObj
    PROVE  LifeOf(o)' = LifeOf(o)
<1>1. call'[t] = d
  BY DEF Moves
<1>2. ASSUME NEW u \in Threads PROVE /\ Offers(call'[u], o) <=> Offers(call[u], o)
                                     /\ Withdraws(call'[u], o) <=> Withdraws(call[u], o)
  <2>1. CASE u = t
    BY <1>1, <2>1
  <2>2. CASE u # t
    BY <2>2, HoldsSame DEF Offers, Withdraws
  <2>3. QED
    BY <2>1, <2>2
<1>3. /\ (\E u \in Threads : At(u, "final") /\ call[u].o = o)' <=> \E u \in Threads : At(u, "final") /\ call[u].o = o
      /\ (\E u \in Threads : At(u, "removing") /\ call[u].o = o)'
            <=> \E u \in Threads : At(u, "removing") /\ call[u].o = o
  BY <1>2 DEF Offers, Withdraws, At
<1>4. QED
  BY <1>3 DEF LifeOf, IsTracked

\* The step is about no object.
LEMMA LifeQuiet ==
    ASSUME CallsInv, LifeInv, NEW t \in Threads, NEW d, Moves(t, d), ~ Holds(call[t]), ~ Holds(d),
           UNCHANGED <<tracked, nextObj, madeFor, removed>>,
           \A g \in Gens : \A i \in adding'[g] : tracked[g][i] = 0
    PROVE  LifeInv' /\ StepOK
<1>1. call'[t] = d
  BY DEF Moves
<1>2. \A u \in Threads : Holds(call'[u]) => u # t /\ Holds(call[u]) /\ call'[u] = call[u]
  BY <1>1, HoldsSame
<1>3. LifeInv'
  BY <1>2 DEF LifeInv
<1>4. ASSUME NEW o \in Objects PROVE LifeOf(o)' = LifeOf(o)
  <2>1. o # 0
    BY DEF Objects
  <2>2. ~ Offers(d, o) /\ ~ Offers(call[t], o) /\ ~ Withdraws(d, o) /\ ~ Withdraws(call[t], o)
    BY <2>1 DEF Offers, Withdraws, Holds
  <2>3. IsTracked(o)' <=> IsTracked(o)
    BY DEF IsTracked
  <2>4. QED
    BY <2>2, <2>3, LifeSame
<1>5. Life' = Life
  BY <1>4 DEF Life
<1>6. QED
  BY <1>3, <1>5 DEF StepOK

\* All that a step within one call, about no object and with the same latch, has to show.
Rest(t, d) ==
    /\ Moves(t, d) /\ CallOK(d) /\ StateInv' /\ OwnersInv'
    /\ current # 0 => current' # 0
    /\ closed \subseteq closed'
    /\ d.pc \in {"storeRef", "getObject"} => current' # 0
    /\ d.pc = "closeWait" => d.g \in closed'

LEMMA QuietStep ==
    ASSUME IInv, NEW t \in Threads, NEW d, Rest(t, d), ~ Holds(call[t]), ~ Holds(d),
           UNCHANGED <<tracked, nextObj, madeFor, removed, adding, latch>>,
           call[t].pc \notin {"check"} \cup TrackPCs, d.pc \notin {"check"} \cup TrackPCs \/ ~ InEvent(d)
    PROVE  IInv' /\ StepOK
<1>0. CallsInv /\ StateInv /\ CountInv /\ LifeInv
  BY DEF IInv
<1>1. CallsInv'
  BY <1>0, CallsKeep DEF Rest
<1>2. CountInv'
  <2>1. \A g : ~ Counted(d, g) /\ ~ Counted(call[t], g) /\ ~ Past(d, g)
    BY DEF Counted, Past
  <2>2. Moves(t, d) /\ closed \subseteq closed' /\ latch' = latch
    BY DEF Rest
  <2>3. QED
    BY <1>0, <2>1, <2>2, CountQuiet
<1>3. LifeInv' /\ StepOK
  <2>1. Moves(t, d)
    BY DEF Rest
  <2>2. \A g \in Gens : \A i \in adding'[g] : tracked[g][i] = 0
    BY <1>0 DEF LifeInv
  <2>3. QED
    BY <1>0, <2>1, <2>2, LifeQuiet
<1>4. QED
  BY <1>1, <1>2, <1>3 DEF IInv, Rest

\* The call goes on within the delivery of an event, or of an initial reference.
LEMMA TrackStep ==
    ASSUME IInv, NEW t \in Threads, NEW d, Rest(t, d), ~ Holds(call[t]), ~ Holds(d),
           UNCHANGED <<tracked, nextObj, madeFor, removed, latch>>,
           call[t].pc \in TrackPCs, d.pc \in TrackPCs, d.g = call[t].g, d.from = call[t].from,
           \A g \in Gens : \A i \in adding'[g] : tracked[g][i] = 0
    PROVE  IInv' /\ StepOK
<1>0. CallsInv /\ StateInv /\ CountInv /\ LifeInv
  BY DEF IInv
<1>1. CallsInv'
  BY <1>0, CallsKeep DEF Rest
<1>2. Moves(t, d) /\ closed \subseteq closed' /\ latch' = latch
  BY DEF Rest
<1>3. CountInv'
  <2>1. \A g \in Gens : (Counted(d, g) <=> Counted(call[t], g)) /\ (Past(d, g) => Past(call[t], g))
    BY DEF Counted, Past, InEvent
  <2>2. QED
    BY <1>0, <1>2, <2>1, CountQuiet
<1>4. LifeInv' /\ StepOK
  BY <1>0, <1>2, LifeQuiet
<1>5. QED
  BY <1>1, <1>3, <1>4 DEF IInv, Rest

\* Where a thread goes on.
LEMMA AfterIs ==
    ASSUME NEW c, CallOK(c), c.pc \in {"notify", "check"} \cup TrackPCs
    PROVE  /\ CallOK(AfterTracking(c)) /\ ~ Holds(AfterTracking(c))
           /\ AfterTracking(c).pc \in {"idle", "initial", "closeEach", "gone"}
           /\ \A g : ~ Counted(AfterTracking(c), g) /\ ~ Past(AfterTracking(c), g)
<1>0. PICK d : d = AfterTracking(c)
  OBVIOUS
<1>1. c \in CallType
  BY DEF CallOK
<1>6. /\ 0 \in 0 .. MaxItems /\ 0 \in 0 .. MaxObjects /\ {"initial", "closeEach", "gone"} \subseteq PCs
      /\ "none" \in Froms
  BY TrackerAssumption DEF PCs, OpenPCs, ClosePCs, EventPCs, Froms
<1>2. CASE c.from = "initial"
  <2>1. d = [c EXCEPT !.pc = "initial", !.from = "none", !.o = 0, !.i = 0]
    BY <1>0, <1>2 DEF AfterTracking
  <2>2. d \in CallType /\ d.pc = "initial" /\ d.from = "none" /\ d.o = 0 /\ d.g = c.g
    BY <1>1, <1>6, <2>1 DEF CallType
  <2>3. c.g # 0
    BY <1>2 DEF CallOK, EventPCs, Events, GenPCs
  <2>4. QED
    BY <1>0, <2>2, <2>3 DEF CallOK, Holds, Counted, Past, ItemPCs, EventPCs, TrackPCs, Events
<1>3. CASE c.from = "close"
  <2>1. d = [c EXCEPT !.pc = "closeEach", !.o = 0, !.i = 0]
    BY <1>0, <1>3 DEF AfterTracking
  <2>2. d \in CallType /\ d.pc = "closeEach" /\ d.from = "close" /\ d.o = 0 /\ d.g = c.g
    BY <1>1, <1>3, <1>6, <2>1 DEF CallType
  <2>3. c.g # 0
    BY <1>3 DEF CallOK, EventPCs, Events, GenPCs
  <2>4. QED
    BY <1>0, <2>2, <2>3 DEF CallOK, Holds, Counted, Past, ItemPCs, EventPCs, TrackPCs, Events
<1>4. CASE c.from = "unregister"
  <2>1. d = [c EXCEPT !.pc = "gone", !.o = 0]
    BY <1>0, <1>4 DEF AfterTracking
  <2>2. d \in CallType /\ d.pc = "gone" /\ d.o = 0 /\ d.g = c.g /\ d.i = c.i /\ d.from = "unregister"
    BY <1>1, <1>4, <1>6, <2>1 DEF CallType
  <2>3. c.i # 0
    BY DEF CallOK, ItemPCs, EventPCs
  <2>4. QED
    BY <1>0, <2>2, <2>3 DEF CallOK, Holds, Counted, Past, GenPCs, TrackPCs, OpenPCs, Events
<1>5. CASE c.from \notin {"initial", "close", "unregister"}
  <2>1. d = Idle
    BY <1>0, <1>5 DEF AfterTracking
  <2>2. QED
    BY <1>0, <2>1, IdleIs DEF Holds, Counted, Past, TrackPCs
<1>7. QED
  BY <1>2, <1>3, <1>4, <1>5

\* The delivery ends.
LEMMA LeaveStep ==
    ASSUME IInv, NEW t \in Threads, Leave(t), call[t].pc \in {"check"} \cup TrackPCs, ~ Holds(call[t]),
           OwnersInv', latch' \in [Gens -> Int] => StateInv', UNCHANGED <<tracked, nextObj, madeFor, removed, closed, current>>,
           \A g \in Gens : \A i \in adding'[g] : tracked[g][i] = 0
    PROVE  IInv' /\ StepOK
<1>0. CallsInv /\ StateInv /\ CountInv /\ LifeInv
  BY DEF IInv
<1>1. PICK c : c = call[t]
  OBVIOUS
<1>2. PICK d : d = AfterTracking(c)
  OBVIOUS
<1>3. /\ CallOK(d) /\ ~ Holds(d) /\ d.pc \in {"idle", "initial", "closeEach", "gone"}
      /\ \A g : ~ Counted(d, g) /\ ~ Past(d, g)
  BY <1>0, <1>1, <1>2, AfterIs DEF CallsInv
<1>4. Moves(t, d) /\ latch' = CountDown(t)
  <2>1. Set(t, d) /\ d \in CallType /\ call \in [Threads -> CallType]
    BY <1>0, <1>1, <1>2, <1>3 DEF Leave, CallOK, CallsInv
  <2>2. QED
    BY <2>1, SetIs DEF Leave
<1>5. CallsInv'
  BY <1>0, <1>3, <1>4, CallsKeep
<1>6. CountInv' /\ StateInv'
  BY <1>0, <1>3, <1>4, CountLeave
<1>7. LifeInv' /\ StepOK
  BY <1>0, <1>3, <1>4, LifeQuiet
<1>8. QED
  BY <1>5, <1>6, <1>7 DEF IInv
-----------------------------------------------------------------------------
(* Steps outside the delivery of events. *)

Elsewhere(c) == c.pc \notin {"check"} \cup TrackPCs

LEMMA CallStep ==
    ASSUME IInv, NEW t \in Threads, NEW d, Set(t, d), CallOK(d), ~ Holds(d), Elsewhere(call[t]),
           Elsewhere(d) \/ ~ InEvent(d), StateInv', OwnersInv',
           UNCHANGED <<tracked, nextObj, madeFor, removed, adding, latch, closed>>,
           current # 0 => current' # 0, d.pc \in {"storeRef", "getObject"} => current' # 0, d.pc # "closeWait"
    PROVE  IInv' /\ StepOK
<1>1. d \in CallType /\ call \in [Threads -> CallType]
  BY DEF IInv, CallsInv, CallOK
<1>2. Moves(t, d)
  BY <1>1, SetIs
<1>3. Rest(t, d)
  BY <1>2 DEF Rest
<1>4. ~ Holds(call[t])
  BY DEF Elsewhere, TrackPCs, Holds
<1>5. QED
  BY <1>3, <1>4, QuietStep DEF Elsewhere

\* Only the call changes, and perhaps what is left of the budget.
LEMMA PlainStep ==
    ASSUME IInv, NEW t \in Threads, NEW d, Set(t, d), CallOK(d), ~ Holds(d), Elsewhere(call[t]),
           Elsewhere(d) \/ ~ InEvent(d), d.pc \in {"storeRef", "getObject"} => current # 0, d.pc # "closeWait",
           UNCHANGED <<state, matching, listener, current, opened, closed, initial, adding, tracked, latch,
                       cachedReference, cachedService, dOwner, tOwner, nextObj, madeFor, removed, refused, raced,
                       during, left, overlap>>,
           budget' \in 0 .. MaxCalls
    PROVE  IInv' /\ StepOK
<1>1. StateInv'
  BY DEF IInv, StateInv
<1>2. OwnersInv'
  BY DEF IInv, OwnersInv
<1>3. QED
  BY <1>1, <1>2, CallStep

LEMMA SpendIs == ASSUME StateInv, Spend PROVE budget' \in 0 .. MaxCalls
BY TrackerAssumption DEF StateInv, Spend

\* A thread begins a call.
LEMMA NewCall ==
    ASSUME NEW l \in PCs, NEW f \in Froms, NEW g \in 0 .. MaxOpens, NEW i \in 0 .. MaxItems, NEW d,
           d = [pc |-> l, from |-> f, ev |-> "none", g |-> g, i |-> i, o |-> 0, refs |-> {}],
           l \in ItemPCs => i # 0, l \in GenPCs => g # 0, l \notin {"countUp", "check", "removing"},
           l \in EventPCs => f \in Events, f \in Events => i # 0
    PROVE  CallOK(d) /\ ~ Holds(d) /\ d.pc = l /\ d.from = f /\ d.g = g /\ d.i = i
<1>1. 0 \in 0 .. MaxObjects
  BY TrackerAssumption
<1>2. d \in CallType
  BY <1>1 DEF CallType
<1>3. QED
  BY <1>2 DEF CallOK, Holds

LEMMA ZeroIs == 0 \in 0 .. MaxOpens /\ 0 \in 0 .. MaxItems /\ Items \subseteq 0 .. MaxItems /\ Gens \subseteq 0 .. MaxOpens
BY TrackerAssumption DEF Items, Gens

\* A service begins to change.
LEMMA ChangeStep ==
    ASSUME IInv, NEW t \in Threads, NEW i \in Items, NEW c, Change(t, i, c), At(t, "idle"),
           NEW l \in {"notify", "setProps"}, NEW f \in Events, NEW g \in 0 .. MaxOpens,
           c = [pc |-> l, from |-> f, ev |-> "none", g |-> g, i |-> 0, o |-> 0, refs |-> {}],
           state' \in [Items -> {"new", "listed", "unlisted", "gone"}], matching' \subseteq Items
    PROVE  IInv' /\ StepOK
<1>0. StateInv /\ OwnersInv
  BY DEF IInv
<1>1. PICK d : d = [c EXCEPT !.i = i]
  OBVIOUS
<1>2. d = [pc |-> l, from |-> f, ev |-> "none", g |-> g, i |-> i, o |-> 0, refs |-> {}]
  BY <1>1
<1>3. /\ Set(t, d) /\ budget' \in 0 .. MaxCalls
      /\ UNCHANGED <<listener, current, opened, closed, initial, adding, tracked, latch, cachedReference, cachedService,
                     dOwner, tOwner, nextObj, madeFor, removed, refused, left, overlap>>
      /\ raced' \subseteq Items /\ during' \subseteq Items
  <2>1. raced \subseteq Items /\ during \subseteq Items
    BY <1>0 DEF StateInv
  <2>2. QED
    BY <1>0, <1>1, <2>1, SpendIs DEF Change, lists, caches
<1>4. CallOK(d) /\ ~ Holds(d) /\ d.pc = l
  <2>1. l \in PCs /\ f \in Froms /\ l \notin GenPCs /\ l \notin {"countUp", "check", "removing"} /\ i \in 0 .. MaxItems /\ i # 0
    BY ZeroIs DEF PCs, EventPCs, Froms, GenPCs, TrackPCs, OpenPCs, Items
  <2>2. QED
    BY <1>2, <2>1, NewCall
<1>5. StateInv' /\ OwnersInv'
  <2>1. StateInv'
    BY <1>0, <1>3 DEF StateInv
  <2>2. QED
    BY <1>0, <1>3, <2>1 DEF OwnersInv
<1>6. Elsewhere(d) /\ Elsewhere(call[t]) /\ d.pc \notin {"storeRef", "getObject", "closeWait"}
  BY <1>4 DEF Elsewhere, TrackPCs, At
<1>7. QED
  BY <1>3, <1>4, <1>5, <1>6, CallStep

LEMMA RegisterKeeps ==
    ASSUME IInv, NEW t \in Threads, NEW i \in Items, Register(t, i) PROVE IInv' /\ StepOK
<1>1. StateInv
  BY DEF IInv
<1>2. state' \in [Items -> {"new", "listed", "unlisted", "gone"}] /\ matching' \subseteq Items
  BY <1>1 DEF Register, StateInv
<1>3. PICK c : c = [Idle EXCEPT !.pc = "notify", !.from = "register"]
  OBVIOUS
<1>4. c = [pc |-> "notify", from |-> "register", ev |-> "none", g |-> 0, i |-> 0, o |-> 0, refs |-> {}]
  BY <1>3 DEF Idle
<1>5. Change(t, i, c) /\ At(t, "idle")
  BY <1>3 DEF Register
<1>6. "register" \in Events /\ "notify" \in {"notify", "setProps"} /\ 0 \in 0 .. MaxOpens
  BY ZeroIs DEF Events
<1>7. QED
  BY <1>2, <1>4, <1>5, <1>6, ChangeStep

LEMMA UnregisterKeeps ==
    ASSUME IInv, NEW t \in Threads, NEW i \in Items, Unregister(t, i) PROVE IInv' /\ StepOK
<1>1. StateInv
  BY DEF IInv
<1>2. state' \in [Items -> {"new", "listed", "unlisted", "gone"}] /\ matching' \subseteq Items
  BY <1>1 DEF Unregister, StateInv
<1>3. PICK c : c = [Idle EXCEPT !.pc = "notify", !.from = "unregister"]
  OBVIOUS
<1>4. c = [pc |-> "notify", from |-> "unregister", ev |-> "none", g |-> 0, i |-> 0, o |-> 0, refs |-> {}]
  BY <1>3 DEF Idle
<1>5. Change(t, i, c) /\ At(t, "idle")
  BY <1>3 DEF Unregister
<1>6. "unregister" \in Events /\ "notify" \in {"notify", "setProps"} /\ 0 \in 0 .. MaxOpens
  BY ZeroIs DEF Events
<1>7. QED
  BY <1>2, <1>4, <1>5, <1>6, ChangeStep

LEMMA ModifyKeeps ==
    ASSUME IInv, NEW t \in Threads, NEW i \in Items, Modify(t, i) PROVE IInv' /\ StepOK
<1>1. StateInv
  BY DEF IInv
<1>2. state' \in [Items -> {"new", "listed", "unlisted", "gone"}] /\ matching' \subseteq Items
  BY <1>1 DEF Modify, services, StateInv
<1>3. PICK g \in 0 .. MaxOpens : g = IF i \in matching THEN listener ELSE 0
  BY <1>1, ZeroIs DEF StateInv
<1>4. PICK c : c = [Idle EXCEPT !.pc = "setProps", !.from = "modify", !.g = g]
  OBVIOUS
<1>5. c = [pc |-> "setProps", from |-> "modify", ev |-> "none", g |-> g, i |-> 0, o |-> 0, refs |-> {}]
  BY <1>4 DEF Idle
<1>6. Change(t, i, c) /\ At(t, "idle")
  BY <1>3, <1>4 DEF Modify
<1>7. "modify" \in Events /\ "setProps" \in {"notify", "setProps"}
  BY DEF Events
<1>8. QED
  BY <1>2, <1>5, <1>6, <1>7, ChangeStep

\* The call stays the same but for its place.
LEMMA GotoIs ==
    ASSUME NEW c, CallOK(c), NEW l \in PCs, NEW d, d = [c EXCEPT !.pc = l],
           l \in ItemPCs => c.i # 0, l \in GenPCs => c.g # 0, l \in {"countUp", "check"} => c.ev # "none",
           c.o # 0 => l \in {"final", "removing", "storeService"}, l = "removing" => c.o # 0,
           l \in EventPCs => c.from \in Events
    PROVE  /\ CallOK(d) /\ d.pc = l /\ d.from = c.from /\ d.ev = c.ev /\ d.g = c.g /\ d.i = c.i /\ d.o = c.o
           /\ d.refs = c.refs
<1>1. c \in CallType
  BY DEF CallOK
<1>2. /\ d \in CallType /\ d.pc = l /\ d.from = c.from /\ d.ev = c.ev /\ d.g = c.g /\ d.i = c.i /\ d.o = c.o
      /\ d.refs = c.refs
  BY <1>1, PcIs
<1>3. QED
  BY <1>2 DEF CallOK

LEMMA SetPropsKeeps ==
    ASSUME IInv, NEW t \in Threads, SetProps(t) PROVE IInv' /\ StepOK
<1>0. StateInv /\ OwnersInv /\ CallOK(call[t]) /\ call[t].pc = "setProps"
  BY DEF IInv, CallsInv, SetProps, At
<1>1. PICK c : c = call[t]
  OBVIOUS
<1>2. /\ UNCHANGED <<state, listener, current, opened, closed, initial, adding, tracked, latch, cachedReference,
                     cachedService, dOwner, tOwner, budget, nextObj, madeFor, removed, refused, raced, during, left, overlap>>
      /\ matching' \in {matching, matching \ {c.i}, matching \cup {c.i}}
      /\ Set(t, [c EXCEPT !.pc = "notify"]) \/ Set(t, Idle)
  BY <1>1 DEF SetProps, Goto, lists, caches, history
<1>3. /\ c.i \in Items /\ c.from \in Events /\ c.o = 0
      /\ "notify" \in PCs /\ "notify" \notin GenPCs \cup {"countUp", "check", "removing"}
  BY <1>0, <1>1, CallIs DEF CallOK, ItemPCs, EventPCs, PCs, GenPCs, TrackPCs, OpenPCs
<1>4. StateInv' /\ OwnersInv'
  <2>1. matching' \subseteq Items
    BY <1>0, <1>2, <1>3 DEF StateInv
  <2>2. StateInv'
    BY <1>0, <1>2, <2>1 DEF StateInv
  <2>3. QED
    BY <1>0, <1>2, <2>2 DEF OwnersInv
<1>5. PICK d : d \in {[c EXCEPT !.pc = "notify"], Idle} /\ Set(t, d)
  BY <1>2
<1>6. CallOK(d) /\ d.pc \in {"notify", "idle"}
  <2>1. CASE d = Idle
    BY <2>1, IdleIs
  <2>2. CASE d = [c EXCEPT !.pc = "notify"]
    <3>1. c.i # 0
      BY <1>3 DEF Items
    <3>2. QED
      BY <1>0, <1>1, <1>3, <2>2, <3>1, GotoIs
  <2>3. QED
    BY <1>5, <2>1, <2>2
<1>7. Elsewhere(d) /\ Elsewhere(call[t]) /\ d.pc \notin {"storeRef", "getObject", "closeWait"} /\ ~ Holds(d)
  BY <1>0, <1>6 DEF Elsewhere, TrackPCs, Holds
<1>8. UNCHANGED <<tracked, nextObj, madeFor, removed, adding, latch, closed>> /\ current' = current
  BY <1>2
<1>9. QED
  BY <1>4, <1>5, <1>6, <1>7, <1>8, CallStep

LEMMA NotifyKeeps ==
    ASSUME IInv, NEW t \in Threads, Notify(t) PROVE IInv' /\ StepOK
<1>0. StateInv /\ CallOK(call[t]) /\ call[t].pc = "notify" /\ listener \in 0 .. MaxOpens /\ budget \in 0 .. MaxCalls
  BY DEF IInv, CallsInv, Notify, At, StateInv
<1>1. PICK c : c = call[t]
  OBVIOUS
<1>2. PICK e : e = IF c.from = "unregister" THEN "untrack" ELSE "track"
  OBVIOUS
<1>3. UNCHANGED <<state, matching, listener, current, opened, closed, initial, adding, tracked, latch, cachedReference,
                  cachedService, dOwner, tOwner, budget, nextObj, madeFor, removed, refused, raced, during, left, overlap>>
  BY DEF Notify, services, lists, caches, history
<1>4. PICK d : /\ Set(t, d)
               /\ \/ listener # 0 /\ d = [c EXCEPT !.pc = "countUp", !.g = listener, !.ev = e]
                  \/ c.g # 0 /\ d = [c EXCEPT !.pc = "countUp", !.ev = "untrack"]
                  \/ d = AfterTracking(c)
  BY <1>1, <1>2 DEF Notify, EndMatch
<1>5. /\ c \in CallType /\ c.i # 0 /\ c.from \in Events /\ c.o = 0 /\ "countUp" \in PCs
      /\ e \in {"track", "untrack"} /\ e # "none"
  BY <1>0, <1>1, <1>2 DEF CallOK, ItemPCs, EventPCs, PCs
<1>6. CallOK(d) /\ ~ Holds(d) /\ d.pc \in {"countUp", "idle", "initial", "closeEach", "gone"}
  <2>1. CASE listener # 0 /\ d = [c EXCEPT !.pc = "countUp", !.g = listener, !.ev = e]
    <3>1. d \in CallType /\ d.pc = "countUp" /\ d.g = listener /\ d.ev = e /\ d.i = c.i /\ d.from = c.from /\ d.o = c.o
      BY <1>0, <1>5, <2>1 DEF CallType
    <3>2. QED
      BY <1>5, <2>1, <3>1 DEF CallOK, Holds
  <2>2. CASE c.g # 0 /\ d = [c EXCEPT !.pc = "countUp", !.ev = "untrack"]
    <3>1. d \in CallType /\ d.pc = "countUp" /\ d.g = c.g /\ d.ev = "untrack" /\ d.i = c.i /\ d.from = c.from /\ d.o = c.o
      BY <1>5, <2>2 DEF CallType
    <3>2. QED
      BY <1>5, <2>2, <3>1 DEF CallOK, Holds
  <2>3. CASE d = AfterTracking(c)
    BY <1>0, <1>1, <2>3, AfterIs
  <2>4. QED
    BY <1>4, <2>1, <2>2, <2>3
<1>7. Elsewhere(d) /\ Elsewhere(call[t]) /\ d.pc \notin {"storeRef", "getObject", "closeWait"}
  BY <1>0, <1>6 DEF Elsewhere, TrackPCs
<1>8. QED
  BY <1>0, <1>3, <1>4, <1>6, <1>7, PlainStep

LEMMA GoneKeeps ==
    ASSUME IInv, NEW t \in Threads, Gone(t) PROVE IInv' /\ StepOK
<1>0. StateInv /\ OwnersInv /\ CallOK(call[t]) /\ call[t].pc = "gone"
  BY DEF IInv, CallsInv, Gone, At
<1>1. /\ UNCHANGED <<matching, listener, current, opened, closed, initial, adding, tracked, latch, cachedReference,
                     cachedService, dOwner, tOwner, budget, nextObj, madeFor, removed, refused, raced, during, left, overlap>>
      /\ Set(t, Idle) /\ state' = [state EXCEPT ![call[t].i] = "gone"]
  BY DEF Gone, lists, caches, history
<1>2. StateInv' /\ OwnersInv'
  <2>1. state' \in [Items -> {"new", "listed", "unlisted", "gone"}]
    BY <1>0, <1>1 DEF StateInv
  <2>2. StateInv'
    BY <1>0, <1>1, <2>1 DEF StateInv
  <2>3. QED
    BY <1>0, <1>1, <2>2 DEF OwnersInv
<1>3. Elsewhere(Idle) /\ Elsewhere(call[t]) /\ Idle.pc \notin {"storeRef", "getObject", "closeWait"} /\ ~ Holds(Idle) /\ CallOK(Idle)
  BY <1>0, IdleIs DEF Elsewhere, TrackPCs, Holds
<1>4. UNCHANGED <<tracked, nextObj, madeFor, removed, adding, latch, closed>> /\ current' = current
  BY <1>1
<1>5. QED
  BY <1>1, <1>2, <1>3, <1>4, CallStep
-----------------------------------------------------------------------------
(* The delivery of events. *)

LEMMA CountUpKeeps ==
    ASSUME IInv, NEW t \in Threads, CountUp(t) PROVE IInv' /\ StepOK
<1>0. CallsInv /\ StateInv /\ OwnersInv /\ CountInv /\ LifeInv /\ CallOK(call[t]) /\ call[t].pc = "countUp"
  BY DEF IInv, CallsInv, CountUp, At
<1>1. PICK c : c = call[t]
  OBVIOUS
<1>2. PICK d : d = [c EXCEPT !.pc = "check"]
  OBVIOUS
<1>3. PICK k : k = c.g
  OBVIOUS
<1>4. /\ k \in Gens /\ c.g # 0 /\ c.i # 0 /\ c.ev # "none" /\ c.from \in Events /\ c.o = 0
      /\ "check" \in PCs /\ "check" \notin TrackPCs /\ "check" # "removing"
  BY <1>0, <1>1, <1>3, CallIs DEF CallOK, ItemPCs, GenPCs, EventPCs, PCs, TrackPCs
<1>5. CallOK(d) /\ d.pc = "check" /\ d.from = c.from /\ d.g = c.g /\ d.o = c.o
  BY <1>0, <1>1, <1>2, <1>4, GotoIs
<1>6. /\ Set(t, d) /\ latch' = IF latch[k] >= 0 THEN [latch EXCEPT ![k] = @ + 1] ELSE latch
      /\ UNCHANGED <<state, matching, listener, current, opened, closed, initial, adding, tracked, cachedReference,
                     cachedService, dOwner, tOwner, budget, nextObj, madeFor, removed, refused, raced, during, left, overlap>>
  BY <1>1, <1>2, <1>3 DEF CountUp, Goto, services, lists, caches, history
<1>7. Moves(t, d) /\ call'[t] = d
  <2>1. d \in CallType /\ call \in [Threads -> CallType]
    BY <1>0, <1>5 DEF CallsInv, CallOK
  <2>2. QED
    BY <1>6, <2>1, SetIs DEF Moves
<1>8. CallsInv'
  BY <1>0, <1>5, <1>6, <1>7, CallsKeep
<1>9. latch \in [Gens -> Int] /\ latch' \in [Gens -> Int] /\ \A g \in Gens : g # k => latch'[g] = latch[g]
  BY <1>0, <1>4, <1>6 DEF StateInv
<1>10. StateInv'
  BY <1>0, <1>6, <1>9 DEF StateInv
<1>11. OwnersInv'
  BY <1>0, <1>6 DEF OwnersInv
<1>12. CountInv'
  <2>1. \A g : ~ Counted(c, g) /\ ~ Past(c, g) /\ ~ Past(d, g)
    BY <1>0, <1>1, <1>4, <1>5 DEF Counted, Past, TrackPCs
  <2>2. Counted(d, k) /\ \A g : g # k => ~ Counted(d, g)
    BY <1>3, <1>4, <1>5 DEF Counted, InEvent
  <2>3. \A g, u : u \in Threads /\ Past(call'[u], g) => Past(call[u], g)
    BY <1>0, <1>7, <2>1, CountedSame
  <2>4. \A g : g # k => CountedIn(g)' = CountedIn(g)
    BY <1>0, <1>1, <1>7, <2>1, <2>2, CountedSame DEF CountedIn
  <2>5. CountedIn(k)' = CountedIn(k) \cup {t} /\ t \notin CountedIn(k)
    BY <1>0, <1>1, <1>7, <2>1, <2>2, CountedSame DEF CountedIn
  <2>6. IsFiniteSet(CountedIn(k)) /\ Cardinality(CountedIn(k)) \in Nat
    BY CountedFinite
  <2>7. Cardinality(CountedIn(k) \cup {t}) = Cardinality(CountedIn(k)) + 1
    BY <2>5, <2>6, FS_AddElement
  <2>8. /\ latch'[k] = Unusable => latch[k] = Unusable
        /\ latch'[k] # Unusable => latch'[k] = Cardinality(CountedIn(k)')
    <3>1. CASE latch[k] = Unusable
      BY <1>4, <1>6, <1>9, <3>1 DEF Unusable
    <3>2. CASE latch[k] # Unusable
      <4>1. latch[k] = Cardinality(CountedIn(k))
        BY <1>0, <1>4, <3>2 DEF CountInv
      <4>2. latch'[k] = latch[k] + 1
        BY <1>4, <1>6, <1>9, <2>6, <4>1
      <4>3. QED
        BY <2>5, <2>6, <2>7, <4>1, <4>2, <3>2 DEF Unusable
    <3>3. QED
      BY <3>1, <3>2
  <2>9. ASSUME NEW g \in Gens
        PROVE  /\ latch'[g] = Unusable => g \in closed /\ \A u \in Threads : ~ Past(call'[u], g)
               /\ latch'[g] # Unusable => latch'[g] = Cardinality(CountedIn(g)')
    <3>1. CASE g = k
      BY <1>0, <1>4, <2>3, <2>8, <3>1 DEF CountInv
    <3>2. CASE g # k
      BY <1>0, <1>9, <2>3, <2>4, <3>2 DEF CountInv
    <3>3. QED
      BY <3>1, <3>2
  <2>10. QED
    BY <1>6, <2>9 DEF CountInv
<1>13. LifeInv' /\ StepOK
  <2>1. ~ Holds(call[t]) /\ ~ Holds(d)
    BY <1>0, <1>5 DEF Holds
  <2>2. \A g \in Gens : \A i \in adding'[g] : tracked[g][i] = 0
    BY <1>0, <1>6 DEF LifeInv
  <2>3. QED
    BY <1>0, <1>6, <1>7, <2>1, <2>2, LifeQuiet
<1>14. QED
  BY <1>8, <1>10, <1>11, <1>12, <1>13 DEF IInv

LEMMA CheckKeeps ==
    ASSUME IInv, NEW t \in Threads, Check(t) PROVE IInv' /\ StepOK
<1>0. CallsInv /\ StateInv /\ OwnersInv /\ CountInv /\ LifeInv /\ CallOK(call[t]) /\ call[t].pc = "check"
  BY DEF IInv, CallsInv, Check, At
<1>1. UNCHANGED <<state, matching, listener, current, opened, closed, initial, adding, tracked, cachedReference,
                  cachedService, dOwner, tOwner, budget, nextObj, madeFor, removed, refused, raced, during, left, overlap>>
  BY DEF Check, services, lists, caches, history
<1>2. PICK c : c = call[t]
  OBVIOUS
<1>3. OwnersInv' /\ (latch' \in [Gens -> Int] => StateInv')
  <2>1. OwnersInv'
    BY <1>0, <1>1 DEF OwnersInv
  <2>2. latch' \in [Gens -> Int] => StateInv'
    BY <1>0, <1>1 DEF StateInv
  <2>3. QED
    BY <2>1, <2>2
<1>4. \A g \in Gens : \A i \in adding'[g] : tracked[g][i] = 0
  BY <1>0, <1>1 DEF LifeInv
<1>5. CASE c.g \notin closed /\ state[c.i] # "gone"
  <2>1. PICK d : d = [c EXCEPT !.pc = c.ev]
    OBVIOUS
  <2>2. Set(t, d) /\ latch' = latch
    BY <1>2, <1>5, <2>1 DEF Check, Goto
  <2>3. /\ c.g # 0 /\ c.g \in Gens /\ c.i # 0 /\ c.ev \in {"track", "untrack"} /\ c.from \in Events /\ c.o = 0
        /\ c.ev \in PCs /\ c.ev \in TrackPCs /\ c.ev \notin EventPCs \cup {"removing"}
    BY <1>0, <1>2, CallIs DEF CallOK, ItemPCs, GenPCs, EventPCs, PCs, TrackPCs
  <2>4. CallOK(d) /\ d.pc = c.ev /\ d.from = c.from /\ d.g = c.g /\ d.o = c.o
    <3>1. c.ev \notin {"countUp", "check"}
      BY <2>3
    <3>2. QED
      BY <1>0, <1>2, <2>1, <2>3, <3>1, GotoIs
  <2>5. Moves(t, d)
    <3>1. d \in CallType /\ call \in [Threads -> CallType]
      BY <1>0, <2>4 DEF CallsInv, CallOK
    <3>2. QED
      BY <2>2, <3>1, SetIs
  <2>6. CallsInv'
    <3>1. d.pc \notin {"storeRef", "getObject", "closeWait"}
      BY <2>3, <2>4
    <3>2. QED
      BY <1>0, <1>1, <2>4, <2>5, <3>1, CallsKeep
  <2>7. CountInv'
    <3>1. \A g \in Gens : Counted(d, g) <=> Counted(call[t], g)
      BY <1>0, <1>2, <2>3, <2>4 DEF Counted, InEvent
    <3>2. \A g \in Gens : Past(d, g) => latch[g] # Unusable
      BY <1>0, <1>5, <2>4 DEF CountInv, Past
    <3>3. QED
      BY <1>0, <1>1, <2>2, <2>5, <3>1, <3>2, CountQuiet
  <2>8. LifeInv' /\ StepOK
    <3>1. ~ Holds(call[t]) /\ ~ Holds(d)
      BY <1>0, <2>3, <2>4 DEF Holds
    <3>2. QED
      BY <1>0, <1>1, <1>4, <2>5, <3>1, LifeQuiet
  <2>9. StateInv'
    BY <1>0, <1>3, <2>2 DEF StateInv
  <2>10. QED
    BY <1>3, <2>6, <2>7, <2>8, <2>9 DEF IInv
<1>6. CASE ~ (c.g \notin closed /\ state[c.i] # "gone")
  <2>1. Leave(t)
    BY <1>2, <1>6 DEF Check
  <2>2. ~ Holds(call[t]) /\ call[t].pc \in {"check"} \cup TrackPCs
    BY <1>0 DEF Holds
  <2>3. QED
    BY <1>1, <1>3, <1>4, <2>1, <2>2, LeaveStep
<1>7. QED
  BY <1>5, <1>6

\* What is known of a call in the delivery of an event.
LEMMA TrackingIs ==
    ASSUME IInv, NEW t \in Threads, NEW c, c = call[t], c.pc \in TrackPCs
    PROVE  /\ CallOK(c) /\ c \in CallType /\ c.g \in Gens /\ c.g # 0 /\ c.i \in Items /\ c.i # 0
           /\ c.pc \notin {"final", "removing"} => c.o = 0
<1>1. CallOK(c) /\ c \in CallType
  BY DEF IInv, CallsInv, CallOK
<1>2. c.g # 0 /\ c.i # 0
  BY <1>1 DEF CallOK, GenPCs, ItemPCs
<1>3. c.pc # "storeService"
  BY DEF TrackPCs
<1>4. QED
  BY <1>1, <1>2, <1>3, CallIs DEF CallOK

\* The call goes on at another place of the delivery, with no object in hand.
LEMMA TrackGoto ==
    ASSUME IInv, NEW t \in Threads, call[t].pc \in TrackPCs, call[t].o = 0,
           NEW l \in {"adding", "final", "threw", "modified"}, Set(t, [call[t] EXCEPT !.pc = l]), StateInv',
           UNCHANGED <<tracked, nextObj, madeFor, removed, latch, current, closed, dOwner, tOwner>>,
           \A g \in Gens : \A i \in adding'[g] : tracked[g][i] = 0
    PROVE  IInv' /\ StepOK
<1>1. PICK c : c = call[t]
  OBVIOUS
<1>2. PICK d : d = [c EXCEPT !.pc = l]
  OBVIOUS
<1>3. CallOK(c) /\ c.g # 0 /\ c.i # 0 /\ c.o = 0
  BY <1>1, TrackingIs
<1>4. l \in PCs /\ l \notin {"countUp", "check", "removing"} /\ l \notin EventPCs /\ l \in TrackPCs
  BY DEF PCs, TrackPCs, EventPCs
<1>5. CallOK(d) /\ d.pc = l /\ d.from = c.from /\ d.g = c.g /\ d.o = c.o
  BY <1>2, <1>3, <1>4, GotoIs
<1>6. OwnersInv'
  BY DEF IInv, OwnersInv
<1>7. Moves(t, d)
  <2>1. d \in CallType /\ call \in [Threads -> CallType] /\ Set(t, d)
    BY <1>1, <1>2, <1>5 DEF IInv, CallsInv, CallOK
  <2>2. QED
    BY <2>1, SetIs
<1>8. Rest(t, d)
  BY <1>5, <1>6, <1>7 DEF Rest
<1>9. ~ Holds(call[t]) /\ ~ Holds(d)
  BY <1>1, <1>3, <1>5 DEF Holds
<1>10. QED
  BY <1>1, <1>4, <1>5, <1>8, <1>9, TrackStep

LEMMA TrackKeeps ==
    ASSUME IInv, NEW t \in Threads, Track(t) PROVE IInv' /\ StepOK
<1>0. StateInv /\ OwnersInv /\ LifeInv /\ call[t].pc = "track"
  BY DEF IInv, Track, At
<1>1. /\ UNCHANGED <<state, matching, listener, current, opened, closed, initial, tracked, dOwner, tOwner, budget,
                     nextObj, madeFor, removed, refused, raced, during, left, overlap>>
  BY DEF Track, services, history
<1>2. PICK c : c = call[t]
  OBVIOUS
<1>3. PICK g, i : g = c.g /\ i = c.i
  OBVIOUS
<1>4. c.pc \in TrackPCs /\ "track" \notin {"final", "removing"}
  BY <1>0, <1>2 DEF TrackPCs
<1>5. g \in Gens /\ i \in Items /\ c.o = 0 /\ c \in CallType
  BY <1>0, <1>2, <1>3, <1>4, TrackingIs
<1>6. OwnersInv' /\ \A k \in Gens : \A j \in adding[k] : tracked[k][j] = 0
  <2>1. OwnersInv'
    BY <1>0, <1>1 DEF OwnersInv
  <2>2. QED
    BY <1>0, <2>1 DEF LifeInv
<1>7. CASE Modified /\ Goto(t, "modified") /\ UNCHANGED <<adding, latch>>
  <2>1. Set(t, [call[t] EXCEPT !.pc = "modified"]) /\ "modified" \in {"adding", "final", "threw", "modified"}
    BY <1>7 DEF Goto
  <2>2. StateInv'
    <3>1. cachedReference' \in 0 .. MaxItems /\ cachedService' \in 0 .. MaxObjects /\ cachedReference' = 0
      BY <1>7, TrackerAssumption DEF Modified
    <3>2. QED
      BY <1>0, <1>1, <1>7, <3>1 DEF StateInv
  <2>3. QED
    BY <1>1, <1>2, <1>4, <1>5, <1>6, <1>7, <2>1, <2>2, TrackGoto
<1>8. CASE Leave(t) /\ UNCHANGED <<caches, adding>>
  <2>1. ~ Holds(call[t]) /\ call[t].pc \in {"check"} \cup TrackPCs
    BY <1>0, <1>2, <1>4 DEF Holds
  <2>2. latch' \in [Gens -> Int] => StateInv'
    BY <1>0, <1>1, <1>8 DEF StateInv, caches
  <2>3. QED
    BY <1>1, <1>6, <1>8, <2>1, <2>2, LeaveStep
<1>9. CASE tracked[g][i] = 0 /\ StartAdding(t, g, i, c) /\ UNCHANGED <<caches, latch>>
  <2>1. adding' = [adding EXCEPT ![g] = @ \cup {i}]
    BY <1>9 DEF StartAdding
  <2>2. adding \in [Gens -> SUBSET Items]
    BY <1>0 DEF StateInv
  <2>3. /\ adding' \in [Gens -> SUBSET Items]
        /\ \A k \in Gens : \A j \in adding'[k] : tracked[k][j] = 0
    BY <1>5, <1>6, <1>9, <2>1, <2>2
  <2>4. [c EXCEPT !.pc = "adding", !.i = i] = [c EXCEPT !.pc = "adding"]
    BY <1>3, <1>5 DEF CallType
  <2>5. Set(t, [call[t] EXCEPT !.pc = "adding"]) /\ "adding" \in {"adding", "final", "threw", "modified"}
    BY <1>2, <1>9, <2>4 DEF StartAdding
  <2>6. StateInv'
    BY <1>0, <1>1, <1>9, <2>3 DEF StateInv, caches
  <2>7. QED
    BY <1>1, <1>2, <1>4, <1>5, <1>9, <2>3, <2>5, <2>6, TrackGoto
<1>10. QED
  BY <1>2, <1>3, <1>7, <1>8, <1>9 DEF Track

LEMMA CustomizerModifiedKeeps ==
    ASSUME IInv, NEW t \in Threads, CustomizerModified(t) PROVE IInv' /\ StepOK
<1>0. StateInv /\ OwnersInv /\ LifeInv /\ call[t].pc = "modified" /\ Leave(t)
  BY DEF IInv, CustomizerModified, At
<1>1. UNCHANGED <<state, matching, listener, current, opened, closed, initial, adding, tracked, cachedReference,
                  cachedService, dOwner, tOwner, budget, nextObj, madeFor, removed, refused, raced, during, left, overlap>>
  BY DEF CustomizerModified, services, lists, caches, history
<1>2. ~ Holds(call[t]) /\ call[t].pc \in {"check"} \cup TrackPCs
  BY <1>0 DEF Holds, TrackPCs
<1>3. latch' \in [Gens -> Int] => StateInv'
  BY <1>0, <1>1 DEF StateInv
<1>4. OwnersInv'
  BY <1>0, <1>1 DEF OwnersInv
<1>5. \A k \in Gens : \A j \in adding'[k] : tracked[k][j] = 0
  BY <1>0, <1>1 DEF LifeInv
<1>6. QED
  BY <1>0, <1>1, <1>2, <1>3, <1>4, <1>5, LeaveStep
-----------------------------------------------------------------------------
(* Steps about one object. *)

LEMMA LifeChange ==
    ASSUME CallsInv, NEW t \in Threads, NEW d, Moves(t, d), NEW o \in Objects,
           Holds(call[t]) => call[t].o = o, Holds(d) => d.o = o,
           \A p \in Objects : p # o => /\ IsTracked(p)' <=> IsTracked(p)
                                       /\ p \in removed' <=> p \in removed
                                       /\ p >= nextObj' <=> p >= nextObj
    PROVE  Life' = [Life EXCEPT ![o] = LifeOf(o)'] /\ Life[o] = LifeOf(o)
<1>1. ASSUME NEW p \in Objects, p # o PROVE LifeOf(p)' = LifeOf(p)
  <2>1. p # 0
    BY DEF Objects
  <2>2. ~ Offers(d, p) /\ ~ Offers(call[t], p) /\ ~ Withdraws(d, p) /\ ~ Withdraws(call[t], p)
    BY <1>1, <2>1 DEF Offers, Withdraws, Holds
  <2>3. QED
    BY <1>1, <2>2, LifeSame
<1>2. QED
  BY <1>1 DEF Life

\* What the objects that are held, tracked and removed look like to the customizer.
LEMMA OfferedIs ==
    ASSUME LifeInv, NEW t \in Threads, call[t].pc = "final", call[t].o # 0, nextObj \in Nat, call[t].o \in Nat
    PROVE  LifeOf(call[t].o) = "offered"
<1>1. ~ call[t].o >= nextObj
  BY DEF LifeInv, Holds
<1>2. QED
  BY <1>1 DEF LifeOf, At

LEMMA WithdrawnIs ==
    ASSUME LifeInv, NEW t \in Threads, call[t].pc = "removing", call[t].o # 0, nextObj \in Nat, call[t].o \in Nat
    PROVE  LifeOf(call[t].o) = "withdrawn"
<1>1. ~ call[t].o >= nextObj
  BY DEF LifeInv, Holds
<1>2. ~ \E u \in Threads : At(u, "final") /\ call[u].o = call[t].o
  BY DEF LifeInv, Holds, At
<1>3. QED
  BY <1>1, <1>2 DEF LifeOf, At

LEMMA TrackedIs ==
    ASSUME LifeInv, NEW g \in Gens, NEW i \in Items, tracked[g][i] # 0, nextObj \in Nat, tracked[g][i] \in Nat
    PROVE  LifeOf(tracked[g][i]) = "tracked"
<1>1. ~ tracked[g][i] >= nextObj
  BY DEF LifeInv
<1>2. ~ \E u \in Threads : At(u, "final") /\ call[u].o = tracked[g][i]
  BY DEF LifeInv, Holds, At
<1>3. ~ \E u \in Threads : At(u, "removing") /\ call[u].o = tracked[g][i]
  BY DEF LifeInv, Holds, At
<1>4. QED
  BY <1>1, <1>2, <1>3 DEF LifeOf

\* One place of the map of objects is written.
LEMMA PutIs ==
    ASSUME NEW T \in [Gens -> [Items -> 0 .. MaxObjects]], NEW g \in Gens, NEW i \in Items, NEW o \in 0 .. MaxObjects,
           NEW N, N = [T EXCEPT ![g][i] = o]
    PROVE  /\ N \in [Gens -> [Items -> 0 .. MaxObjects]] /\ N[g][i] = o
           /\ \A k \in Gens, j \in Items : (<<k, j>> # <<g, i>> => N[k][j] = T[k][j])
<1>1. N \in [Gens -> [Items -> 0 .. MaxObjects]] /\ N[g][i] = o
  OBVIOUS
<1>2. \A k \in Gens : k # g => N[k] = T[k]
  OBVIOUS
<1>3. \A j \in Items : j # i => N[g][j] = T[g][j]
  OBVIOUS
<1>4. QED
  BY <1>1, <1>2, <1>3

\* What withdrawing an object does to the tracked objects and to the call that reports it.
TakesAway(t, c, g, i) == /\ tracked[g][i] # 0 /\ tracked' = [tracked EXCEPT ![g][i] = 0]
                        /\ Set(t, [c EXCEPT !.pc = "removing", !.o = tracked[g][i]])

\* Untrack takes the object out of the map and calls the customizer.
LEMMA UntrackObject ==
    ASSUME IInv, NEW t \in Threads, NEW c, c = call[t], c.pc = "untrack", NEW g, NEW i, g = c.g, i = c.i,
           TakesAway(t, c, g, i), UNCHANGED <<adding, latch, current, closed, dOwner, tOwner, nextObj, madeFor, removed>>,
           tracked' \in [Gens -> [Items -> 0 .. MaxObjects]] => StateInv'
    PROVE  IInv' /\ StepOK
<1>0. CallsInv /\ StateInv /\ OwnersInv /\ CountInv /\ LifeInv
  BY DEF IInv
<1>1. c.pc \in TrackPCs /\ "removing" \in PCs /\ "removing" \in TrackPCs /\ "untrack" \notin {"final", "removing"}
  BY DEF TrackPCs, PCs
<1>2. CallOK(c) /\ c \in CallType /\ g \in Gens /\ i \in Items /\ c.o = 0 /\ g # 0 /\ i # 0
  BY <1>1, TrackingIs
<1>3. PICK o : o = tracked[g][i] /\ o # 0
  BY DEF TakesAway
<1>4. tracked \in [Gens -> [Items -> 0 .. MaxObjects]] /\ nextObj \in Nat
  BY <1>0, TrackerAssumption DEF StateInv
<1>5. o \in 0 .. MaxObjects /\ o # 0 /\ o \in Objects /\ o \in Nat
  BY <1>2, <1>3, <1>4, TrackerAssumption DEF Objects
<1>6. /\ tracked' \in [Gens -> [Items -> 0 .. MaxObjects]] /\ tracked'[g][i] = 0
      /\ \A k \in Gens, j \in Items : (<<k, j>> # <<g, i>> => tracked'[k][j] = tracked[k][j])
  <2>1. 0 \in 0 .. MaxObjects
    BY TrackerAssumption
  <2>2. tracked' = [tracked EXCEPT ![g][i] = 0]
    BY DEF TakesAway
  <2>3. QED
    BY <1>2, <1>4, <2>1, <2>2, PutIs
<1>7. PICK d : d = [c EXCEPT !.pc = "removing", !.o = o]
  OBVIOUS
<1>8. d \in CallType /\ d.pc = "removing" /\ d.o = o /\ d.from = c.from /\ d.g = g /\ d.i = i /\ d.ev = c.ev
  BY <1>1, <1>2, <1>5, <1>7 DEF CallType
<1>9. CallOK(d)
  BY <1>2, <1>5, <1>8 DEF CallOK, EventPCs
<1>10. Moves(t, d) /\ call'[t] = d
  <2>1. Set(t, d) /\ call \in [Threads -> CallType]
    BY <1>0, <1>3, <1>7 DEF CallsInv, TakesAway
  <2>2. QED
    BY <1>8, <2>1, SetIs DEF Moves
<1>11. CallsInv'
  BY <1>0, <1>8, <1>9, <1>10, CallsKeep
<1>12. StateInv' /\ OwnersInv'
  <2>1. OwnersInv'
    BY <1>0 DEF OwnersInv
  <2>2. QED
    BY <1>6, <2>1
<1>13. CountInv'
  <2>1. \A k \in Gens : (Counted(d, k) <=> Counted(call[t], k)) /\ (Past(d, k) => Past(call[t], k))
    <3>1. d.from = c.from /\ d.g = c.g /\ d.pc \in TrackPCs /\ c.pc \in TrackPCs /\ c = call[t]
      BY <1>1, <1>8, ZenonT(60)
    <3>2. QED
      BY <3>1 DEF Counted, Past, InEvent
  <2>2. QED
    BY <1>0, <1>10, <2>1, CountQuiet
<1>14. o < nextObj /\ madeFor[o] = <<g, i>> /\ o \notin removed /\ \A u \in Threads : Holds(call[u]) => call[u].o # o
  <2>1. tracked[g][i] # 0 /\ g \in Gens /\ i \in Items
    BY <1>2, <1>3, <1>5
  <2>2. tracked[g][i] < nextObj /\ madeFor[tracked[g][i]] = <<g, i>> /\ tracked[g][i] \notin removed
    BY <1>0, <2>1 DEF LifeInv
  <2>3. \A u \in Threads : Holds(call[u]) => call[u].o # tracked[g][i]
    BY <1>0, <2>1 DEF LifeInv
  <2>4. QED
    BY <1>3, <2>2, <2>3
<1>15. \A k \in Gens, j \in Items : tracked'[k][j] # 0 => tracked'[k][j] = tracked[k][j] /\ tracked'[k][j] # o
  <2>1. \A k \in Gens, j \in Items : tracked[k][j] # 0 => madeFor[tracked[k][j]] = <<k, j>>
    BY <1>0 DEF LifeInv
  <2>2. ASSUME NEW k \in Gens, NEW j \in Items, tracked'[k][j] # 0
        PROVE  tracked'[k][j] = tracked[k][j] /\ tracked'[k][j] # o
    <3>1. <<k, j>> # <<g, i>>
      BY <1>6, <2>2
    <3>2. tracked'[k][j] = tracked[k][j]
      BY <1>6, <3>1
    <3>3. madeFor[tracked[k][j]] = <<k, j>>
      BY <2>1, <2>2, <3>2
    <3>4. QED
      BY <1>14, <3>1, <3>2, <3>3
  <2>3. QED
    BY <2>2
<1>16. \A u \in Threads : u # t /\ Holds(call'[u]) => Holds(call[u]) /\ call'[u] = call[u]
  BY <1>0, <1>10, HoldsSame, SMTT(40)
<1>17. LifeInv'
  <2>0. nextObj' = nextObj /\ madeFor' = madeFor /\ removed' = removed /\ adding' = adding
    OBVIOUS
  <2>1. ASSUME NEW k \in Gens, NEW j \in Items, tracked'[k][j] # 0
        PROVE  tracked'[k][j] < nextObj' /\ madeFor'[tracked'[k][j]] = <<k, j>> /\ tracked'[k][j] \notin removed'
    <3>1. tracked'[k][j] = tracked[k][j]
      BY <1>15, <2>1
    <3>2. tracked[k][j] < nextObj /\ madeFor[tracked[k][j]] = <<k, j>> /\ tracked[k][j] \notin removed
      BY <1>0, <2>1, <3>1 DEF LifeInv
    <3>3. QED
      BY <2>0, <3>1, <3>2
  <2>2. ASSUME NEW u \in Threads, Holds(call'[u])
        PROVE  /\ call'[u].o < nextObj' /\ madeFor'[call'[u].o] = <<call'[u].g, call'[u].i>> /\ call'[u].o \notin removed'
               /\ \A k \in Gens, j \in Items : tracked'[k][j] # call'[u].o
    <3>1. CASE u = t
      <4>1. call'[u].o = o /\ call'[u].g = g /\ call'[u].i = i
        BY <1>8, <1>10, <3>1
      <4>2. \A k \in Gens, j \in Items : tracked'[k][j] # o
        BY <1>5, <1>15
      <4>3. QED
        BY <1>14, <2>0, <4>1, <4>2
    <3>2. CASE u # t
      <4>1. Holds(call[u]) /\ call'[u] = call[u] /\ call[u].o # 0
        BY <1>16, <2>2, <3>2 DEF Holds
      <4>2. /\ call[u].o < nextObj /\ madeFor[call[u].o] = <<call[u].g, call[u].i>> /\ call[u].o \notin removed
            /\ \A k \in Gens, j \in Items : tracked[k][j] # call[u].o
        BY <1>0, <4>1 DEF LifeInv
      <4>3. \A k \in Gens, j \in Items : tracked'[k][j] # call[u].o
        BY <1>15, <4>1, <4>2
      <4>4. QED
        BY <2>0, <4>1, <4>2, <4>3
    <3>3. QED
      BY <3>1, <3>2
  <2>3. \A u, v \in Threads : Holds(call'[u]) /\ Holds(call'[v]) /\ call'[u].o = call'[v].o => u = v
    <3>1. \A u \in Threads : u # t /\ Holds(call'[u]) => Holds(call[u]) /\ call'[u].o = call[u].o /\ call[u].o # o
      BY <1>14, <1>16
    <3>2. call'[t].o = o
      BY <1>8, <1>10
    <3>3. \A u, v \in Threads : Holds(call[u]) /\ Holds(call[v]) /\ call[u].o = call[v].o => u = v
      BY <1>0 DEF LifeInv
    <3>4. QED
      BY <3>1, <3>2, <3>3
  <2>4. ASSUME NEW k \in Gens, NEW j \in adding'[k] PROVE tracked'[k][j] = 0
    <3>1. j \in adding[k] /\ j \in Items
      BY <1>0, <2>0, <2>4 DEF StateInv
    <3>2. tracked[k][j] = 0
      BY <1>0, <3>1 DEF LifeInv
    <3>3. QED
      BY <1>15, <3>1, <3>2
  <2>5. \A p \in removed' : p < nextObj'
    BY <1>0, <2>0 DEF LifeInv
  <2>6. QED
    BY <2>1, <2>2, <2>3, <2>4, <2>5 DEF LifeInv
<1>18. LifeOf(o) = "tracked" /\ LifeOf(o)' = "withdrawn"
  <2>1. LifeOf(o) = "tracked"
    BY <1>0, <1>2, <1>3, <1>4, <1>5, TrackedIs
  <2>2. ~ \E u \in Threads : (At(u, "final") /\ call[u].o = o)'
    BY <1>5, <1>8, <1>10, <1>14, <1>16 DEF At, Holds
  <2>3. LifeOf(o)' = "withdrawn"
    BY <1>4, <1>5, <1>8, <1>10, <1>14, <2>2 DEF LifeOf, At
  <2>4. QED
    BY <2>1, <2>3
<1>19. StepOK
  <2>1. \A p \in Objects : p # o => (IsTracked(p)' <=> IsTracked(p))
    BY <1>3, <1>6, <1>15 DEF IsTracked, Objects
  <2>2. Life' = [Life EXCEPT ![o] = LifeOf(o)'] /\ Life[o] = LifeOf(o)
    <3>1. ~ Holds(call[t]) /\ (Holds(d) => d.o = o)
      BY <1>8 DEF Holds
    <3>2. QED
      BY <1>0, <1>5, <1>10, <2>1, <3>1, LifeChange
  <2>3. Contract!Withdraw(o)
    BY <1>18, <2>2, SMTT(60) DEF Contract!Withdraw, Life
  <2>4. QED
    BY <1>5, <2>3 DEF StepOK, Contract!Next
<1>20. QED
  BY <1>11, <1>12, <1>13, <1>17, <1>19 DEF IInv

LEMMA UntrackKeeps ==
    ASSUME IInv, NEW t \in Threads, Untrack(t) PROVE IInv' /\ StepOK
<1>0. StateInv /\ OwnersInv /\ LifeInv /\ call[t].pc = "untrack"
  BY DEF IInv, Untrack, At
<1>1. UNCHANGED <<state, matching, listener, current, opened, closed, dOwner, tOwner, budget, nextObj, madeFor, removed,
                  raced, during, left, overlap>>
  BY DEF Untrack, services
<1>2. PICK c : c = call[t]
  OBVIOUS
<1>3. PICK g, i : g = c.g /\ i = c.i
  OBVIOUS
<1>4. c.pc \in TrackPCs /\ call[t].pc \in {"check"} \cup TrackPCs /\ ~ Holds(call[t])
  BY <1>0, <1>2 DEF TrackPCs, Holds
<1>5. g \in Gens /\ i \in Items
  BY <1>2, <1>3, <1>4, TrackingIs
<1>6. refused' \subseteq Gens \X Items
  <2>1. refused' \in {refused, refused \cup {<<g, i>>}}
    BY <1>2, <1>3 DEF Untrack
  <2>2. QED
    BY <1>0, <1>5, <2>1 DEF StateInv
<1>7. OwnersInv'
  BY <1>0, <1>1 DEF OwnersInv
<1>8. CASE /\ Leave(t) /\ UNCHANGED <<tracked, cachedReference, cachedService>>
           /\ initial' \in {initial, [initial EXCEPT ![g] = @ \ {i}]} /\ adding' \in {adding, [adding EXCEPT ![g] = @ \ {i}]}
  <2>1. initial \in [Gens -> SUBSET Items] /\ adding \in [Gens -> SUBSET Items]
    BY <1>0 DEF StateInv
  <2>2. /\ initial' \in [Gens -> SUBSET Items] /\ adding' \in [Gens -> SUBSET Items]
        /\ \A k \in Gens : adding'[k] \subseteq adding[k]
    BY <1>5, <1>8, <2>1
  <2>3. latch' \in [Gens -> Int] => StateInv'
    BY <1>0, <1>1, <1>6, <1>8, <2>2 DEF StateInv
  <2>4. \A k \in Gens : \A j \in adding'[k] : tracked[k][j] = 0
    BY <1>0, <2>2 DEF LifeInv
  <2>5. QED
    BY <1>1, <1>4, <1>7, <1>8, <2>3, <2>4, LeaveStep
<1>9. CASE /\ tracked[g][i] # 0 /\ tracked' = [tracked EXCEPT ![g][i] = 0] /\ Modified
           /\ Set(t, [c EXCEPT !.pc = "removing", !.o = tracked[g][i]]) /\ UNCHANGED <<initial, adding, latch>>
  <2>1. cachedReference' \in 0 .. MaxItems /\ cachedService' \in 0 .. MaxObjects /\ cachedReference' = 0
    BY <1>9, TrackerAssumption DEF Modified
  <2>2. tracked' \in [Gens -> [Items -> 0 .. MaxObjects]] => StateInv'
    BY <1>0, <1>1, <1>6, <1>9, <2>1 DEF StateInv
  <2>3. TakesAway(t, c, g, i)
    BY <1>9 DEF TakesAway
  <2>4. QED
    BY <1>0, <1>1, <1>2, <1>3, <1>9, <2>2, <2>3, UntrackObject, ZenonT(60)
<1>10. QED
  BY <1>2, <1>3, <1>8, <1>9 DEF Untrack, lists, caches

\* AddingService returns an object.
LEMMA AddingObject ==
    ASSUME IInv, NEW t \in Threads, NEW c, c = call[t], c.pc = "adding", NEW o, o = nextObj, o <= MaxObjects,
           Set(t, [c EXCEPT !.pc = "final", !.o = o]), nextObj' = nextObj + 1,
           madeFor' = [madeFor EXCEPT ![o] = <<c.g, c.i>>],
           UNCHANGED <<adding, tracked, latch, current, closed, dOwner, tOwner, removed>>,
           nextObj' \in 1 .. MaxObjects + 1 /\ madeFor' \in [Objects -> (Gens \X Items) \cup {NoKey}] => StateInv'
    PROVE  IInv' /\ StepOK
<1>0. CallsInv /\ StateInv /\ OwnersInv /\ CountInv /\ LifeInv
  BY DEF IInv
<1>1. c.pc \in TrackPCs /\ "final" \in PCs /\ "final" \in TrackPCs /\ "adding" \notin {"final", "removing"}
  BY DEF TrackPCs, PCs
<1>2. CallOK(c) /\ c \in CallType /\ c.g \in Gens /\ c.i \in Items /\ c.o = 0 /\ c.g # 0 /\ c.i # 0
  BY <1>1, TrackingIs
<1>3. nextObj \in 1 .. MaxObjects + 1 /\ madeFor \in [Objects -> (Gens \X Items) \cup {NoKey}] /\ MaxObjects \in Nat
  BY <1>0, TrackerAssumption DEF StateInv
<1>4. /\ o \in 0 .. MaxObjects /\ o # 0 /\ o \in Objects /\ o \in Nat /\ nextObj \in Nat
      /\ nextObj' \in 1 .. MaxObjects + 1
  BY <1>3 DEF Objects
<1>5. /\ madeFor' \in [Objects -> (Gens \X Items) \cup {NoKey}] /\ madeFor'[o] = <<c.g, c.i>>
      /\ \A p \in Objects : p # o => madeFor'[p] = madeFor[p]
  BY <1>2, <1>3, <1>4
<1>6. PICK d : d = [c EXCEPT !.pc = "final", !.o = o]
  OBVIOUS
<1>7. d \in CallType /\ d.pc = "final" /\ d.o = o /\ d.from = c.from /\ d.g = c.g /\ d.i = c.i /\ d.ev = c.ev
  BY <1>1, <1>2, <1>4, <1>6 DEF CallType
<1>8. CallOK(d)
  BY <1>2, <1>4, <1>7 DEF CallOK, EventPCs
<1>9. Moves(t, d) /\ call'[t] = d
  <2>1. Set(t, d) /\ call \in [Threads -> CallType]
    BY <1>0, <1>6 DEF CallsInv
  <2>2. QED
    BY <1>7, <2>1, SetIs DEF Moves
<1>10. CallsInv'
  BY <1>0, <1>7, <1>8, <1>9, CallsKeep
<1>11. StateInv' /\ OwnersInv'
  <2>1. OwnersInv'
    BY <1>0 DEF OwnersInv
  <2>2. QED
    BY <1>4, <1>5, <2>1
<1>12. CountInv'
  <2>1. \A k \in Gens : (Counted(d, k) <=> Counted(call[t], k)) /\ (Past(d, k) => Past(call[t], k))
    BY <1>1, <1>7 DEF Counted, Past, InEvent
  <2>2. QED
    BY <1>0, <1>9, <2>1, CountQuiet
<1>13. \A u \in Threads : u # t /\ Holds(call'[u]) => Holds(call[u]) /\ call'[u] = call[u]
  BY <1>0, <1>9, HoldsSame
<1>14. /\ \A k \in Gens, j \in Items : tracked[k][j] # 0 => tracked[k][j] < o /\ tracked[k][j] \in Objects
       /\ \A u \in Threads : Holds(call[u]) => call[u].o < o /\ call[u].o \in Objects
       /\ \A p \in removed : p < o
  <2>1. \A u \in Threads : call[u].o # 0 => call[u].o \in Objects
    BY <1>0, CallIs DEF CallsInv
  <2>2. \A k \in Gens, j \in Items : tracked[k][j] # 0 => tracked[k][j] \in Objects
    BY <1>0, <1>3 DEF StateInv, Objects
  <2>3. QED
    BY <1>0, <2>1, <2>2 DEF LifeInv, Holds
<1>15. LifeInv'
  <2>0. \A p \in Objects : p < o => p < nextObj' /\ p # o /\ madeFor'[p] = madeFor[p]
    BY <1>3, <1>4, <1>5 DEF Objects
  <2>1. \A k \in Gens, j \in Items : tracked[k][j] # 0 =>
           tracked[k][j] < nextObj' /\ madeFor'[tracked[k][j]] = <<k, j>> /\ tracked[k][j] \notin removed
    BY <1>0, <1>14, <2>0 DEF LifeInv
  <2>2. ASSUME NEW u \in Threads, Holds(call'[u])
        PROVE  /\ call'[u].o < nextObj' /\ madeFor'[call'[u].o] = <<call'[u].g, call'[u].i>> /\ call'[u].o \notin removed
               /\ \A k \in Gens, j \in Items : tracked[k][j] # call'[u].o
    <3>1. CASE u = t
      <4>1. o < nextObj' /\ o \notin removed
        BY <1>4, <1>14
      <4>2. \A k \in Gens, j \in Items : tracked[k][j] # o
        BY <1>4, <1>14
      <4>3. QED
        BY <1>5, <1>7, <1>9, <3>1, <4>1, <4>2
    <3>2. CASE u # t
      BY <1>0, <1>13, <1>14, <2>0, <2>2, <3>2 DEF LifeInv
    <3>3. QED
      BY <3>1, <3>2
  <2>3. \A u, v \in Threads : Holds(call'[u]) /\ Holds(call'[v]) /\ call'[u].o = call'[v].o => u = v
    <3>1. \A u \in Threads : u # t /\ Holds(call'[u]) => call'[u].o # o
      BY <1>4, <1>13, <1>14
    <3>2. QED
      BY <1>0, <1>7, <1>9, <1>13, <3>1 DEF LifeInv
  <2>4. \A p \in removed : p < nextObj'
    BY <1>0, <1>4, <1>14 DEF StateInv, Objects
  <2>5. \A k \in Gens : \A j \in adding[k] : tracked[k][j] = 0
    BY <1>0 DEF LifeInv
  <2>6. QED
    BY <2>1, <2>2, <2>3, <2>4, <2>5, ZenonT(60) DEF LifeInv
<1>16. LifeOf(o) = "unborn" /\ LifeOf(o)' = "offered"
  <2>1. LifeOf(o) = "unborn"
    BY <1>4 DEF LifeOf
  <2>2. ~ (o >= nextObj')
    BY <1>4
  <2>3. LifeOf(o)' = "offered"
    BY <1>7, <1>9, <2>2 DEF LifeOf, At
  <2>4. QED
    BY <2>1, <2>3
<1>17. StepOK
  <2>1. \A p \in Objects : p # o => (p >= nextObj' <=> p >= nextObj)
    BY <1>4 DEF Objects
  <2>2. \A p \in Objects : IsTracked(p)' <=> IsTracked(p)
    BY DEF IsTracked
  <2>3. Life' = [Life EXCEPT ![o] = LifeOf(o)'] /\ Life[o] = LifeOf(o)
    <3>1. ~ Holds(call[t]) /\ (Holds(d) => d.o = o)
      BY <1>7 DEF Holds
    <3>2. QED
      BY <1>0, <1>4, <1>9, <2>1, <2>2, <3>1, LifeChange
  <2>4. Contract!Adding(o, <<c.g, c.i>>) /\ <<c.g, c.i>> \in Gens \X Items
    BY <1>2, <1>16, <2>3 DEF Contract!Adding, Life
  <2>5. QED
    BY <1>4, <2>4 DEF StepOK, Contract!Next
<1>18. QED
  BY <1>10, <1>11, <1>12, <1>15, <1>17 DEF IInv

LEMMA CustomizerAddingKeeps ==
    ASSUME IInv, NEW t \in Threads, CustomizerAdding(t) PROVE IInv' /\ StepOK
<1>0. StateInv /\ OwnersInv /\ LifeInv /\ call[t].pc = "adding"
  BY DEF IInv, CustomizerAdding, At
<1>1. UNCHANGED <<state, matching, listener, current, opened, closed, initial, adding, tracked, latch, cachedReference,
                  cachedService, dOwner, tOwner, removed, refused, raced, during, left, overlap>>
  BY DEF CustomizerAdding, services, lists, caches, history
<1>2. PICK c : c = call[t]
  OBVIOUS
<1>3. c.pc \in TrackPCs /\ "adding" \notin {"final", "removing"}
  BY <1>0, <1>2 DEF TrackPCs
<1>4. c.g \in Gens /\ c.i \in Items /\ c.o = 0
  BY <1>0, <1>2, <1>3, TrackingIs
<1>5. \A k \in Gens : \A j \in adding'[k] : tracked[k][j] = 0
  BY <1>0, <1>1 DEF LifeInv
<1>6. CASE /\ nextObj <= MaxObjects /\ Set(t, [c EXCEPT !.pc = "final", !.o = nextObj]) /\ nextObj' = nextObj + 1
           /\ madeFor' = [madeFor EXCEPT ![nextObj] = <<c.g, c.i>>] /\ UNCHANGED budget
  <2>1. nextObj' \in 1 .. MaxObjects + 1 /\ madeFor' \in [Objects -> (Gens \X Items) \cup {NoKey}] => StateInv'
    BY <1>0, <1>1, <1>6 DEF StateInv
  <2>2. PICK o : o = nextObj
    OBVIOUS
  <2>3. /\ o <= MaxObjects /\ Set(t, [c EXCEPT !.pc = "final", !.o = o])
        /\ madeFor' = [madeFor EXCEPT ![o] = <<c.g, c.i>>]
    BY <1>6, <2>2
  <2>4. QED
    BY <1>0, <1>1, <1>2, <1>6, <2>1, <2>2, <2>3, AddingObject
<1>7. CASE \E l \in {"final", "threw"} :
              /\ Goto(t, l) /\ UNCHANGED <<nextObj, madeFor>> /\ (budget' = budget \/ Spend)
  <2>1. PICK l \in {"final", "threw"} : /\ Goto(t, l) /\ UNCHANGED <<nextObj, madeFor>> /\ (budget' = budget \/ Spend)
    BY <1>7
  <2>2. budget' \in 0 .. MaxCalls
    BY <1>0, <2>1, SpendIs DEF StateInv
  <2>3. StateInv'
    BY <1>0, <1>1, <2>1, <2>2 DEF StateInv
  <2>4. l \in {"adding", "final", "threw", "modified"} /\ Set(t, [call[t] EXCEPT !.pc = l])
    BY <2>1 DEF Goto
  <2>5. QED
    BY <1>1, <1>2, <1>3, <1>4, <1>5, <2>1, <2>3, <2>4, TrackGoto
<1>8. QED
  BY <1>2, <1>6, <1>7 DEF CustomizerAdding

\* What holds of a call that has an object.
Holding(t, c) ==
    /\ CallOK(c) /\ c \in CallType /\ c.g \in Gens /\ c.g # 0 /\ c.i \in Items /\ c.i # 0 /\ c.o \in Objects /\ c.o \in Nat
    /\ nextObj \in Nat /\ c.o < nextObj /\ madeFor[c.o] = <<c.g, c.i>> /\ c.o \notin removed /\ Holds(call[t])
    /\ \A k \in Gens, j \in Items : tracked[k][j] # c.o
    /\ \A u \in Threads : u # t /\ Holds(call[u]) => call[u].o # c.o

LEMMA HoldingIs ==
    ASSUME IInv, NEW t \in Threads, NEW c, c = call[t], c.pc \in {"final", "removing"}, c.o # 0
    PROVE  Holding(t, c)
<1>1. c.pc \in TrackPCs /\ Holds(call[t]) /\ LifeInv /\ StateInv
  BY DEF TrackPCs, Holds, IInv
<1>2. CallOK(c) /\ c \in CallType /\ c.g \in Gens /\ c.g # 0 /\ c.i \in Items /\ c.i # 0
  BY <1>1, TrackingIs
<1>3. c.o \in Objects /\ c.o \in Nat /\ nextObj \in Nat
  <2>1. c.o \in Objects
    BY <1>2, CallIs
  <2>2. nextObj \in 1 .. MaxObjects + 1 /\ MaxObjects \in Nat
    BY <1>1, TrackerAssumption DEF StateInv
  <2>3. QED
    BY <2>1, <2>2 DEF Objects
<1>4. /\ c.o < nextObj /\ madeFor[c.o] = <<c.g, c.i>> /\ c.o \notin removed
      /\ \A k \in Gens, j \in Items : tracked[k][j] # c.o
  BY <1>1 DEF LifeInv
<1>5. \A u \in Threads : u # t /\ Holds(call[u]) => call[u].o # c.o
  BY <1>1 DEF LifeInv
<1>6. QED
  BY <1>1, <1>2, <1>3, <1>4, <1>5 DEF Holding

\* What accepting an object does to the lists of the generation.
Accepts(g, i, o) == adding' = [adding EXCEPT ![g] = @ \ {i}] /\ tracked' = [tracked EXCEPT ![g][i] = o]

\* The item is still wanted: its object is tracked and the waiting threads are woken.
LEMMA AcceptObject ==
    ASSUME IInv, NEW t \in Threads, NEW c, c = call[t], c.pc = "final", NEW g, NEW i, NEW o, g = c.g, i = c.i, o = c.o, o # 0,
           i \in adding[g], Accepts(g, i, o),
           NEW d, d = AfterTracking(c), Moves(t, d), latch' = CountDown(t),
           UNCHANGED <<current, closed, dOwner, tOwner, nextObj, madeFor, removed>>,
           adding' \in [Gens -> SUBSET Items] /\ latch' \in [Gens -> Int]
              /\ tracked' \in [Gens -> [Items -> 0 .. MaxObjects]] => StateInv'
    PROVE  IInv' /\ StepOK
<1>0. CallsInv /\ StateInv /\ OwnersInv /\ CountInv /\ LifeInv
  BY DEF IInv
<1>1. /\ call[t].pc \in {"check"} \cup TrackPCs /\ c.pc \in {"notify", "check"} \cup TrackPCs
      /\ c.pc \in {"final", "removing"} /\ c.o # 0
  BY DEF TrackPCs
<1>2. /\ CallOK(c) /\ g \in Gens /\ i \in Items /\ o \in Objects /\ o \in Nat /\ nextObj \in Nat
      /\ o < nextObj /\ madeFor[o] = <<g, i>> /\ o \notin removed /\ Holds(call[t])
      /\ \A k \in Gens, j \in Items : tracked[k][j] # o
      /\ \A u \in Threads : u # t /\ Holds(call[u]) => call[u].o # o
  <2>1. Holding(t, c)
    BY <1>1, HoldingIs
  <2>2. QED
    BY <2>1 DEF Holding
<1>3. /\ adding \in [Gens -> SUBSET Items] /\ tracked \in [Gens -> [Items -> 0 .. MaxObjects]]
      /\ tracked[g][i] = 0 /\ o \in 0 .. MaxObjects
  <2>1. tracked[g][i] = 0
    BY <1>0, <1>2 DEF LifeInv
  <2>2. adding \in [Gens -> SUBSET Items] /\ tracked \in [Gens -> [Items -> 0 .. MaxObjects]]
    BY <1>0 DEF StateInv
  <2>3. o \in 0 .. MaxObjects
    BY <1>2, TrackerAssumption DEF Objects
  <2>4. QED
    BY <2>1, <2>2, <2>3
<1>4. /\ tracked' \in [Gens -> [Items -> 0 .. MaxObjects]] /\ tracked'[g][i] = o
      /\ \A k \in Gens, j \in Items : (<<k, j>> # <<g, i>> => tracked'[k][j] = tracked[k][j])
  <2>1. tracked' = [tracked EXCEPT ![g][i] = o]
    BY DEF Accepts
  <2>2. QED
    BY <1>2, <1>3, <2>1, PutIs
<1>5. /\ adding' \in [Gens -> SUBSET Items] /\ i \notin adding'[g] /\ \A k \in Gens : adding'[k] \subseteq adding[k]
  BY <1>2, <1>3 DEF Accepts
<1>7. /\ CallOK(d) /\ d \in CallType /\ ~ Holds(d) /\ d.pc \in {"idle", "initial", "closeEach", "gone"}
      /\ \A k : ~ Counted(d, k) /\ ~ Past(d, k)
  BY <1>1, <1>2, AfterIs DEF CallOK
<1>8. Moves(t, d) /\ call'[t] = d
  BY DEF Moves
<1>9. CallsInv'
  BY <1>0, <1>7, <1>8, CallsKeep
<1>10. CountInv' /\ latch' \in [Gens -> Int]
  BY <1>0, <1>1, <1>7, <1>8, CountLeave
<1>11. StateInv' /\ OwnersInv'
  <2>1. OwnersInv'
    BY <1>0 DEF OwnersInv
  <2>2. QED
    BY <1>4, <1>5, <1>10, <2>1
<1>12. \A u \in Threads : Holds(call'[u]) => u # t /\ Holds(call[u]) /\ call'[u] = call[u] /\ call[u].o # o
  <2>1. \A u \in Threads : u # t /\ Holds(call'[u]) => Holds(call[u]) /\ call'[u] = call[u]
    BY <1>0, <1>8, HoldsSame
  <2>2. QED
    BY <1>2, <1>7, <1>8, <2>1
<1>13. LifeInv'
  <2>0. nextObj' = nextObj /\ madeFor' = madeFor /\ removed' = removed
    OBVIOUS
  <2>1. \A k \in Gens, j \in Items : tracked'[k][j] = tracked[k][j] \/ (tracked'[k][j] = o /\ k = g /\ j = i)
    BY <1>4
  <2>2. ASSUME NEW k \in Gens, NEW j \in Items, tracked'[k][j] # 0
        PROVE  tracked'[k][j] < nextObj' /\ madeFor'[tracked'[k][j]] = <<k, j>> /\ tracked'[k][j] \notin removed'
    <3>1. CASE tracked'[k][j] = o /\ k = g /\ j = i
      BY <1>2, <2>0, <3>1
    <3>2. CASE tracked'[k][j] = tracked[k][j]
      BY <1>0, <2>0, <2>2, <3>2 DEF LifeInv
    <3>3. QED
      BY <2>1, <3>1, <3>2
  <2>3. ASSUME NEW u \in Threads, Holds(call'[u])
        PROVE  /\ call'[u].o < nextObj' /\ madeFor'[call'[u].o] = <<call'[u].g, call'[u].i>> /\ call'[u].o \notin removed'
               /\ \A k \in Gens, j \in Items : tracked'[k][j] # call'[u].o
    <3>1. Holds(call[u]) /\ call'[u] = call[u] /\ call[u].o # o
      BY <1>12, <2>3
    <3>2. /\ call[u].o < nextObj /\ madeFor[call[u].o] = <<call[u].g, call[u].i>> /\ call[u].o \notin removed
          /\ \A k \in Gens, j \in Items : tracked[k][j] # call[u].o
      BY <1>0, <3>1 DEF LifeInv
    <3>3. QED
      BY <2>0, <2>1, <3>1, <3>2
  <2>4. \A u, v \in Threads : Holds(call'[u]) /\ Holds(call'[v]) /\ call'[u].o = call'[v].o => u = v
    BY <1>0, <1>12 DEF LifeInv
  <2>5. \A k \in Gens : \A j \in adding'[k] : tracked'[k][j] = 0
    BY <1>0, <1>3, <1>4, <1>5 DEF LifeInv
  <2>6. \A p \in removed' : p < nextObj'
    BY <1>0, <2>0 DEF LifeInv
  <2>7. QED
    BY <2>2, <2>3, <2>4, <2>5, <2>6 DEF LifeInv
<1>14. LifeOf(o) = "offered" /\ LifeOf(o)' = "tracked"
  <2>1. LifeOf(o) = "offered"
    BY <1>0, <1>2, OfferedIs
  <2>2. ~ (o >= nextObj')
    BY <1>2
  <2>3. ~ \E u \in Threads : (At(u, "final") /\ call[u].o = o)'
    BY <1>12 DEF At, Holds
  <2>4. ~ \E u \in Threads : (At(u, "removing") /\ call[u].o = o)'
    BY <1>12 DEF At, Holds
  <2>5. LifeOf(o)' = "tracked"
    BY <1>2, <1>4, <2>2, <2>3, <2>4 DEF LifeOf
  <2>6. QED
    BY <2>1, <2>5
<1>15. StepOK
  <2>1. ASSUME NEW p \in Objects, p # o PROVE IsTracked(p)' <=> IsTracked(p)
    <3>1. p # 0
      BY DEF Objects
    <3>2. ASSUME NEW k \in Gens, NEW j \in Items PROVE tracked'[k][j] = p <=> tracked[k][j] = p
      <4>1. CASE <<k, j>> = <<g, i>>
        BY <1>3, <1>4, <2>1, <3>1, <4>1
      <4>2. CASE <<k, j>> # <<g, i>>
        BY <1>4, <4>2
      <4>3. QED
        BY <4>1, <4>2
    <3>3. QED
      BY <3>2 DEF IsTracked
  <2>2. Life' = [Life EXCEPT ![o] = LifeOf(o)'] /\ Life[o] = LifeOf(o)
    BY <1>0, <1>2, <1>7, <1>8, <2>1, LifeChange
  <2>3. ASSUME NEW p \in Objects, Life[p] = "tracked" PROVE madeFor[p] # madeFor[o]
    <3>1. LifeOf(p) = "tracked" /\ p # 0
      BY <2>3 DEF Life, Objects
    <3>2. \E k \in Gens : \E j \in Items : tracked[k][j] = p
      BY <3>1 DEF LifeOf
    <3>3. PICK k \in Gens, j \in Items : tracked[k][j] = p
      BY <3>2
    <3>4. madeFor[p] = <<k, j>>
      BY <1>0, <3>1, <3>3 DEF LifeInv
    <3>5. <<k, j>> # <<g, i>>
      BY <1>3, <3>1, <3>3
    <3>6. QED
      BY <1>2, <3>4, <3>5
  <2>4. Contract!Accept(o)
    BY <1>14, <2>2, <2>3 DEF Contract!Accept, Life
  <2>5. QED
    BY <1>2, <2>4 DEF StepOK, Contract!Next
<1>16. QED
  BY <1>9, <1>10, <1>11, <1>13, <1>15 DEF IInv

\* The item was untracked, or the tracker closed, meanwhile: the object is given back.
LEMMA WithdrawObject ==
    ASSUME IInv, NEW t \in Threads, NEW c, c = call[t], c.pc = "final", NEW o, o = c.o, o # 0,
           Set(t, [c EXCEPT !.pc = "removing"]), \A k \in Gens : adding'[k] \subseteq adding[k],
           UNCHANGED <<tracked, latch, current, closed, dOwner, tOwner, nextObj, madeFor, removed>>, StateInv'
    PROVE  IInv' /\ StepOK
<1>0. CallsInv /\ StateInv /\ OwnersInv /\ CountInv /\ LifeInv
  BY DEF IInv
<1>1. /\ c.pc \in TrackPCs /\ "removing" \in TrackPCs /\ "removing" \in PCs /\ "removing" \notin EventPCs
      /\ "removing" \notin {"countUp", "check"} /\ "removing" \in {"final", "removing", "storeService"}
  BY DEF TrackPCs, PCs, EventPCs
<1>2. /\ CallOK(c) /\ c.g # 0 /\ c.i # 0 /\ o \in Objects /\ o \in Nat /\ nextObj \in Nat
      /\ o < nextObj /\ madeFor[o] = <<c.g, c.i>> /\ o \notin removed /\ Holds(call[t])
      /\ \A k \in Gens, j \in Items : tracked[k][j] # o
      /\ \A u \in Threads : u # t /\ Holds(call[u]) => call[u].o # o
  <2>1. Holding(t, c)
    BY HoldingIs
  <2>2. QED
    BY <2>1 DEF Holding
<1>3. PICK d : d = [c EXCEPT !.pc = "removing"]
  OBVIOUS
<1>4. CallOK(d) /\ d.pc = "removing" /\ d.o = o /\ d.from = c.from /\ d.g = c.g /\ d.i = c.i
  BY <1>1, <1>2, <1>3, GotoIs
<1>5. Moves(t, d) /\ call'[t] = d
  <2>1. Set(t, d) /\ call \in [Threads -> CallType] /\ d \in CallType
    BY <1>0, <1>3, <1>4 DEF CallsInv, CallOK
  <2>2. QED
    BY <2>1, SetIs DEF Moves
<1>6. CallsInv'
  BY <1>0, <1>4, <1>5, CallsKeep
<1>7. OwnersInv'
  BY <1>0 DEF OwnersInv
<1>8. CountInv'
  <2>1. \A k \in Gens : (Counted(d, k) <=> Counted(call[t], k)) /\ (Past(d, k) => Past(call[t], k))
    BY <1>1, <1>4 DEF Counted, Past, InEvent
  <2>2. QED
    BY <1>0, <1>5, <2>1, CountQuiet
<1>9. \A u \in Threads : u # t /\ Holds(call'[u]) => Holds(call[u]) /\ call'[u] = call[u] /\ call[u].o # o
  BY <1>0, <1>2, <1>5, HoldsSame
<1>10. LifeInv'
  <2>1. \A u \in Threads : Holds(call'[u]) =>
          /\ call'[u].o < nextObj /\ madeFor[call'[u].o] = <<call'[u].g, call'[u].i>> /\ call'[u].o \notin removed
          /\ \A k \in Gens, j \in Items : tracked[k][j] # call'[u].o
    BY <1>0, <1>2, <1>4, <1>5, <1>9 DEF LifeInv
  <2>2. \A u, v \in Threads : Holds(call'[u]) /\ Holds(call'[v]) /\ call'[u].o = call'[v].o => u = v
    BY <1>0, <1>4, <1>5, <1>9 DEF LifeInv
  <2>3. /\ \A k \in Gens : \A j \in adding'[k] : tracked[k][j] = 0
        /\ \A p \in removed : p < nextObj
        /\ \A k \in Gens, j \in Items : tracked[k][j] # 0 =>
              tracked[k][j] < nextObj /\ madeFor[tracked[k][j]] = <<k, j>> /\ tracked[k][j] \notin removed
    BY <1>0 DEF LifeInv
  <2>4. QED
    BY <2>1, <2>2, <2>3 DEF LifeInv
<1>11. LifeOf(o) = "offered" /\ LifeOf(o)' = "withdrawn"
  <2>1. LifeOf(o) = "offered"
    BY <1>0, <1>2, OfferedIs
  <2>2. ~ (o >= nextObj')
    BY <1>2
  <2>3. ~ \E u \in Threads : (At(u, "final") /\ call[u].o = o)'
    BY <1>4, <1>5, <1>9 DEF At, Holds
  <2>4. LifeOf(o)' = "withdrawn"
    BY <1>4, <1>5, <2>2, <2>3 DEF LifeOf, At
  <2>5. QED
    BY <2>1, <2>4
<1>12. StepOK
  <2>1. \A p \in Objects : IsTracked(p)' <=> IsTracked(p)
    BY DEF IsTracked
  <2>2. Life' = [Life EXCEPT ![o] = LifeOf(o)'] /\ Life[o] = LifeOf(o)
    BY <1>0, <1>2, <1>4, <1>5, <2>1, LifeChange
  <2>3. Contract!Withdraw(o)
    BY <1>11, <2>2 DEF Contract!Withdraw, Life
  <2>4. QED
    BY <1>2, <2>3 DEF StepOK, Contract!Next
<1>13. QED
  BY <1>6, <1>7, <1>8, <1>10, <1>12 DEF IInv

LEMMA CustomizerAddingFinalKeeps ==
    ASSUME IInv, NEW t \in Threads, CustomizerAddingFinal(t) PROVE IInv' /\ StepOK
<1>0. CallsInv /\ StateInv /\ OwnersInv /\ CountInv /\ LifeInv /\ call[t].pc \in {"final", "threw"}
  BY DEF IInv, CustomizerAddingFinal
<1>1. UNCHANGED <<state, matching, listener, current, opened, closed, initial, dOwner, tOwner, budget, nextObj, madeFor,
                  removed, raced, left, overlap>>
  BY DEF CustomizerAddingFinal, services
<1>2. PICK c : c = call[t]
  OBVIOUS
<1>3. PICK g, i, o : g = c.g /\ i = c.i /\ o = c.o
  OBVIOUS
<1>4. /\ c.pc \in TrackPCs /\ call[t].pc \in {"check"} \cup TrackPCs /\ c.pc \in {"notify", "check"} \cup TrackPCs
      /\ c.pc \in {"final", "threw"} /\ "threw" \notin {"final", "removing"}
  BY <1>0, <1>2 DEF TrackPCs
<1>5. CallOK(c) /\ c \in CallType /\ g \in Gens /\ i \in Items /\ (c.pc = "threw" => o = 0)
  BY <1>2, <1>3, <1>4, TrackingIs
<1>6. adding' = [adding EXCEPT ![g] = @ \ {i}] /\ adding \in [Gens -> SUBSET Items]
  BY <1>0, <1>2, <1>3 DEF CustomizerAddingFinal, StateInv
<1>7. /\ adding' \in [Gens -> SUBSET Items] /\ \A k \in Gens : adding'[k] \subseteq adding[k]
      /\ \A k \in Gens : \A j \in adding'[k] : tracked[k][j] = 0
  <2>1. adding' \in [Gens -> SUBSET Items] /\ \A k \in Gens : adding'[k] \subseteq adding[k]
    BY <1>5, <1>6
  <2>2. QED
    BY <1>0, <2>1 DEF LifeInv
<1>8. refused \cup {<<g, i>>} \subseteq Gens \X Items
  BY <1>0, <1>5 DEF StateInv
<1>9. CASE /\ i \in adding[g] /\ o # 0 /\ tracked' = [tracked EXCEPT ![g][i] = o] /\ Modified
           /\ call' = Woken([call EXCEPT ![t] = AfterTracking(c)], g)
           /\ latch' = CountDown(t) /\ refused' = refused \ {<<g, i>>} /\ during' = during
  <2>1. PICK d : d = AfterTracking(c)
    OBVIOUS
  <2>2. d \in CallType /\ d.pc # "asleep"
    BY <1>4, <1>5, <2>1, AfterIs DEF CallOK
  <2>3. Moves(t, d)
    BY <1>0, <1>9, <2>1, <2>2, WokenIs DEF CallsInv
  <2>4. cachedReference' \in 0 .. MaxItems /\ cachedService' \in 0 .. MaxObjects /\ cachedReference' = 0
    BY <1>9, TrackerAssumption DEF Modified
  <2>5. refused' \subseteq Gens \X Items
    BY <1>0, <1>9 DEF StateInv
  <2>6. adding' \in [Gens -> SUBSET Items] /\ latch' \in [Gens -> Int]
           /\ tracked' \in [Gens -> [Items -> 0 .. MaxObjects]] => StateInv'
    BY <1>0, <1>1, <1>9, <2>4, <2>5 DEF StateInv
  <2>7. c.pc = "final"
    BY <1>4, <1>5, <1>9
  <2>8. /\ i \in adding[g] /\ o # 0 /\ tracked' = [tracked EXCEPT ![g][i] = o] /\ latch' = CountDown(t)
        /\ UNCHANGED <<current, closed, dOwner, tOwner, nextObj, madeFor, removed>>
    BY <1>1, <1>9
  <2>9. Accepts(g, i, o)
    BY <1>6, <2>8 DEF Accepts
  <2>10. QED
    BY <1>2, <1>3, <2>1, <2>3, <2>6, <2>7, <2>8, <2>9, AcceptObject
<1>10. CASE o # 0 /\ Goto(t, "removing") /\ UNCHANGED <<tracked, caches, latch, refused, during>>
  <2>1. Set(t, [c EXCEPT !.pc = "removing"])
    BY <1>2, <1>10 DEF Goto
  <2>2. StateInv'
    BY <1>0, <1>1, <1>7, <1>10 DEF StateInv, caches
  <2>3. c.pc = "final"
    BY <1>4, <1>5, <1>10
  <2>4. QED
    BY <1>1, <1>2, <1>3, <1>7, <1>10, <2>1, <2>2, <2>3, WithdrawObject
<1>11. CASE o = 0 /\ Leave(t) /\ UNCHANGED <<tracked, caches, during>> /\ refused' = refused \cup {<<g, i>>}
  <2>1. ~ Holds(call[t])
    BY <1>2, <1>3, <1>11 DEF Holds
  <2>2. latch' \in [Gens -> Int] => StateInv'
    BY <1>0, <1>1, <1>7, <1>11, <1>8 DEF StateInv, caches
  <2>3. OwnersInv'
    BY <1>0, <1>1 DEF OwnersInv
  <2>4. QED
    BY <1>1, <1>4, <1>7, <1>11, <2>1, <2>2, <2>3, LeaveStep
<1>12. CASE /\ o = 0 /\ c.from = "initial" /\ Set(t, Idle) /\ during' = during \cup initial[g]
            /\ UNCHANGED <<tracked, caches, latch>> /\ refused' = refused \cup {<<g, i>>}
  <2>1. ~ Holds(call[t]) /\ ~ Holds(Idle)
    BY <1>2, <1>3, <1>12, IdleIs DEF Holds
  <2>2. during' \subseteq Items
    BY <1>0, <1>5, <1>12 DEF StateInv
  <2>3. StateInv'
    BY <1>0, <1>1, <1>7, <1>12, <1>8, <2>2 DEF StateInv, caches
  <2>4. OwnersInv'
    BY <1>0, <1>1 DEF OwnersInv
  <2>5. Moves(t, Idle)
    BY <1>0, <1>12, IdleIs, SetIs DEF CallsInv
  <2>6. CallsInv'
    BY <1>0, <1>1, <2>5, IdleIs, CallsKeep
  <2>7. CountInv'
    <3>1. \A k \in Gens : ~ Counted(Idle, k) /\ ~ Past(Idle, k) /\ ~ Counted(call[t], k)
      BY <1>2, <1>12, IdleIs DEF Counted, Past, InEvent, Events
    <3>2. QED
      BY <1>0, <1>1, <1>12, <2>5, <3>1, CountQuiet
  <2>8. LifeInv' /\ StepOK
    BY <1>0, <1>1, <1>7, <1>12, <2>1, <2>5, LifeQuiet
  <2>9. QED
    BY <2>3, <2>4, <2>6, <2>7, <2>8 DEF IInv
<1>13. QED
  BY <1>2, <1>3, <1>9, <1>10, <1>11, <1>12 DEF CustomizerAddingFinal, StillWanted

LEMMA CustomizerRemovedKeeps ==
    ASSUME IInv, NEW t \in Threads, CustomizerRemoved(t) \/ CustomizerRemovedThrows(t) PROVE IInv' /\ StepOK
<1>0. CallsInv /\ StateInv /\ OwnersInv /\ CountInv /\ LifeInv /\ call[t].pc = "removing"
  BY DEF IInv, CustomizerRemoved, CustomizerRemovedThrows, At
<1>1. UNCHANGED <<state, matching, listener, current, opened, closed, initial, adding, tracked, cachedReference,
                  cachedService, dOwner, tOwner, nextObj, madeFor, refused, raced, overlap>>
  BY DEF CustomizerRemoved, CustomizerRemovedThrows, services, lists, caches, history
<1>2. PICK c : c = call[t]
  OBVIOUS
<1>3. PICK o : o = c.o
  OBVIOUS
<1>4. /\ c.pc \in {"final", "removing"} /\ call[t].pc \in {"check"} \cup TrackPCs
      /\ c.pc \in {"notify", "check"} \cup TrackPCs /\ c.o # 0
  BY <1>0, <1>2 DEF TrackPCs, CallsInv, CallOK
<1>5. /\ CallOK(c) /\ o \in Objects /\ o \in Nat /\ nextObj \in Nat /\ o < nextObj
      /\ \A k \in Gens, j \in Items : tracked[k][j] # o
      /\ \A u \in Threads : u # t /\ Holds(call[u]) => call[u].o # o
  <2>1. Holding(t, c)
    BY <1>2, <1>3, <1>4, HoldingIs
  <2>2. QED
    BY <1>3, <2>1 DEF Holding
<1>6. PICK d : /\ CallOK(d) /\ d \in CallType /\ ~ Holds(d) /\ d.pc \in {"idle", "initial", "closeEach", "gone"}
               /\ \A k : ~ Counted(d, k) /\ ~ Past(d, k)
               /\ Set(t, d) /\ latch' = CountDown(t) /\ removed' = removed \cup {o}
               /\ budget' \in 0 .. MaxCalls /\ during' \subseteq Items /\ left' \subseteq Gens \X Items
  <2>1. CASE CustomizerRemoved(t)
    <3>1. PICK d : d = AfterTracking(c)
      OBVIOUS
    <3>2. /\ CallOK(d) /\ d \in CallType /\ ~ Holds(d) /\ d.pc \in {"idle", "initial", "closeEach", "gone"}
          /\ \A k : ~ Counted(d, k) /\ ~ Past(d, k)
      BY <1>4, <1>5, <3>1, AfterIs DEF CallOK
    <3>3. Set(t, d) /\ latch' = CountDown(t) /\ removed' = removed \cup {o} /\ UNCHANGED <<budget, during, left>>
      BY <1>2, <1>3, <2>1, <3>1 DEF CustomizerRemoved, Leave, history
    <3>4. QED
      BY <1>0, <3>2, <3>3 DEF StateInv
  <2>2. CASE CustomizerRemovedThrows(t)
    <3>1. /\ Set(t, Idle) /\ latch' = latch /\ removed' = removed \cup {o} /\ Spend /\ c.from \in {"initial", "close"}
          /\ during' = during \/ during' = during \cup initial[c.g]
          /\ left' = left \/ left' = left \cup ({c.g} \X c.refs)
      BY <1>2, <1>3, <2>2 DEF CustomizerRemovedThrows
    <3>2. c.g \in Gens /\ c.refs \subseteq Items
      BY <1>0, <1>2, <1>4, <1>5, TrackingIs, CallIs DEF TrackPCs
    <3>3. during' \subseteq Items /\ left' \subseteq Gens \X Items
      BY <1>0, <3>1, <3>2 DEF StateInv
    <3>4. CountDown(t) = latch
      BY <1>2, <3>1 DEF CountDown, InEvent, Events
    <3>5. /\ CallOK(Idle) /\ Idle \in CallType /\ ~ Holds(Idle) /\ Idle.pc = "idle"
          /\ \A k : ~ Counted(Idle, k) /\ ~ Past(Idle, k)
      BY IdleIs DEF Holds, Counted, Past, InEvent, Events
    <3>6. QED
      BY <1>0, <3>1, <3>3, <3>4, <3>5, SpendIs
  <2>3. QED
    BY <2>1, <2>2
<1>7. /\ CallOK(d) /\ d \in CallType /\ ~ Holds(d) /\ d.pc \in {"idle", "initial", "closeEach", "gone"}
      /\ \A k : ~ Counted(d, k) /\ ~ Past(d, k)
  BY <1>6
<1>8. Set(t, d) /\ latch' = CountDown(t) /\ removed' = removed \cup {o}
  BY <1>6
<1>9. Moves(t, d) /\ call'[t] = d
  BY <1>0, <1>7, <1>8, SetIs DEF CallsInv, Moves
<1>10. CallsInv'
  BY <1>0, <1>1, <1>7, <1>9, CallsKeep
<1>11. CountInv' /\ latch' \in [Gens -> Int]
  BY <1>0, <1>1, <1>4, <1>7, <1>8, <1>9, CountLeave
<1>12. StateInv' /\ OwnersInv'
  <2>1. removed' \subseteq Objects
    BY <1>0, <1>5, <1>8 DEF StateInv
  <2>2. StateInv'
    BY <1>0, <1>1, <1>6, <1>11, <2>1 DEF StateInv
  <2>3. QED
    BY <1>0, <1>1, <2>2 DEF OwnersInv
<1>13. \A u \in Threads : Holds(call'[u]) => u # t /\ Holds(call[u]) /\ call'[u] = call[u] /\ call[u].o # o
  BY <1>0, <1>5, <1>7, <1>9, HoldsSame
<1>14. LifeInv'
  <2>0. nextObj' = nextObj /\ madeFor' = madeFor /\ tracked' = tracked /\ adding' = adding
    BY <1>1
  <2>1. \A k \in Gens, j \in Items : tracked'[k][j] # 0 =>
           tracked'[k][j] < nextObj' /\ madeFor'[tracked'[k][j]] = <<k, j>> /\ tracked'[k][j] \notin removed'
    BY <1>0, <1>5, <1>8, <2>0 DEF LifeInv
  <2>2. ASSUME NEW u \in Threads, Holds(call'[u])
        PROVE  /\ call'[u].o < nextObj' /\ madeFor'[call'[u].o] = <<call'[u].g, call'[u].i>> /\ call'[u].o \notin removed'
               /\ \A k \in Gens, j \in Items : tracked'[k][j] # call'[u].o
    BY <1>0, <1>8, <1>13, <2>0, <2>2 DEF LifeInv
  <2>3. \A u, v \in Threads : Holds(call'[u]) /\ Holds(call'[v]) /\ call'[u].o = call'[v].o => u = v
    BY <1>0, <1>13 DEF LifeInv
  <2>4. \A k \in Gens : \A j \in adding'[k] : tracked'[k][j] = 0
    BY <1>0, <2>0 DEF LifeInv
  <2>5. \A p \in removed' : p < nextObj'
    BY <1>0, <1>5, <1>8, <2>0 DEF LifeInv
  <2>6. QED
    BY <2>1, <2>2, <2>3, <2>4, <2>5 DEF LifeInv
<1>15. LifeOf(o) = "withdrawn" /\ LifeOf(o)' = "removed"
  <2>1. LifeOf(o) = "withdrawn"
    BY <1>0, <1>2, <1>3, <1>4, <1>5, WithdrawnIs
  <2>2. ~ (o >= nextObj')
    BY <1>1, <1>5
  <2>3. /\ ~ \E u \in Threads : (At(u, "final") /\ call[u].o = o)'
        /\ ~ \E u \in Threads : (At(u, "removing") /\ call[u].o = o)'
    BY <1>3, <1>4, <1>13 DEF At, Holds
  <2>4. ~ \E k \in Gens : \E j \in Items : tracked'[k][j] = o
    BY <1>1, <1>5
  <2>5. LifeOf(o)' = "removed"
    BY <1>8, <2>2, <2>3, <2>4 DEF LifeOf
  <2>6. QED
    BY <2>1, <2>5
<1>16. StepOK
  <2>1. \A p \in Objects : p # o => /\ IsTracked(p)' <=> IsTracked(p)
                                    /\ p \in removed' <=> p \in removed
                                    /\ p >= nextObj' <=> p >= nextObj
    BY <1>1, <1>8 DEF IsTracked
  <2>2. Life' = [Life EXCEPT ![o] = LifeOf(o)'] /\ Life[o] = LifeOf(o)
    BY <1>0, <1>2, <1>3, <1>5, <1>7, <1>9, <2>1, LifeChange
  <2>3. Contract!Removed(o)
    BY <1>1, <1>15, <2>2 DEF Contract!Removed, Life
  <2>4. QED
    BY <1>5, <2>3 DEF StepOK, Contract!Next
<1>17. QED
  BY <1>10, <1>11, <1>12, <1>14, <1>16 DEF IInv
-----------------------------------------------------------------------------
(* Open. *)

LEMMA OpenKeeps ==
    ASSUME IInv, NEW t \in Threads, Open(t) PROVE IInv' /\ StepOK
<1>0. CallsInv /\ StateInv /\ OwnersInv /\ call[t].pc = "idle" /\ opened < MaxOpens
  BY DEF IInv, Open, At
<1>1. /\ UNCHANGED <<state, matching, current, closed, initial, adding, tracked, latch, cachedReference, cachedService,
                     tOwner, budget, nextObj, madeFor, removed, refused, raced, left>>
      /\ opened' = opened + 1 /\ listener' = opened + 1 /\ dOwner' = {t} /\ during' = during \cup Reported
      /\ overlap' \in {overlap, overlap \cup ({current, opened + 1} \ {0})}
  BY DEF Open, services, lists, caches, ListenerOf
<1>2. PICK g : g = opened + 1
  OBVIOUS
<1>3. g \in 0 .. MaxOpens /\ g # 0 /\ g \in Gens
  <2>1. opened \in 0 .. MaxOpens /\ opened < MaxOpens /\ MaxOpens \in Nat
    BY <1>0, TrackerAssumption DEF StateInv
  <2>2. QED
    BY <1>2, <2>1 DEF Gens
<1>4. PICK d : d = [Idle EXCEPT !.pc = "lookup", !.g = g]
  OBVIOUS
<1>5. d = [pc |-> "lookup", from |-> "none", ev |-> "none", g |-> g, i |-> 0, o |-> 0, refs |-> {}]
  BY <1>4 DEF Idle
<1>6. /\ "lookup" \in PCs /\ "none" \in Froms /\ "lookup" \notin ItemPCs /\ "lookup" \notin EventPCs
      /\ "lookup" \notin {"countUp", "check", "removing"} /\ 0 \in 0 .. MaxItems
      /\ "none" \notin Events
  BY ZeroIs DEF PCs, OpenPCs, Froms, ItemPCs, EventPCs, TrackPCs, Events
<1>7. CallOK(d) /\ ~ Holds(d) /\ d.pc = "lookup"
  BY <1>3, <1>5, <1>6, NewCall
<1>8. Reported \subseteq Items
  <2>1. \A u \in Threads : InEvent(call[u]) => call[u].i \in Items
    BY <1>0, CallIs DEF CallsInv, CallOK, InEvent
  <2>2. QED
    BY <2>1 DEF Reported
<1>9. during' \subseteq Items /\ overlap' \subseteq Gens /\ opened' \in 0 .. MaxOpens /\ listener' \in 0 .. MaxOpens
  <2>1. {current, opened + 1} \ {0} \subseteq Gens
    BY <1>0, <1>2, <1>3, TrackerAssumption DEF StateInv, Gens
  <2>2. QED
    BY <1>0, <1>1, <1>2, <1>3, <1>8, <2>1 DEF StateInv
<1>10. StateInv'
  BY <1>0, <1>1, <1>9 DEF StateInv
<1>11. OwnersInv'
  BY <1>0, <1>1 DEF OwnersInv
<1>12. Set(t, d)
  BY <1>2, <1>4 DEF Open
<1>13. Elsewhere(d) /\ Elsewhere(call[t]) /\ d.pc \notin {"storeRef", "getObject", "closeWait"}
  BY <1>0, <1>7 DEF Elsewhere, TrackPCs
<1>14. QED
  BY <1>1, <1>7, <1>10, <1>11, <1>12, <1>13, CallStep

LEMMA OpenLookupKeeps ==
    ASSUME IInv, NEW t \in Threads, OpenLookup(t) PROVE IInv' /\ StepOK
<1>0. StateInv /\ CallOK(call[t]) /\ call[t].pc = "lookup" /\ budget \in 0 .. MaxCalls /\ matching \subseteq Items
  BY DEF IInv, CallsInv, StateInv, OpenLookup, At
<1>1. UNCHANGED <<state, matching, listener, current, opened, closed, initial, adding, tracked, latch, cachedReference,
                  cachedService, dOwner, tOwner, budget, nextObj, madeFor, removed, refused, raced, during, left, overlap>>
  BY DEF OpenLookup, services, lists, caches, history
<1>2. PICK c : c = call[t]
  OBVIOUS
<1>3. PICK R : R = {i \in matching : state[i] = "listed"}
  OBVIOUS
<1>4. PICK d : d = [c EXCEPT !.pc = "setInitial", !.refs = R]
  OBVIOUS
<1>5. R \subseteq Items /\ "setInitial" \in PCs /\ c \in CallType
  BY <1>0, <1>2, <1>3 DEF PCs, OpenPCs, CallOK
<1>6. d \in CallType /\ d.pc = "setInitial" /\ d.from = c.from /\ d.g = c.g /\ d.i = c.i /\ d.o = c.o
  BY <1>4, <1>5 DEF CallType
<1>7. CallOK(d) /\ ~ Holds(d)
  <2>1. c.g # 0 /\ c.o = 0 /\ (c.from \in Events => c.i # 0)
    BY <1>0, <1>2 DEF CallOK, GenPCs, OpenPCs
  <2>2. QED
    BY <1>6, <2>1 DEF CallOK, Holds, ItemPCs, EventPCs, TrackPCs
<1>8. Set(t, d)
  BY <1>2, <1>3, <1>4 DEF OpenLookup
<1>9. Elsewhere(d) /\ Elsewhere(call[t]) /\ d.pc \notin {"storeRef", "getObject", "closeWait"}
  BY <1>0, <1>6 DEF Elsewhere, TrackPCs
<1>10. QED
  BY <1>0, <1>1, <1>7, <1>8, <1>9, PlainStep

LEMMA OpenSetInitialKeeps ==
    ASSUME IInv, NEW t \in Threads, OpenSetInitial(t) PROVE IInv' /\ StepOK
<1>0. StateInv /\ OwnersInv /\ CallOK(call[t]) /\ call[t].pc = "setInitial"
  BY DEF IInv, CallsInv, OpenSetInitial, At
<1>1. PICK c : c = call[t]
  OBVIOUS
<1>2. /\ UNCHANGED <<state, matching, listener, opened, closed, adding, tracked, latch, cachedReference, cachedService,
                     tOwner, budget, nextObj, madeFor, removed, refused, raced, during, left, overlap>>
      /\ initial' = [initial EXCEPT ![c.g] = c.refs] /\ current' = c.g /\ dOwner' = {}
  BY <1>1 DEF OpenSetInitial, services, caches, history
<1>3. PICK d : d = [c EXCEPT !.pc = "initial", !.refs = {}]
  OBVIOUS
<1>4. "initial" \in PCs /\ c \in CallType
  BY <1>0, <1>1 DEF PCs, OpenPCs, CallOK
<1>5. d \in CallType /\ d.pc = "initial" /\ d.from = c.from /\ d.g = c.g /\ d.i = c.i /\ d.o = c.o
  BY <1>3, <1>4 DEF CallType
<1>6. c.g # 0 /\ c.o = 0 /\ (c.from \in Events => c.i # 0) /\ c.g \in 0 .. MaxOpens /\ c.refs \subseteq Items /\ c.g \in Gens
  <2>1. c.g # 0 /\ c.o = 0 /\ (c.from \in Events => c.i # 0)
    BY <1>0, <1>1 DEF CallOK, GenPCs, OpenPCs
  <2>2. QED
    BY <1>4, <2>1, CallIs
<1>7. CallOK(d) /\ ~ Holds(d)
  BY <1>5, <1>6 DEF CallOK, Holds, ItemPCs, EventPCs, TrackPCs
<1>8. StateInv'
  <2>1. initial' \in [Gens -> SUBSET Items]
    BY <1>0, <1>2, <1>6 DEF StateInv
  <2>2. QED
    BY <1>0, <1>2, <1>6, <2>1 DEF StateInv
<1>9. OwnersInv'
  BY <1>0, <1>2 DEF OwnersInv
<1>10. Set(t, d)
  BY <1>1, <1>3 DEF OpenSetInitial
<1>11. Elsewhere(d) /\ Elsewhere(call[t]) /\ d.pc \notin {"storeRef", "getObject", "closeWait"}
  BY <1>0, <1>5 DEF Elsewhere, TrackPCs
<1>12. current' # 0 /\ UNCHANGED <<tracked, nextObj, madeFor, removed, adding, latch, closed>>
  BY <1>2, <1>6
<1>13. QED
  BY <1>7, <1>8, <1>9, <1>10, <1>11, <1>12, CallStep

LEMMA TrackInitialKeeps ==
    ASSUME IInv, NEW t \in Threads, TrackInitial(t) PROVE IInv' /\ StepOK
<1>0. CallsInv /\ StateInv /\ OwnersInv /\ CountInv /\ LifeInv /\ CallOK(call[t]) /\ call[t].pc = "initial"
  BY DEF IInv, CallsInv, TrackInitial, At
<1>1. UNCHANGED <<state, matching, listener, current, opened, closed, tracked, latch, cachedReference, cachedService,
                  dOwner, tOwner, budget, nextObj, madeFor, removed, refused, raced, during, left, overlap>>
  BY DEF TrackInitial, services, caches, history
<1>2. PICK c : c = call[t]
  OBVIOUS
<1>3. PICK g : g = c.g
  OBVIOUS
<1>4. c \in CallType /\ g # 0 /\ c.o = 0 /\ g \in Gens
  <2>1. c \in CallType /\ c.g # 0 /\ c.o = 0
    BY <1>0, <1>2 DEF CallOK, GenPCs, OpenPCs
  <2>2. QED
    BY <1>3, <2>1, CallIs
<1>5. OwnersInv'
  BY <1>0, <1>1 DEF OwnersInv
<1>6. Elsewhere(call[t]) /\ ~ Holds(call[t]) /\ "initial" \notin {"storeRef", "getObject", "closeWait"}
  BY <1>0 DEF Elsewhere, TrackPCs, Holds
<1>7. CASE Set(t, Idle) /\ UNCHANGED <<initial, adding>>
  <2>1. StateInv'
    BY <1>0, <1>1, <1>7 DEF StateInv
  <2>2. Elsewhere(Idle) /\ ~ Holds(Idle) /\ CallOK(Idle) /\ Idle.pc \notin {"storeRef", "getObject", "closeWait"}
    BY IdleIs DEF Elsewhere, TrackPCs, Holds
  <2>3. QED
    BY <1>1, <1>5, <1>6, <1>7, <2>1, <2>2, CallStep
<1>8. ASSUME NEW i \in initial[g], initial' = [initial EXCEPT ![g] = @ \ {i}], UNCHANGED <<adding, call>>
      PROVE  IInv' /\ StepOK
  <2>1. initial' \in [Gens -> SUBSET Items]
    BY <1>0, <1>4, <1>8 DEF StateInv
  <2>2. StateInv'
    BY <1>0, <1>1, <1>8, <2>1 DEF StateInv
  <2>3. Set(t, c)
    BY <1>0, <1>2, <1>8 DEF Set, CallsInv
  <2>4. QED
    BY <1>0, <1>1, <1>2, <1>5, <1>6, <1>8, <2>2, <2>3, CallStep
<1>9. ASSUME NEW i \in initial[g], initial' = [initial EXCEPT ![g] = @ \ {i}], tracked[g][i] = 0,
             StartAdding(t, g, i, [c EXCEPT !.from = "initial"])
      PROVE  IInv' /\ StepOK
  <2>1. initial' \in [Gens -> SUBSET Items] /\ i \in Items
    BY <1>0, <1>4, <1>9 DEF StateInv
  <2>2. adding' = [adding EXCEPT ![g] = @ \cup {i}] /\ adding \in [Gens -> SUBSET Items]
    BY <1>0, <1>9 DEF StartAdding, StateInv
  <2>3. /\ adding' \in [Gens -> SUBSET Items] /\ \A k \in Gens : \A j \in adding'[k] : j \in adding[k] \/ (k = g /\ j = i)
    BY <1>4, <2>1, <2>2
  <2>4. \A k \in Gens : \A j \in adding'[k] : tracked[k][j] = 0
    BY <1>0, <1>9, <2>3 DEF LifeInv
  <2>5. StateInv'
    BY <1>0, <1>1, <2>1, <2>3 DEF StateInv
  <2>6. PICK b : b = [c EXCEPT !.from = "initial"]
    OBVIOUS
  <2>7. PICK d : d = [b EXCEPT !.pc = "adding", !.i = i]
    OBVIOUS
  <2>8. "initial" \in Froms /\ "adding" \in PCs /\ i \in 0 .. MaxItems /\ i # 0 /\ "adding" \in TrackPCs /\ "initial" \notin Events
    BY <2>1, ZeroIs DEF Froms, PCs, TrackPCs, Items, Events
  <2>9. b \in CallType /\ b.from = "initial" /\ b.g = c.g /\ b.o = c.o
    BY <1>4, <2>6, <2>8 DEF CallType
  <2>10. d \in CallType /\ d.pc = "adding" /\ d.from = "initial" /\ d.g = g /\ d.i = i /\ d.o = 0
    BY <1>3, <1>4, <2>7, <2>8, <2>9 DEF CallType
  <2>11. CallOK(d) /\ ~ Holds(d)
    BY <1>4, <2>8, <2>10 DEF CallOK, EventPCs, Holds
  <2>12. Moves(t, d)
    <3>1. Set(t, d) /\ call \in [Threads -> CallType]
      BY <1>0, <1>9, <2>6, <2>7 DEF StartAdding, CallsInv
    <3>2. QED
      BY <2>10, <3>1, SetIs
  <2>13. CallsInv'
    <3>1. d.pc \notin {"storeRef", "getObject", "closeWait"}
      BY <2>10
    <3>2. QED
      BY <1>0, <1>1, <2>11, <2>12, <3>1, CallsKeep
  <2>14. CountInv'
    <3>1. \A k \in Gens : ~ Counted(d, k) /\ ~ Past(d, k) /\ ~ Counted(call[t], k)
      BY <1>6, <2>8, <2>10 DEF Counted, Past, InEvent, Elsewhere
    <3>2. QED
      BY <1>0, <1>1, <2>12, <3>1, CountQuiet
  <2>15. LifeInv' /\ StepOK
    BY <1>0, <1>1, <1>6, <2>4, <2>11, <2>12, LifeQuiet
  <2>16. QED
    BY <1>5, <2>5, <2>13, <2>14, <2>15 DEF IInv
<1>10. QED
  BY <1>2, <1>3, <1>7, <1>8, <1>9 DEF TrackInitial
-----------------------------------------------------------------------------
(* Close and Remove. *)

LEMMA CloseRemoveListenerKeeps ==
    ASSUME IInv, NEW t \in Threads, CloseRemoveListener(t) PROVE IInv' /\ StepOK
<1>0. StateInv /\ OwnersInv /\ call[t].pc = "idle"
  BY DEF IInv, CloseRemoveListener, At
<1>1. /\ UNCHANGED <<state, matching, current, opened, closed, initial, adding, tracked, latch, cachedReference,
                     cachedService, dOwner, tOwner, nextObj, madeFor, removed, refused, raced, during, left>>
      /\ listener' = 0 /\ overlap' \in {overlap, overlap \cup ({current, opened} \ {0})} /\ Spend
  BY DEF CloseRemoveListener, services, lists, caches
<1>2. PICK d : d = [Idle EXCEPT !.pc = "closeLoad"]
  OBVIOUS
<1>3. d = [pc |-> "closeLoad", from |-> "none", ev |-> "none", g |-> 0, i |-> 0, o |-> 0, refs |-> {}]
  BY <1>2 DEF Idle
<1>4. /\ "closeLoad" \in PCs /\ "none" \in Froms /\ "closeLoad" \notin ItemPCs /\ "closeLoad" \notin GenPCs
      /\ "closeLoad" \notin EventPCs /\ "closeLoad" \notin {"countUp", "check", "removing"} /\ "none" \notin Events
      /\ 0 \in 0 .. MaxItems /\ 0 \in 0 .. MaxOpens
  BY ZeroIs DEF PCs, ClosePCs, Froms, ItemPCs, GenPCs, EventPCs, TrackPCs, OpenPCs, Events
<1>5. CallOK(d) /\ ~ Holds(d) /\ d.pc = "closeLoad"
  BY <1>3, <1>4, NewCall
<1>6. overlap' \subseteq Gens /\ budget' \in 0 .. MaxCalls /\ listener' \in 0 .. MaxOpens
  <2>1. {current, opened} \ {0} \subseteq Gens
    BY <1>0, TrackerAssumption DEF StateInv, Gens
  <2>2. overlap' \subseteq Gens
    BY <1>0, <1>1, <2>1 DEF StateInv
  <2>3. QED
    BY <1>0, <1>1, <2>2, ZeroIs, SpendIs
<1>7. StateInv'
  BY <1>0, <1>1, <1>6 DEF StateInv
<1>8. OwnersInv'
  BY <1>0, <1>1 DEF OwnersInv
<1>9. Set(t, d)
  BY <1>2 DEF CloseRemoveListener
<1>10. Elsewhere(d) /\ Elsewhere(call[t]) /\ d.pc \notin {"storeRef", "getObject", "closeWait"}
  BY <1>0, <1>5 DEF Elsewhere, TrackPCs
<1>11. QED
  BY <1>1, <1>5, <1>7, <1>8, <1>9, <1>10, CallStep

LEMMA CloseLoadKeeps ==
    ASSUME IInv, NEW t \in Threads, CloseLoad(t) PROVE IInv' /\ StepOK
<1>0. CallOK(call[t]) /\ call[t].pc = "closeLoad" /\ budget \in 0 .. MaxCalls /\ current \in 0 .. MaxOpens
  BY DEF IInv, CallsInv, StateInv, CloseLoad, At
<1>1. UNCHANGED <<state, matching, listener, current, opened, closed, initial, adding, tracked, latch, cachedReference,
                  cachedService, dOwner, tOwner, budget, nextObj, madeFor, removed, refused, raced, during, left, overlap>>
  BY DEF CloseLoad, services, lists, caches, history
<1>2. PICK c : c = call[t]
  OBVIOUS
<1>3. PICK d : d = [c EXCEPT !.pc = "closeLock", !.g = current]
  OBVIOUS
<1>4. "closeLock" \in PCs /\ c \in CallType /\ c.o = 0 /\ (c.from \in Events => c.i # 0)
  BY <1>0, <1>2 DEF PCs, ClosePCs, CallOK
<1>5. d \in CallType /\ d.pc = "closeLock" /\ d.from = c.from /\ d.i = c.i /\ d.o = c.o
  BY <1>0, <1>3, <1>4 DEF CallType
<1>6. CallOK(d) /\ ~ Holds(d)
  BY <1>4, <1>5 DEF CallOK, Holds, ItemPCs, GenPCs, EventPCs, TrackPCs, OpenPCs
<1>7. Set(t, d)
  BY <1>2, <1>3 DEF CloseLoad
<1>8. Elsewhere(d) /\ Elsewhere(call[t]) /\ d.pc \notin {"storeRef", "getObject", "closeWait"}
  BY <1>0, <1>5 DEF Elsewhere, TrackPCs
<1>9. QED
  BY <1>0, <1>1, <1>6, <1>7, <1>8, PlainStep

LEMMA CloseLockKeeps ==
    ASSUME IInv, NEW t \in Threads, CloseLock(t) PROVE IInv' /\ StepOK
<1>0. CallsInv /\ StateInv /\ OwnersInv /\ CallOK(call[t]) /\ call[t].pc = "closeLock" /\ budget \in 0 .. MaxCalls
  BY DEF IInv, CallsInv, StateInv, CloseLock, At
<1>1. UNCHANGED <<state, matching, listener, current, opened, initial, adding, tracked, latch, dOwner, tOwner, budget,
                  nextObj, madeFor, removed, refused, raced, during, left, overlap>>
  BY DEF CloseLock, services, lists, history
<1>2. PICK c : c = call[t]
  OBVIOUS
<1>3. PICK g : g = c.g
  OBVIOUS
<1>4. Elsewhere(call[t]) /\ ~ Holds(call[t]) /\ call[t].pc \notin {"check"} \cup TrackPCs
  BY <1>0 DEF Elsewhere, TrackPCs, Holds
<1>5. CASE Set(t, Idle) /\ UNCHANGED <<closed, caches>>
  <2>1. Elsewhere(Idle) /\ ~ Holds(Idle) /\ CallOK(Idle) /\ Idle.pc \notin {"storeRef", "getObject", "closeWait"}
    BY IdleIs DEF Elsewhere, TrackPCs, Holds
  <2>2. UNCHANGED <<closed, cachedReference, cachedService>>
    BY <1>5 DEF caches
  <2>3. QED
    BY <1>0, <1>1, <1>4, <1>5, <2>1, <2>2, PlainStep
<1>6. CASE g # 0 /\ closed' = closed \cup {g} /\ Modified /\ call' = Woken([call EXCEPT ![t].pc = "closeWait"], g)
  <2>1. PICK d : d = [c EXCEPT !.pc = "closeWait"]
    OBVIOUS
  <2>2. "closeWait" \in PCs /\ c \in CallType /\ c.o = 0 /\ (c.from \in Events => c.i # 0) /\ g \in Gens
    BY <1>0, <1>2, <1>3, <1>6, CallIs DEF PCs, ClosePCs, CallOK
  <2>3. d \in CallType /\ d.pc = "closeWait" /\ d.from = c.from /\ d.i = c.i /\ d.o = c.o /\ d.g = g
    BY <1>3, <2>1, <2>2 DEF CallType
  <2>4. CallOK(d) /\ ~ Holds(d)
    BY <1>6, <2>2, <2>3 DEF CallOK, Holds, ItemPCs, EventPCs, TrackPCs
  <2>5. Moves(t, d)
    <3>1. call \in [Threads -> CallType]
      BY <1>0 DEF CallsInv
    <3>2. [call EXCEPT ![t].pc = "closeWait"] = [call EXCEPT ![t] = d]
      BY <1>2, <2>1, <3>1
    <3>3. call' = Woken([call EXCEPT ![t] = d], g) /\ d.pc # "asleep"
      BY <1>6, <2>3, <3>2
    <3>4. QED
      BY <2>3, <3>1, <3>3, WokenIs
  <2>6. cachedReference' \in 0 .. MaxItems /\ cachedService' \in 0 .. MaxObjects /\ cachedReference' = 0
    BY <1>6, TrackerAssumption DEF Modified
  <2>7. closed' \subseteq Gens /\ closed \subseteq closed' /\ g \in closed'
    BY <1>0, <1>6, <2>2 DEF StateInv
  <2>8. StateInv'
    BY <1>0, <1>1, <2>6, <2>7 DEF StateInv
  <2>9. OwnersInv'
    BY <1>0, <1>1 DEF OwnersInv
  <2>10. Rest(t, d)
    BY <1>1, <2>3, <2>4, <2>5, <2>7, <2>8, <2>9 DEF Rest
  <2>11. d.pc \notin {"check"} \cup TrackPCs
    BY <2>3 DEF TrackPCs
  <2>12. QED
    BY <1>1, <1>4, <2>4, <2>10, <2>11, QuietStep
<1>7. QED
  BY <1>2, <1>3, <1>5, <1>6 DEF CloseLock

\* The latch is zero: nobody is delivering an event to the generation, and nobody will.
LEMMA CloseWaitKeeps ==
    ASSUME IInv, NEW t \in Threads, CloseWait(t) PROVE IInv' /\ StepOK
<1>0. /\ CallsInv /\ StateInv /\ OwnersInv /\ CountInv /\ LifeInv
      /\ CallOK(call[t]) /\ call[t].pc = "closeWait" /\ call[t].g \in closed
  BY DEF IInv, CallsInv, CloseWait, At
<1>1. UNCHANGED <<state, matching, listener, current, opened, closed, initial, adding, tracked, cachedReference,
                  cachedService, dOwner, tOwner, budget, nextObj, madeFor, removed, refused, raced, during, left, overlap>>
  BY DEF CloseWait, services, lists, caches, history
<1>2. PICK c : c = call[t]
  OBVIOUS
<1>3. PICK k : k = c.g
  OBVIOUS
<1>4. PICK d : d = [c EXCEPT !.pc = "closeRefs"]
  OBVIOUS
<1>5. /\ c.o = 0 /\ c.g # 0 /\ k \in Gens /\ "closeRefs" \in PCs /\ "closeRefs" \notin ItemPCs
      /\ "closeRefs" \notin EventPCs /\ "closeRefs" \notin {"countUp", "check", "removing"}
  BY <1>0, <1>2, <1>3, CallIs DEF PCs, ClosePCs, CallOK, GenPCs, ItemPCs, EventPCs, TrackPCs
<1>6. CallOK(d) /\ d.pc = "closeRefs" /\ d.o = 0
  BY <1>0, <1>2, <1>4, <1>5, GotoIs
<1>7. Set(t, d) /\ latch' = [latch EXCEPT ![k] = Unusable] /\ latch[k] <= 0 /\ k \in closed
  BY <1>0, <1>2, <1>3, <1>4 DEF CloseWait, Goto
<1>8. Moves(t, d) /\ call'[t] = d
  <2>1. d \in CallType /\ call \in [Threads -> CallType]
    BY <1>0, <1>6 DEF CallsInv, CallOK
  <2>2. QED
    BY <1>7, <2>1, SetIs DEF Moves
<1>9. CallsInv'
  BY <1>0, <1>1, <1>6, <1>8, CallsKeep
<1>10. latch \in [Gens -> Int] /\ latch' \in [Gens -> Int] /\ latch'[k] = Unusable /\ \A g \in Gens : g # k => latch'[g] = latch[g]
  BY <1>0, <1>5, <1>7 DEF StateInv, Unusable
<1>11. StateInv'
  BY <1>0, <1>1, <1>10 DEF StateInv
<1>12. OwnersInv'
  BY <1>0, <1>1 DEF OwnersInv
<1>13. \A g : ~ Counted(c, g) /\ ~ Past(c, g) /\ ~ Counted(d, g) /\ ~ Past(d, g)
  BY <1>0, <1>2, <1>6 DEF Counted, Past, TrackPCs
<1>14. \A u \in Threads : ~ Past(call[u], k)
  <2>1. CASE latch[k] = Unusable
    BY <1>0, <1>5, <2>1 DEF CountInv
  <2>2. CASE latch[k] # Unusable
    <3>1. latch[k] = Cardinality(CountedIn(k)) /\ IsFiniteSet(CountedIn(k)) /\ Cardinality(CountedIn(k)) \in Nat
      BY <1>0, <1>5, <2>2, CountedFinite DEF CountInv
    <3>2. Cardinality(CountedIn(k)) = 0
      BY <1>7, <3>1
    <3>3. CountedIn(k) = {}
      BY <3>1, <3>2, FS_EmptySet
    <3>4. QED
      BY <3>3 DEF CountedIn, Counted, Past
  <2>3. QED
    BY <2>1, <2>2
<1>15. CountInv'
  <2>1. \A g \in Gens : CountedIn(g)' = CountedIn(g)
    BY <1>0, <1>2, <1>8, <1>13, CountedSame DEF CountedIn
  <2>2. \A g \in Gens : \A u \in Threads : Past(call'[u], g) => Past(call[u], g)
    BY <1>0, <1>8, <1>13, CountedSame
  <2>3. ASSUME NEW g \in Gens
        PROVE  /\ latch'[g] = Unusable => g \in closed' /\ \A u \in Threads : ~ Past(call'[u], g)
               /\ latch'[g] # Unusable => latch'[g] = Cardinality(CountedIn(g)')
    <3>1. CASE g = k
      BY <1>1, <1>7, <1>10, <1>14, <2>2, <3>1
    <3>2. CASE g # k
      BY <1>0, <1>1, <1>10, <2>1, <2>2, <3>2 DEF CountInv
    <3>3. QED
      BY <3>1, <3>2
  <2>4. QED
    BY <2>3 DEF CountInv
<1>16. LifeInv' /\ StepOK
  <2>1. ~ Holds(call[t]) /\ ~ Holds(d)
    BY <1>0, <1>6 DEF Holds
  <2>2. \A g \in Gens : \A i \in adding'[g] : tracked[g][i] = 0
    BY <1>0, <1>1 DEF LifeInv
  <2>3. QED
    BY <1>0, <1>1, <1>8, <2>1, <2>2, LifeQuiet
<1>17. QED
  BY <1>9, <1>11, <1>12, <1>15, <1>16 DEF IInv

LEMMA CloseRefsKeeps ==
    ASSUME IInv, NEW t \in Threads, CloseRefs(t) PROVE IInv' /\ StepOK
<1>0. CallOK(call[t]) /\ call[t].pc = "closeRefs" /\ budget \in 0 .. MaxCalls
  BY DEF IInv, CallsInv, StateInv, CloseRefs, At
<1>1. UNCHANGED <<state, matching, listener, current, opened, closed, initial, adding, tracked, latch, cachedReference,
                  cachedService, dOwner, tOwner, budget, nextObj, madeFor, removed, refused, raced, during, left, overlap>>
  BY DEF CloseRefs, services, lists, caches, history
<1>2. PICK c : c = call[t]
  OBVIOUS
<1>3. PICK R : R = TrackedIn(current)
  OBVIOUS
<1>4. PICK d : d = [c EXCEPT !.pc = "closeEach", !.refs = R]
  OBVIOUS
<1>5. /\ "closeEach" \in PCs /\ c \in CallType /\ c.o = 0 /\ c.g # 0 /\ (c.from \in Events => c.i # 0)
      /\ R \in SUBSET Items
  <2>1. R \in SUBSET Items
    BY <1>3 DEF TrackedIn
  <2>2. QED
    BY <1>0, <1>2, <2>1 DEF PCs, ClosePCs, CallOK, GenPCs
<1>6. d \in CallType /\ d.pc = "closeEach" /\ d.from = c.from /\ d.i = c.i /\ d.o = c.o /\ d.g = c.g
  BY <1>4, <1>5 DEF CallType
<1>7. CallOK(d) /\ ~ Holds(d)
  BY <1>5, <1>6 DEF CallOK, Holds, ItemPCs, EventPCs, TrackPCs
<1>8. Set(t, d)
  BY <1>2, <1>3, <1>4 DEF CloseRefs
<1>9. Elsewhere(d) /\ Elsewhere(call[t]) /\ d.pc \notin {"storeRef", "getObject", "closeWait"}
  BY <1>0, <1>6 DEF Elsewhere, TrackPCs
<1>10. QED
  BY <1>0, <1>1, <1>7, <1>8, <1>9, PlainStep

LEMMA CloseEachKeeps ==
    ASSUME IInv, NEW t \in Threads, CloseEach(t) PROVE IInv' /\ StepOK
<1>0. CallOK(call[t]) /\ call[t].pc = "closeEach" /\ budget \in 0 .. MaxCalls
  BY DEF IInv, CallsInv, StateInv, CloseEach, At
<1>1. UNCHANGED <<state, matching, listener, current, opened, closed, initial, adding, tracked, latch, cachedReference,
                  cachedService, dOwner, tOwner, budget, nextObj, madeFor, removed, refused, raced, during, left, overlap>>
  BY DEF CloseEach, services, lists, caches, history
<1>2. Elsewhere(call[t])
  BY <1>0 DEF Elsewhere, TrackPCs
<1>3. CASE Set(t, Idle)
  <2>1. Elsewhere(Idle) /\ ~ Holds(Idle) /\ CallOK(Idle) /\ Idle.pc \notin {"storeRef", "getObject", "closeWait"}
    BY IdleIs DEF Elsewhere, TrackPCs, Holds
  <2>2. QED
    BY <1>0, <1>1, <1>2, <1>3, <2>1, PlainStep
<1>4. PICK c : c = call[t]
  OBVIOUS
<1>5. ASSUME NEW i \in c.refs, Set(t, [c EXCEPT !.pc = "untrack", !.from = "close", !.i = i, !.refs = @ \ {i}])
      PROVE  IInv' /\ StepOK
  <2>1. PICK R : R = c.refs \ {i}
    OBVIOUS
  <2>2. PICK d : d = [c EXCEPT !.pc = "untrack", !.from = "close", !.i = i, !.refs = R]
    OBVIOUS
  <2>3. c \in CallType /\ c.o = 0 /\ c.g # 0 /\ c.refs \subseteq Items
    <3>1. c \in CallType /\ c.o = 0 /\ c.g # 0
      BY <1>0, <1>4 DEF CallOK, GenPCs
    <3>2. QED
      BY <3>1, CallIs
  <2>4. /\ R \in SUBSET Items /\ i \in 0 .. MaxItems /\ i # 0 /\ "untrack" \in PCs /\ "close" \in Froms /\ "close" \notin Events
    BY <1>5, <2>1, <2>3, ZeroIs DEF PCs, TrackPCs, Froms, Events, Items
  <2>5. d \in CallType /\ d.pc = "untrack" /\ d.from = "close" /\ d.i = i /\ d.o = c.o /\ d.g = c.g
    BY <2>2, <2>3, <2>4 DEF CallType
  <2>6. CallOK(d) /\ ~ Holds(d)
    BY <2>3, <2>4, <2>5 DEF CallOK, Holds, EventPCs
  <2>7. Set(t, d)
    <3>1. d = [c EXCEPT !.pc = "untrack", !.from = "close", !.i = i, !.refs = @ \ {i}]
      BY <2>1, <2>2
    <3>2. QED
      BY <1>5, <3>1
  <2>8. ~ InEvent(d) /\ d.pc \notin {"storeRef", "getObject", "closeWait"}
    BY <2>4, <2>5 DEF InEvent
  <2>9. QED
    BY <1>0, <1>1, <1>2, <2>6, <2>7, <2>8, PlainStep
<1>6. QED
  BY <1>3, <1>4, <1>5 DEF CloseEach

LEMMA RemoveKeeps ==
    ASSUME IInv, NEW t \in Threads, NEW i \in Items, Remove(t, i) PROVE IInv' /\ StepOK
<1>0. StateInv /\ call[t].pc = "idle" /\ current \in 0 .. MaxOpens /\ current # 0
  BY DEF IInv, StateInv, Remove, At
<1>1. /\ UNCHANGED <<state, matching, listener, current, opened, closed, initial, adding, tracked, latch, cachedReference,
                     cachedService, dOwner, tOwner, nextObj, madeFor, removed, refused, raced, during, left, overlap>>
      /\ Spend
  BY DEF Remove, services, lists, caches, history
<1>2. PICK g \in 0 .. MaxOpens : g = current
  BY <1>0
<1>3. PICK d : d = [Idle EXCEPT !.pc = "untrack", !.from = "remove", !.g = g, !.i = i]
  OBVIOUS
<1>4. d = [pc |-> "untrack", from |-> "remove", ev |-> "none", g |-> g, i |-> i, o |-> 0, refs |-> {}]
  BY <1>3 DEF Idle
<1>5. /\ "untrack" \in PCs /\ "remove" \in Froms /\ "untrack" \notin EventPCs /\ i \in 0 .. MaxItems /\ i # 0 /\ g # 0
      /\ "untrack" \notin {"countUp", "check", "removing"} /\ "remove" \notin Events
  BY <1>0, <1>2, ZeroIs DEF PCs, TrackPCs, Froms, EventPCs, Events, Items
<1>6. CallOK(d) /\ ~ Holds(d) /\ d.pc = "untrack" /\ d.from = "remove"
  BY <1>4, <1>5, NewCall
<1>7. Set(t, d) /\ budget' \in 0 .. MaxCalls
  BY <1>0, <1>1, <1>2, <1>3, SpendIs DEF Remove
<1>8. Elsewhere(call[t]) /\ ~ InEvent(d) /\ d.pc \notin {"storeRef", "getObject", "closeWait"}
  BY <1>0, <1>5, <1>6 DEF Elsewhere, TrackPCs, InEvent
<1>9. QED
  BY <1>1, <1>6, <1>7, <1>8, PlainStep
-----------------------------------------------------------------------------
(* GetService and WaitForService. *)

LEMMA LeastIs ==
    ASSUME NEW S \in SUBSET Nat, S # {} PROVE \E n \in S : \A m \in S : n <= m
<1> DEFINE R == OpToRel(<, Nat)
<1>1. IsWellFoundedOn(R, Nat)
  BY NatLessThanWellFounded
<1>2. PICK n \in S : \A m \in S : ~ (<<m, n>> \in R)
  BY <1>1, WFMin
<1>3. \A m \in S : ~ (m < n)
  BY <1>2 DEF OpToRel
<1>4. \A m \in S : n <= m
  BY <1>3
<1>5. QED
  BY <1>4

\* The calls a thread goes on with after it has read.
LEMMA ReadCalls ==
    ASSUME NEW l \in {"getService", "waitTracked"}, NEW f \in {"get", "wait", "again"}, NEW d,
           d = [pc |-> l, from |-> f, ev |-> "none", g |-> 0, i |-> 0, o |-> 0, refs |-> {}]
    PROVE  CallOK(d) /\ ~ Holds(d) /\ Elsewhere(d) /\ d.pc \notin {"storeRef", "getObject", "closeWait"}
<1>2. /\ l \in PCs /\ f \in Froms /\ l \notin ItemPCs /\ l \notin GenPCs /\ l \notin EventPCs
      /\ l \notin {"countUp", "check", "removing"} /\ f \notin Events /\ 0 \in 0 .. MaxItems /\ 0 \in 0 .. MaxOpens
  BY ZeroIs DEF PCs, ReadPCs, Froms, ItemPCs, GenPCs, EventPCs, TrackPCs, OpenPCs, Events
<1>3. CallOK(d) /\ ~ Holds(d) /\ d.pc = l
  BY <1>2, NewCall
<1>4. QED
  BY <1>3 DEF Elsewhere, TrackPCs

LEMMA IdleElsewhere ==
    CallOK(Idle) /\ ~ Holds(Idle) /\ Elsewhere(Idle) /\ Idle.pc \notin {"storeRef", "getObject", "closeWait"}
BY IdleIs DEF Elsewhere, TrackPCs, Holds

LEMMA AfterGetIs ==
    ASSUME NEW c, NEW o, NEW d, d = AfterGet(c, o)
    PROVE  CallOK(d) /\ ~ Holds(d) /\ Elsewhere(d) /\ d.pc \notin {"storeRef", "getObject", "closeWait"}
<1>1. CASE d = Idle
  BY <1>1, IdleElsewhere
<1>2. CASE d = [Idle EXCEPT !.pc = "waitTracked", !.from = "again"]
  <2>1. "waitTracked" \in {"getService", "waitTracked"} /\ "again" \in {"get", "wait", "again"}
    OBVIOUS
  <2>2. d = [pc |-> "waitTracked", from |-> "again", ev |-> "none", g |-> 0, i |-> 0, o |-> 0, refs |-> {}]
    BY <1>2 DEF Idle
  <2>3. QED
    BY <2>1, <2>2, ReadCalls
<1>3. QED
  BY <1>1, <1>2 DEF AfterGet

LEMMA StartReadKeeps ==
    ASSUME IInv, NEW t \in Threads, NEW f \in {"get", "wait"}, StartRead(t, f) PROVE IInv' /\ StepOK
<1>0. StateInv /\ call[t].pc = "idle"
  BY DEF IInv, StartRead, At
<1>1. /\ UNCHANGED <<state, matching, listener, current, opened, closed, initial, adding, tracked, latch, cachedReference,
                     cachedService, dOwner, tOwner, nextObj, madeFor, removed, refused, raced, during, left, overlap>>
      /\ Spend
  BY DEF StartRead, services, lists, caches, history
<1>2. PICK d : d = [Idle EXCEPT !.pc = "getService", !.from = f]
  OBVIOUS
<1>3. CallOK(d) /\ ~ Holds(d) /\ Elsewhere(d) /\ d.pc \notin {"storeRef", "getObject", "closeWait"}
  <2>1. "getService" \in {"getService", "waitTracked"} /\ f \in {"get", "wait", "again"}
    OBVIOUS
  <2>2. d = [pc |-> "getService", from |-> f, ev |-> "none", g |-> 0, i |-> 0, o |-> 0, refs |-> {}]
    BY <1>2 DEF Idle
  <2>3. QED
    BY <2>1, <2>2, ReadCalls
<1>4. Set(t, d) /\ budget' \in 0 .. MaxCalls
  BY <1>0, <1>1, <1>2, SpendIs DEF StartRead
<1>5. Elsewhere(call[t])
  BY <1>0 DEF Elsewhere, TrackPCs
<1>6. QED
  BY <1>1, <1>3, <1>4, <1>5, PlainStep

LEMMA GetServiceKeeps ==
    ASSUME IInv, NEW t \in Threads, GetService(t) PROVE IInv' /\ StepOK
<1>0. StateInv /\ CallOK(call[t]) /\ call[t].pc = "getService" /\ budget \in 0 .. MaxCalls
  BY DEF IInv, CallsInv, StateInv, GetService, At
<1>1. UNCHANGED <<state, matching, listener, current, opened, closed, initial, adding, tracked, latch, cachedReference,
                  cachedService, dOwner, tOwner, budget, nextObj, madeFor, removed, refused, raced, during, left, overlap>>
  BY DEF GetService, services, lists, caches, history
<1>2. PICK c : c = call[t]
  OBVIOUS
<1>3. Elsewhere(call[t])
  BY <1>0 DEF Elsewhere, TrackPCs
<1>4. c \in CallType /\ c.o = 0
  BY <1>0, <1>2 DEF CallOK
<1>5. CASE \E o : Set(t, AfterGet(c, o))
  <2>1. PICK o : Set(t, AfterGet(c, o))
    BY <1>5
  <2>2. PICK d : d = AfterGet(c, o)
    OBVIOUS
  <2>3. CallOK(d) /\ ~ Holds(d) /\ Elsewhere(d) /\ d.pc \notin {"storeRef", "getObject", "closeWait"}
    BY <2>2, AfterGetIs
  <2>4. Set(t, d)
    BY <2>1, <2>2
  <2>5. QED
    BY <1>0, <1>1, <1>3, <2>3, <2>4, PlainStep
<1>6. ASSUME NEW i \in Items, NEW l \in {"storeRef", "getObject"}, current # 0, Set(t, [c EXCEPT !.pc = l, !.i = i])
      PROVE  IInv' /\ StepOK
  <2>1. PICK d : d = [c EXCEPT !.pc = l, !.i = i]
    OBVIOUS
  <2>2. l \in PCs /\ i \in 0 .. MaxItems /\ i # 0
    BY ZeroIs DEF PCs, ReadPCs, Items
  <2>3. d \in CallType /\ d.pc = l /\ d.i = i /\ d.o = c.o
    BY <1>4, <2>1, <2>2 DEF CallType
  <2>4. CallOK(d) /\ ~ Holds(d) /\ Elsewhere(d) /\ d.pc # "closeWait"
    BY <1>4, <2>2, <2>3 DEF CallOK, Holds, Elsewhere, GenPCs, EventPCs, TrackPCs, OpenPCs
  <2>5. Set(t, d)
    BY <1>6, <2>1
  <2>6. QED
    BY <1>0, <1>1, <1>3, <1>6, <2>4, <2>5, PlainStep
<1>7. CASE cachedReference # 0 /\ Set(t, [c EXCEPT !.pc = "getObject", !.i = cachedReference])
  <2>1. PICK i : i = cachedReference
    OBVIOUS
  <2>2. i \in Items /\ current # 0 /\ Set(t, [c EXCEPT !.pc = "getObject", !.i = i])
    <3>0. cachedReference # 0
      BY <1>7
    <3>1. cachedReference \in 0 .. MaxItems /\ current # 0 /\ MaxItems \in Nat
      BY <1>0, <3>0, TrackerAssumption, ZenonT(60) DEF StateInv
    <3>2. i \in Items
      BY <2>1, <3>0, <3>1, SMTT(60) DEF Items
    <3>3. QED
      BY <1>7, <2>1, <3>1, <3>2
  <2>3. QED
    BY <1>6, <2>2
<1>8. CASE /\ TrackedIn(current) # {}
           /\ Set(t, [c EXCEPT !.pc = "storeRef",
                               !.i = CHOOSE i \in TrackedIn(current) : \A j \in TrackedIn(current) : i <= j])
  <2>1. PICK S : S = TrackedIn(current)
    OBVIOUS
  <2>2. S \in SUBSET Nat /\ S # {} /\ S \subseteq Items /\ current # 0
    <3>1. S \subseteq Items /\ S # {} /\ current # 0
      BY <1>8, <2>1 DEF TrackedIn
    <3>2. QED
      BY <3>1, TrackerAssumption DEF Items
  <2>3. PICK i : i = CHOOSE n \in S : \A m \in S : n <= m
    OBVIOUS
  <2>4. i \in S
    BY <2>2, <2>3, LeastIs
  <2>5. i \in Items /\ Set(t, [c EXCEPT !.pc = "storeRef", !.i = i])
    BY <1>8, <2>1, <2>2, <2>3, <2>4
  <2>6. QED
    BY <1>6, <2>2, <2>5
<1>9. QED
  BY <1>2, <1>5, <1>7, <1>8 DEF GetService

LEMMA StoreRefKeeps ==
    ASSUME IInv, NEW t \in Threads, StoreRef(t) PROVE IInv' /\ StepOK
<1>0. StateInv /\ OwnersInv /\ CallOK(call[t]) /\ call[t].pc = "storeRef" /\ current # 0
  BY DEF IInv, CallsInv, StoreRef, At
<1>1. PICK c : c = call[t]
  OBVIOUS
<1>2. /\ UNCHANGED <<state, matching, listener, current, opened, closed, initial, adding, tracked, latch, cachedService,
                     dOwner, tOwner, budget, nextObj, madeFor, removed, refused, raced, during, left, overlap>>
      /\ cachedReference' = c.i
  BY <1>1 DEF StoreRef, services, lists, history
<1>3. PICK d : d = [c EXCEPT !.pc = "getObject"]
  OBVIOUS
<1>4. /\ c.o = 0 /\ c.i # 0 /\ c.i \in 0 .. MaxItems /\ "getObject" \in PCs /\ "getObject" \notin GenPCs
      /\ "getObject" \notin EventPCs /\ "getObject" \notin {"countUp", "check", "removing"}
  BY <1>0, <1>1, CallIs DEF CallOK, PCs, ReadPCs, GenPCs, ItemPCs, EventPCs, TrackPCs, OpenPCs
<1>5. CallOK(d) /\ d.pc = "getObject"
  BY <1>0, <1>1, <1>3, <1>4, GotoIs
<1>6. StateInv'
  BY <1>0, <1>2, <1>4 DEF StateInv
<1>7. OwnersInv'
  BY <1>0, <1>2 DEF OwnersInv
<1>8. Set(t, d)
  BY <1>1, <1>3 DEF StoreRef, Goto
<1>9. Elsewhere(d) /\ ~ Holds(d) /\ Elsewhere(call[t]) /\ d.pc # "closeWait"
  BY <1>0, <1>5 DEF Elsewhere, TrackPCs, Holds
<1>10. QED
  BY <1>0, <1>2, <1>5, <1>6, <1>7, <1>8, <1>9, CallStep

LEMMA GetObjectKeeps ==
    ASSUME IInv, NEW t \in Threads, GetObject(t) PROVE IInv' /\ StepOK
<1>0. StateInv /\ CallOK(call[t]) /\ call[t].pc = "getObject" /\ current # 0 /\ budget \in 0 .. MaxCalls
  BY DEF IInv, CallsInv, StateInv, GetObject, At
<1>1. UNCHANGED <<state, matching, listener, current, opened, closed, initial, adding, tracked, latch, cachedReference,
                  cachedService, dOwner, tOwner, budget, nextObj, madeFor, removed, refused, raced, during, left, overlap>>
  BY DEF GetObject, services, lists, caches, history
<1>2. PICK c : c = call[t]
  OBVIOUS
<1>3. PICK o : o = tracked[current][c.i]
  OBVIOUS
<1>4. /\ c \in CallType /\ o \in 0 .. MaxObjects /\ "storeService" \in PCs /\ (c.from \in Events => c.i # 0)
  <2>1. c \in CallType /\ c.i # 0 /\ (c.from \in Events => c.i # 0)
    BY <1>0, <1>2 DEF CallOK, ItemPCs
  <2>2. c.i \in Items /\ current \in Gens
    BY <1>0, <2>1, CallIs, TrackerAssumption DEF StateInv, Gens
  <2>3. o \in 0 .. MaxObjects
    BY <1>0, <1>3, <2>2 DEF StateInv
  <2>4. QED
    BY <2>1, <2>3 DEF PCs, ReadPCs
<1>5. PICK d : d = [c EXCEPT !.pc = "storeService", !.o = o]
  OBVIOUS
<1>6. d \in CallType /\ d.pc = "storeService" /\ d.from = c.from /\ d.i = c.i
  BY <1>4, <1>5 DEF CallType
<1>7. CallOK(d) /\ ~ Holds(d)
  BY <1>4, <1>6 DEF CallOK, Holds, ItemPCs, GenPCs, EventPCs, TrackPCs, OpenPCs
<1>8. Set(t, d)
  BY <1>2, <1>3, <1>5 DEF GetObject
<1>9. Elsewhere(d) /\ Elsewhere(call[t]) /\ d.pc \notin {"storeRef", "getObject", "closeWait"}
  BY <1>0, <1>6 DEF Elsewhere, TrackPCs
<1>10. QED
  BY <1>0, <1>1, <1>7, <1>8, <1>9, PlainStep

LEMMA StoreServiceKeeps ==
    ASSUME IInv, NEW t \in Threads, StoreService(t) PROVE IInv' /\ StepOK
<1>0. StateInv /\ OwnersInv /\ CallOK(call[t]) /\ call[t].pc = "storeService"
  BY DEF IInv, CallsInv, StoreService, At
<1>1. PICK c : c = call[t]
  OBVIOUS
<1>2. /\ UNCHANGED <<state, matching, listener, current, opened, closed, initial, adding, tracked, latch, cachedReference,
                     dOwner, tOwner, budget, nextObj, madeFor, removed, refused, raced, during, left, overlap>>
      /\ cachedService' = c.o
  BY <1>1 DEF StoreService, services, lists, history
<1>3. PICK o : o = c.o
  OBVIOUS
<1>4. PICK d : d = AfterGet(c, o)
  OBVIOUS
<1>5. CallOK(d) /\ ~ Holds(d) /\ Elsewhere(d) /\ d.pc \notin {"storeRef", "getObject", "closeWait"}
  BY <1>4, AfterGetIs
<1>6. c.o \in 0 .. MaxObjects
  BY <1>0, <1>1, CallIs DEF CallOK
<1>7. StateInv'
  BY <1>0, <1>2, <1>6 DEF StateInv
<1>8. OwnersInv'
  BY <1>0, <1>2 DEF OwnersInv
<1>9. Set(t, d)
  BY <1>1, <1>3, <1>4 DEF StoreService
<1>10. Elsewhere(call[t])
  BY <1>0 DEF Elsewhere, TrackPCs
<1>11. QED
  BY <1>2, <1>5, <1>7, <1>8, <1>9, <1>10, CallStep

LEMMA WaitTrackedKeeps ==
    ASSUME IInv, NEW t \in Threads, WaitTracked(t) PROVE IInv' /\ StepOK
<1>0. CallOK(call[t]) /\ call[t].pc = "waitTracked" /\ budget \in 0 .. MaxCalls /\ current \in 0 .. MaxOpens
  BY DEF IInv, CallsInv, StateInv, WaitTracked, At
<1>1. UNCHANGED <<state, matching, listener, current, opened, closed, initial, adding, tracked, latch, cachedReference,
                  cachedService, dOwner, tOwner, budget, nextObj, madeFor, removed, refused, raced, during, left, overlap>>
  BY DEF WaitTracked, services, lists, caches, history
<1>2. Elsewhere(call[t])
  BY <1>0 DEF Elsewhere, TrackPCs
<1>3. CASE current = 0
  BY <1>0, <1>1, <1>2, <1>3, IdleElsewhere, PlainStep DEF WaitTracked
<1>4. CASE current # 0
  <2>1. PICK c : c = call[t]
    OBVIOUS
  <2>2. PICK d : d = [c EXCEPT !.pc = "waitLock", !.g = current]
    OBVIOUS
  <2>3. "waitLock" \in PCs /\ c \in CallType /\ c.o = 0 /\ (c.from \in Events => c.i # 0)
    BY <1>0, <2>1 DEF PCs, ReadPCs, CallOK
  <2>4. d \in CallType /\ d.pc = "waitLock" /\ d.from = c.from /\ d.i = c.i /\ d.o = c.o /\ d.g = current
    BY <1>0, <2>2, <2>3 DEF CallType
  <2>5. CallOK(d) /\ ~ Holds(d)
    BY <1>4, <2>3, <2>4 DEF CallOK, Holds, ItemPCs, EventPCs, TrackPCs
  <2>6. Set(t, d)
    BY <1>4, <2>1, <2>2 DEF WaitTracked
  <2>7. Elsewhere(d) /\ d.pc \notin {"storeRef", "getObject", "closeWait"}
    BY <2>4 DEF Elsewhere, TrackPCs
  <2>8. QED
    BY <1>0, <1>1, <1>2, <2>5, <2>6, <2>7, PlainStep
<1>5. QED
  BY <1>3, <1>4

\* The steps with the mutex of a generation.
LEMMA SleepStep ==
    ASSUME IInv, NEW t \in Threads, NEW c, c = call[t], c.pc \in {"waitLock", "sleep"}, NEW l \in {"sleep", "asleep"},
           Goto(t, l), tOwner' \in {[tOwner EXCEPT ![c.g] = {}], [tOwner EXCEPT ![c.g] = {t}]},
           UNCHANGED <<state, matching, listener, current, opened, closed, initial, adding, tracked, latch, cachedReference,
                       cachedService, dOwner, budget, nextObj, madeFor, removed, refused, raced, during, left, overlap>>
    PROVE  IInv' /\ StepOK
<1>0. StateInv /\ OwnersInv /\ CallOK(c)
  BY DEF IInv, CallsInv
<1>1. PICK d : d = [c EXCEPT !.pc = l]
  OBVIOUS
<1>2. /\ c.o = 0 /\ c.g # 0 /\ c.g \in Gens /\ l \in PCs /\ l \notin ItemPCs
      /\ l \notin EventPCs /\ l \notin {"countUp", "check", "removing"}
  BY <1>0, CallIs DEF CallOK, PCs, ReadPCs, GenPCs, ItemPCs, EventPCs, TrackPCs
<1>3. CallOK(d) /\ d.pc = l
  BY <1>0, <1>1, <1>2, GotoIs
<1>4. StateInv'
  BY <1>0 DEF StateInv
<1>5. OwnersInv'
  <2>1. tOwner \in [Gens -> SUBSET Threads] /\ \A g \in Gens : tOwner[g] = {} \/ \E u \in Threads : tOwner[g] = {u}
    BY <1>0 DEF OwnersInv
  <2>2. /\ tOwner' \in [Gens -> SUBSET Threads] /\ tOwner'[c.g] \in {{}, {t}}
        /\ \A g \in Gens : g # c.g => tOwner'[g] = tOwner[g]
    BY <1>2, <2>1
  <2>3. QED
    BY <1>0, <2>1, <2>2 DEF OwnersInv
<1>6. Set(t, d)
  BY <1>1 DEF Goto
<1>7. Elsewhere(d) /\ Elsewhere(call[t]) /\ ~ Holds(d) /\ d.pc \notin {"storeRef", "getObject", "closeWait"}
  BY <1>3 DEF Elsewhere, TrackPCs, Holds
<1>8. QED
  BY <1>3, <1>4, <1>5, <1>6, <1>7, CallStep

LEMMA WaitLockKeeps ==
    ASSUME IInv, NEW t \in Threads, WaitLock(t) PROVE IInv' /\ StepOK
<1>0. call[t].pc = "waitLock" /\ budget \in 0 .. MaxCalls
  BY DEF IInv, StateInv, WaitLock, At
<1>1. UNCHANGED <<state, matching, listener, current, opened, closed, initial, adding, tracked, latch, cachedReference,
                  cachedService, dOwner, budget, nextObj, madeFor, removed, refused, raced, during, left, overlap>>
  BY DEF WaitLock, services, lists, caches, history
<1>2. CASE Set(t, [Idle EXCEPT !.pc = "getService", !.from = "again"]) /\ UNCHANGED tOwner
  <2>1. PICK d : d = [Idle EXCEPT !.pc = "getService", !.from = "again"]
    OBVIOUS
  <2>2. d = [pc |-> "getService", from |-> "again", ev |-> "none", g |-> 0, i |-> 0, o |-> 0, refs |-> {}]
    BY <2>1 DEF Idle
  <2>3. "getService" \in {"getService", "waitTracked"} /\ "again" \in {"get", "wait", "again"}
    OBVIOUS
  <2>4. CallOK(d) /\ ~ Holds(d) /\ Elsewhere(d) /\ d.pc \notin {"storeRef", "getObject", "closeWait"}
    BY <2>2, <2>3, ReadCalls
  <2>5. Set(t, d) /\ Elsewhere(call[t]) /\ tOwner' = tOwner
    BY <1>0, <1>2, <2>1 DEF Elsewhere, TrackPCs
  <2>6. QED
    BY <1>0, <1>1, <2>4, <2>5, PlainStep
<1>3. CASE Goto(t, "sleep") /\ tOwner' = [tOwner EXCEPT ![call[t].g] = {t}]
  <2>1. PICK c : c = call[t]
    OBVIOUS
  <2>2. /\ c.pc \in {"waitLock", "sleep"} /\ "sleep" \in {"sleep", "asleep"}
        /\ tOwner' \in {[tOwner EXCEPT ![c.g] = {}], [tOwner EXCEPT ![c.g] = {t}]}
    BY <1>0, <1>3, <2>1
  <2>3. QED
    BY <1>1, <1>3, <2>1, <2>2, SleepStep
<1>4. QED
  BY <1>2, <1>3 DEF WaitLock

LEMMA SleepKeeps ==
    ASSUME IInv, NEW t \in Threads, Sleep(t) PROVE IInv' /\ StepOK
<1>1. UNCHANGED <<state, matching, listener, current, opened, closed, initial, adding, tracked, latch, cachedReference,
                  cachedService, dOwner, budget, nextObj, madeFor, removed, refused, raced, during, left, overlap>>
  BY DEF Sleep, services, lists, caches, history
<1>2. PICK c : c = call[t]
  OBVIOUS
<1>3. /\ c.pc \in {"waitLock", "sleep"} /\ "asleep" \in {"sleep", "asleep"} /\ Goto(t, "asleep")
      /\ tOwner' \in {[tOwner EXCEPT ![c.g] = {}], [tOwner EXCEPT ![c.g] = {t}]}
  BY <1>2 DEF Sleep, At
<1>4. QED
  BY <1>1, <1>2, <1>3, SleepStep
-----------------------------------------------------------------------------
(* The theorems. *)

LEMMA NextKeeps ==
    ASSUME IInv, Next PROVE IInv' /\ StepOK
<1>1. PICK t \in Threads :
          \/ Step(t) \/ Open(t) \/ CloseRemoveListener(t)
          \/ \E i \in Items : Register(t, i) \/ Modify(t, i) \/ Unregister(t, i) \/ Remove(t, i)
          \/ \E from \in {"get", "wait"} : StartRead(t, from)
  BY DEF Next
<1>2. CASE Step(t)
  <2>1. CASE SetProps(t) \/ Notify(t) \/ Gone(t) \/ CountUp(t) \/ Check(t)
    BY <2>1, SetPropsKeeps, NotifyKeeps, GoneKeeps, CountUpKeeps, CheckKeeps
  <2>2. CASE \/ Track(t) \/ Untrack(t) \/ CustomizerAdding(t) \/ CustomizerAddingFinal(t)
             \/ CustomizerModified(t) \/ CustomizerRemoved(t) \/ CustomizerRemovedThrows(t)
    BY <2>2, TrackKeeps, UntrackKeeps, CustomizerAddingKeeps, CustomizerAddingFinalKeeps, CustomizerModifiedKeeps,
       CustomizerRemovedKeeps
  <2>3. CASE OpenLookup(t) \/ OpenSetInitial(t) \/ TrackInitial(t)
    BY <2>3, OpenLookupKeeps, OpenSetInitialKeeps, TrackInitialKeeps
  <2>4. CASE CloseLoad(t) \/ CloseLock(t) \/ CloseWait(t) \/ CloseRefs(t) \/ CloseEach(t)
    BY <2>4, CloseLoadKeeps, CloseLockKeeps, CloseWaitKeeps, CloseRefsKeeps, CloseEachKeeps
  <2>5. CASE \/ GetService(t) \/ StoreRef(t) \/ GetObject(t) \/ StoreService(t)
             \/ WaitTracked(t) \/ WaitLock(t) \/ Sleep(t)
    BY <2>5, GetServiceKeeps, StoreRefKeeps, GetObjectKeeps, StoreServiceKeeps, WaitTrackedKeeps, WaitLockKeeps,
       SleepKeeps
  <2>6. QED
    BY <1>2, <2>1, <2>2, <2>3, <2>4, <2>5 DEF Step
<1>3. CASE Open(t) \/ CloseRemoveListener(t)
  BY <1>3, OpenKeeps, CloseRemoveListenerKeeps
<1>4. CASE \E i \in Items : Register(t, i) \/ Modify(t, i) \/ Unregister(t, i) \/ Remove(t, i)
  BY <1>4, RegisterKeeps, ModifyKeeps, UnregisterKeeps, RemoveKeeps
<1>5. CASE \E from \in {"get", "wait"} : StartRead(t, from)
  BY <1>5, StartReadKeeps
<1>6. QED
  BY <1>1, <1>2, <1>3, <1>4, <1>5

LEMMA StepKeeps ==
    ASSUME IInv, [Next]_vars PROVE IInv' /\ StepOK
<1>1. CASE UNCHANGED vars
  <2>1. UNCHANGED <<state, matching, listener, current, opened, closed, initial, adding, tracked, latch, cachedReference,
                    cachedService, dOwner, tOwner, call, budget, nextObj, madeFor, removed, refused, raced, during, left,
                    overlap>>
    BY <1>1 DEF vars, services, lists, caches, history
  <2>2. CallsInv' /\ StateInv' /\ OwnersInv'
    <3>1. CallsInv'
      BY <2>1 DEF IInv, CallsInv
    <3>2. StateInv'
      BY <2>1 DEF IInv, StateInv
    <3>3. OwnersInv'
      BY <2>1 DEF IInv, OwnersInv
    <3>4. QED
      BY <3>1, <3>2, <3>3
  <2>3. CountInv'
    <3>1. \A g : CountedIn(g)' = CountedIn(g)
      BY <2>1 DEF CountedIn
    <3>2. QED
      BY <2>1, <3>1 DEF IInv, CountInv
  <2>4. LifeInv'
    BY <2>1 DEF IInv, LifeInv
  <2>5. StepOK
    <3>1. \A o \in Objects : LifeOf(o)' = LifeOf(o)
      BY <2>1 DEF LifeOf, At
    <3>2. Life' = Life /\ madeFor' = madeFor
      BY <2>1, <3>1 DEF Life
    <3>3. QED
      BY <3>2 DEF StepOK
  <2>6. QED
    BY <2>2, <2>3, <2>4, <2>5 DEF IInv
<1>2. CASE Next
  BY <1>2, NextKeeps
<1>3. QED
  BY <1>1, <1>2

LEMMA InitIs ==
    ASSUME Init PROVE IInv /\ Life = [o \in Objects |-> "unborn"]
<1>0. {MaxItems, MaxOpens, MaxCalls, MaxObjects} \subseteq Nat
  BY TrackerAssumption
<1>1. CallsInv
  <2>1. \A t \in Threads : call[t] = Idle
    BY DEF Init
  <2>2. call \in [Threads -> CallType]
    BY IdleIs DEF Init
  <2>3. QED
    BY <2>1, <2>2, IdleIs DEF CallsInv
<1>2. StateInv
  <2>1. state \in [Items -> {"new", "listed", "unlisted", "gone"}] /\ matching \subseteq Items
    BY DEF Init
  <2>2. tracked \in [Gens -> [Items -> 0 .. MaxObjects]]
    BY <1>0 DEF Init, Empty
  <2>3. madeFor \in [Objects -> (Gens \X Items) \cup {NoKey}]
    BY DEF Init
  <2>4. initial \in [Gens -> SUBSET Items] /\ adding \in [Gens -> SUBSET Items] /\ latch \in [Gens -> Int]
    BY DEF Init
  <2>5. /\ listener \in 0 .. MaxOpens /\ current \in 0 .. MaxOpens /\ opened \in 0 .. MaxOpens /\ budget \in 0 .. MaxCalls
        /\ nextObj \in 1 .. MaxObjects + 1 /\ cachedReference \in 0 .. MaxItems /\ cachedService \in 0 .. MaxObjects
        /\ cachedReference = 0
    BY <1>0 DEF Init
  <2>6. closed = {} /\ removed = {} /\ refused = {} /\ raced = {} /\ during = {} /\ left = {} /\ overlap = {}
    BY DEF Init
  <2>7. QED
    BY <2>1, <2>2, <2>3, <2>4, <2>5, <2>6 DEF StateInv
<1>3. OwnersInv
  BY DEF Init, OwnersInv
<1>4. \A t \in Threads : call[t].pc = "idle" /\ call[t].o = 0 /\ call[t].from = "none"
  BY IdleIs DEF Init
<1>5. CountInv
  <2>1. \A g : CountedIn(g) = {}
    BY <1>4 DEF CountedIn, Counted, TrackPCs
  <2>2. Cardinality({}) = 0
    BY FS_EmptySet
  <2>3. \A g \in Gens : latch[g] = 0
    BY DEF Init
  <2>4. QED
    BY <2>1, <2>2, <2>3 DEF CountInv, Unusable
<1>6. \A g \in Gens, i \in Items : tracked[g][i] = 0
  BY DEF Init, Empty
<1>7. LifeInv
  <2>1. \A t \in Threads : ~ Holds(call[t])
    BY <1>4 DEF Holds
  <2>2. removed = {}
    BY DEF Init
  <2>3. \A g \in Gens : adding[g] = {}
    BY DEF Init
  <2>4. QED
    BY <1>6, <2>1, <2>2, <2>3 DEF LifeInv
<1>8. \A o \in Objects : LifeOf(o) = "unborn"
  <2>1. nextObj = 1 /\ \A o \in Objects : o >= 1
    BY <1>0 DEF Init, Objects
  <2>2. QED
    BY <2>1 DEF LifeOf
<1>9. QED
  BY <1>1, <1>2, <1>3, <1>5, <1>7, <1>8 DEF IInv, Life

\* The inductive invariant: calls are well formed, a generation's latch counts the events that are
\* being delivered to it until Close has waited, and every object is in one place.
THEOREM AlwaysIInv == Spec => []IInv
<1>1. Init => IInv
  BY InitIs
<1>2. IInv /\ [Next]_vars => IInv'
  BY StepKeeps
<1>3. QED
  BY <1>1, <1>2, PTL DEF Spec

LEMMA AtMostOne ==
    ASSUME NEW S, S = {} \/ \E t \in Threads : S = {t} PROVE Cardinality(S) <= 1
<1>1. CASE S = {}
  BY <1>1, FS_EmptySet
<1>2. ASSUME NEW t \in Threads, S = {t} PROVE Cardinality(S) <= 1
  <2>1. Cardinality({t}) = 1
    BY FS_Singleton
  <2>2. QED
    BY <1>2, <2>1
<1>3. QED
  BY <1>1, <1>2

\* The types of the tracker's fields, its mutexes and the calls; a latch never counts more events
\* than there are threads, and a mutex has one owner (ServiceTrackerPrivate, TrackedService).
THEOREM TypeCorrect == Spec => []TypeOK
<1>1. IInv => TypeOK
  <2> SUFFICES ASSUME IInv PROVE TypeOK
    OBVIOUS
  <2>2. StateInv /\ OwnersInv /\ CallsInv /\ CountInv
    BY DEF IInv
  <2>3. dOwner \subseteq Threads /\ Cardinality(dOwner) <= 1
    BY <2>2, AtMostOne DEF OwnersInv
  <2>4. tOwner \in [Gens -> SUBSET Threads] /\ \A g \in Gens : Cardinality(tOwner[g]) <= 1
    BY <2>2, AtMostOne DEF OwnersInv
  <2>5. latch \in [Gens -> Unusable .. Cardinality(Threads)]
    <3>1. Cardinality(Threads) \in Nat
      BY TrackerAssumption, FS_CardinalityType
    <3>2. ASSUME NEW g \in Gens PROVE latch[g] \in Unusable .. Cardinality(Threads)
      <4>1. CASE latch[g] = Unusable
        BY <3>1, <4>1 DEF Unusable
      <4>2. CASE latch[g] # Unusable
        <5>1. latch[g] = Cardinality(CountedIn(g))
          BY <2>2, <4>2 DEF CountInv
        <5>2. Cardinality(CountedIn(g)) \in Nat /\ Cardinality(CountedIn(g)) <= Cardinality(Threads)
          BY CountedFinite
        <5>3. QED
          BY <3>1, <5>1, <5>2 DEF Unusable
      <4>3. QED
        BY <4>1, <4>2
    <3>3. QED
      BY <2>2, <3>2 DEF StateInv
  <2>6. call \in [Threads -> [pc : {"idle"} \cup EventPCs \cup TrackPCs \cup OpenPCs \cup ClosePCs \cup ReadPCs,
                             from : {"none", "initial", "close", "remove", "get", "wait", "again"} \cup Events,
                             ev : {"none", "track", "untrack"}, g : 0 .. MaxOpens, i : 0 .. MaxItems,
                             o : 0 .. MaxObjects, refs : SUBSET Items]]
    BY <2>2 DEF CallsInv, CallType, PCs, Froms
  <2>7. QED
    BY <2>2, <2>3, <2>4, <2>5, <2>6 DEF StateInv, TypeOK
<1>2. QED
  BY <1>1, AlwaysIInv, PTL

\* Once Close has waited on the latch of a generation, no thread that delivers an event to that
\* generation is in a customizer, however events, Close and Open interleave
\* (TrackedService::WaitOnCustomizersToFinish).
THEOREM CloseAlwaysWaits == Spec => []CloseWaitsForCustomizers
<1>1. IInv => CloseWaitsForCustomizers
  <2> SUFFICES ASSUME IInv, NEW t \in Threads, InEvent(call[t]), call[t].pc \in Customizer
               PROVE  latch[call[t].g] # Unusable
    BY DEF CloseWaitsForCustomizers
  <2>2. PICK c : c = call[t]
    OBVIOUS
  <2>3. c.pc \in TrackPCs
    BY <2>2 DEF Customizer, TrackPCs
  <2>4. c.g \in Gens
    BY <2>2, <2>3, TrackingIs
  <2>5. Past(c, c.g)
    BY <2>2, <2>3 DEF Past
  <2>6. QED
    BY <2>2, <2>4, <2>5 DEF IInv, CountInv
<1>2. QED
  BY <1>1, AlwaysIInv, PTL

\* The tracker implements the contract with its customizer: an object AddingService made is
\* tracked, or withdrawn at once; an object that is withdrawn is reported to RemovedService, once;
\* and a service never has two tracked objects (BundleAbstractTracked::CustomizerAddingFinal, Untrack).
THEOREM ContractKept == Spec => KeepsContract
<1>1. Init => Contract!Init
  <2>1. SUFFICES ASSUME Init PROVE Contract!Init
    OBVIOUS
  <2>2. Life = [o \in Objects |-> "unborn"] /\ madeFor = [o \in Objects |-> NoKey]
    BY <2>1, InitIs DEF Init
  <2>3. QED
    BY <2>2 DEF Contract!Init, Life
<1>2. IInv /\ [Next]_vars => [Contract!Next]_<<[o \in Objects |-> LifeOf(o)], madeFor>>
  BY StepKeeps DEF StepOK, Life
<1>3. QED
  BY <1>1, <1>2, AlwaysIInv, PTL DEF Spec, KeepsContract, Contract!Spec
-----------------------------------------------------------------------------
(* When nobody is at work. *)

\* What a call is about; one that only reads is about nothing.
Role(c) == IF c.pc \in ReadPCs THEN Idle ELSE c
role    == [t \in Threads |-> Role(call[t])]

\* Where a call may be, by who started it.
AddPCs == {"adding", "final", "threw"}
Shape(c) ==
    /\ c.pc = "idle" => c = Idle
    /\ c.from \notin {"get", "wait", "again"}
    /\ c.from = "none" => c.pc \in {"idle"} \cup OpenPCs \cup ClosePCs
    /\ c.from = "initial" => c.pc \in AddPCs \cup {"removing"}
    /\ c.from = "close" => c.pc \in {"untrack", "removing", "closeEach"}
    /\ c.from = "remove" => c.pc \in {"untrack", "removing"}
    /\ c.from \in Events => c.pc \in EventPCs \cup TrackPCs
    /\ c.from = "register" => c.pc \notin {"setProps", "gone"} /\ c.ev # "untrack"
    /\ c.from = "modify" => c.pc # "gone"
    /\ c.from = "unregister" => c.pc # "setProps" /\ c.ev # "track"
    /\ c.pc \in {"setProps", "notify"} => c.ev = "none"
    /\ c.from \in Events /\ c.pc \in AddPCs \cup {"track", "modified"} => c.ev = "track"
    /\ c.from \in Events /\ c.pc = "untrack" => c.ev = "untrack"
RoleInv == \A t \in Threads : /\ Shape(role[t])
                              /\ call[t].pc \in ReadPCs => call[t].from \in {"get", "wait", "again"}

About(c, i)  == c.from \in Events /\ c.i = i
Opener(c)    == c.pc \in OpenPCs \/ c.from = "initial"
Looking(c)   == c.pc \in {"lookup", "setInitial"}
Closer(c)    == c.pc \in ClosePCs \/ c.from = "close"
Adder(c, g, i) == c.pc \in AddPCs /\ c.g = g /\ c.i = i
Listed(i)    == state[i] = "listed" /\ i \in matching

\* What the events that are being reported say of the services.
EventInv ==
    /\ \A t \in Threads : role[t].from = "unregister" => state[role[t].i] = "unlisted"
    /\ \A t, u \in Threads : role[t].from = "unregister" /\ role[u].from = "unregister"
                               /\ role[t].i = role[u].i => t = u
    /\ \A i \in Items : state[i] = "unlisted" => \E t \in Threads : role[t].from = "unregister" /\ role[t].i = i
    /\ \A t, u \in Threads : \A i \in Items \ raced : About(role[t], i) /\ About(role[u], i) => t = u
    /\ \A t \in Threads : \A i \in Items \ raced : About(role[t], i) =>
          /\ role[t].from # "unregister" => state[i] = "listed"
          /\ role[t].ev = "track" => i \in matching

\* Open and Close.
Dying == \E t \in Threads : role[t].pc \in {"closeLoad", "closeLock"}
Committed(c) == Closer(c) /\ c.pc # "closeLoad"
OpenInv ==
    /\ \A t \in Threads : Looking(role[t]) <=> dOwner = {t}
    /\ \A t \in Threads : Looking(role[t]) =>
          /\ role[t].g = opened /\ (current = 0 \/ current \in closed)
          /\ role[t].g \notin overlap => listener = role[t].g
    /\ \A t, u \in Threads : Looking(role[t]) /\ Closer(role[u]) => {current, role[t].g} \ {0} \subseteq overlap
    /\ \A t \in Threads : Committed(role[t]) =>
          /\ role[t].g \notin overlap /\ role[t].g # 0 => current = role[t].g
          /\ current \notin overlap /\ current # 0 => current = role[t].g
          /\ role[t].pc # "closeLock" => role[t].g \in closed
    /\ current # 0 /\ current \notin closed \cup overlap => listener = current \/ Dying
FreshInv ==
    /\ current <= opened /\ listener <= opened /\ \A t \in Threads : role[t].g <= opened
    /\ \A g \in Gens : g > opened => initial[g] = {} /\ adding[g] = {} /\ TrackedIn(g) = {}
    /\ \A t \in Threads : Looking(role[t]) => initial[role[t].g] = {}

\* The services an open generation must have.
Brings(c, g, i) ==
    \/ c.pc = "lookup" /\ c.g = g
    \/ c.pc = "setInitial" /\ c.g = g /\ i \in c.refs
    \/ About(c, i) /\ c.from # "unregister" /\ c.pc = "notify"
    \/ About(c, i) /\ c.ev = "track" /\ c.pc \in {"countUp", "check", "track"} /\ c.g = g
Covered(g, i) ==
    \/ tracked[g][i] # 0 \/ i \in adding[g] \/ i \in initial[g]
    \/ \E t \in Threads : Brings(role[t], g, i)
Live(g) == /\ g \in Gens \ (closed \cup overlap) /\ ~ Dying
           /\ g = current \/ \E t \in Threads : Looking(role[t]) /\ role[t].g = g
Living == {g \in Gens : Live(g)}
AddersInv == \A g \in Gens : \A i \in adding[g] : \E t \in Threads : Adder(role[t], g, i)
Retracts(c) == c.from = "modify" /\ c.ev = "untrack"
RetractInv == \A t \in Threads : Retracts(role[t]) /\ role[t].g \in Living => role[t].i \notin matching \ raced
LostInv == \A g \in Living : \A i \in Items \ raced : Listed(i) /\ <<g, i>> \notin refused => Covered(g, i)

\* The initial references, and what changes while they are looked at.
MeanwhileInv == \A t, u \in Threads : Opener(role[t]) /\ role[u].from \in Events => role[u].i \in during
Untouched(g, i) == tracked[g][i] = 0 /\ i \notin adding[g]
LookingInv == \A t \in Threads : Looking(role[t]) => \A i \in Items \ during : Untouched(role[t].g, i)
InitialInv ==
    \A g \in Gens : \A i \in initial[g] \ during :
        Untouched(g, i) /\ (g \in closed \/ \E t \in Threads : Opener(role[t]) /\ role[t].g = g)

\* Close takes every service out of the generation it closes.
Takes(c, g, i) ==
    /\ c.g = g
    /\ \/ c.pc \in {"closeWait", "closeRefs"}
       \/ (c.pc = "closeEach" \/ c.from = "close") /\ i \in c.refs
       \/ c.from = "close" /\ c.pc = "untrack" /\ c.i = i
ClosedInv ==
    \A g \in closed \ overlap : \A i \in TrackedIn(g) \ during :
        <<g, i>> \in left \/ \E t \in Threads : Takes(role[t], g, i)

\* The services an open generation may have; m are those that match.
Drops(m, c, g, i) ==
    /\ About(c, i) /\ c.from # "register"
    /\ \/ c.pc = "notify" /\ c.from = "unregister" /\ i \in m
       \/ c.pc = "notify" /\ c.from = "modify" /\ i \notin m /\ c.g = g
       \/ c.pc \in {"countUp", "check", "untrack"} /\ c.ev = "untrack" /\ c.g = g
ListedInv ==
    /\ \A t \in Threads : role[t].pc = "setInitial" => \A i \in role[t].refs \ during : Listed(i)
    /\ \A g \in Gens \ closed : \A i \in initial[g] \ during : Listed(i)
    /\ \A g \in Gens : \A i \in adding[g] \ (raced \cup during) : Listed(i)
StaleInv ==
    current \in Living =>
        \A i \in TrackedIn(current) \ (raced \cup during) :
            /\ Listed(i) \/ \E t \in Threads : Drops(matching, role[t], current, i)
            /\ \A t \in Threads : role[t].pc = "setProps" /\ role[t].i = i => role[t].g = current
-----------------------------------------------------------------------------
(* What a step does to the roles. *)

\* Thread t has role d now; the others have theirs.
Turn(t, d) ==
    /\ d \in CallType /\ CallOK(d) /\ Shape(d) /\ role'[t] = d
    /\ \A u \in Threads : u # t => role'[u] = role[u]
Onto(c, d, l) == d.pc = l /\ d.from = c.from /\ d.ev = c.ev /\ d.g = c.g /\ d.i = c.i /\ d.refs = c.refs
After(c, d) ==
    \/ c.from = "initial" /\ d.pc = "initial" /\ d.from = "none" /\ d.g = c.g
    \/ c.from = "close" /\ d.pc = "closeEach" /\ d.from = "close" /\ d.g = c.g /\ d.refs = c.refs
    \/ c.from = "unregister" /\ d.pc = "gone" /\ d.from = "unregister" /\ d.i = c.i /\ d.ev = c.ev /\ d.g = c.g
    \/ c.from \notin {"initial", "close", "unregister"} /\ d = Idle

SameServices == UNCHANGED <<state, matching, raced>>
SameTracker  == UNCHANGED <<listener, current, opened, closed, overlap, dOwner>>
SameLists    == UNCHANGED <<initial, adding, tracked, refused>>
Kept         == SameServices /\ SameTracker /\ SameLists /\ during \subseteq during'

LEMMA RoleIs ==
    ASSUME CallsInv, NEW t \in Threads
    PROVE  /\ role[t] \in CallType /\ CallOK(role[t])
           /\ call[t].pc \notin ReadPCs => role[t] = call[t]
           /\ call[t].pc \in ReadPCs => role[t] = Idle
           /\ role[t].pc \notin ReadPCs
           /\ role[t].pc \in ItemPCs \/ role[t].from \in Events => role[t].i \in Items
           /\ role[t].pc \in GenPCs => role[t].g \in Gens
           /\ role[t].g \in Nat /\ role[t].refs \subseteq Items
<1>1. role[t] = Role(call[t]) /\ CallOK(call[t])
  BY DEF role, CallsInv
<1>2. CallOK(role[t]) /\ role[t] \in CallType
  BY <1>1, IdleIs DEF Role, CallOK
<1>3. role[t].pc \notin ReadPCs
  BY <1>1, IdleIs DEF Role, ReadPCs
<1>4. /\ role[t].pc \in ItemPCs \/ role[t].from \in Events => role[t].i \in Items
      /\ role[t].pc \in GenPCs => role[t].g \in Gens
      /\ role[t].refs \subseteq Items
  BY <1>2, CallIs DEF CallOK
<1>5. role[t].g \in Nat
  BY <1>2, TrackerAssumption, CallIs
<1>6. QED
  BY <1>1, <1>2, <1>3, <1>4, <1>5 DEF Role

\* The call a thread makes or goes on with.
LEMMA MoveTurn ==
    ASSUME CallsInv, CallsInv', NEW t \in Threads, NEW e, Moves(t, e)
    PROVE  /\ role'[t] = Role(e) /\ CallOK(e) /\ e \in CallType
           /\ \A u \in Threads : u # t => role'[u] = role[u]
<1>1. call'[t] = e
  BY DEF Moves
<1>2. CallOK(e) /\ e \in CallType /\ role'[t] = Role(e)
  BY <1>1 DEF CallsInv, role, CallOK
<1>3. ASSUME NEW u \in Threads, u # t PROVE role'[u] = role[u]
  <2>1. \/ call'[u] = call[u]
        \/ call[u].pc = "asleep" /\ call'[u].pc = "waitLock"
    BY <1>3, OthersAre
  <2>2. Role(call'[u]) = Role(call[u])
    BY <2>1 DEF Role, ReadPCs
  <2>3. QED
    BY <2>2 DEF role
<1>4. QED
  BY <1>2, <1>3

LEMMA SetTurn ==
    ASSUME CallsInv, CallsInv', NEW t \in Threads, NEW e, Set(t, e)
    PROVE  /\ role'[t] = Role(e) /\ CallOK(e) /\ e \in CallType /\ Moves(t, e)
           /\ \A u \in Threads : u # t => role'[u] = role[u]
<1>1. call'[t] = e
  BY DEF Set, CallsInv
<1>2. Moves(t, e)
  BY <1>1 DEF Set, Moves, CallsInv
<1>3. QED
  BY <1>2, MoveTurn

LEMMA ShapeTurn ==
    ASSUME RoleInv, CallsInv, CallsInv', NEW t \in Threads, NEW e, Moves(t, e), e.pc \notin ReadPCs, Shape(e)
    PROVE  Turn(t, e) /\ RoleInv'
<1>1. /\ role'[t] = e /\ CallOK(e) /\ e \in CallType
      /\ \A u \in Threads : u # t => role'[u] = role[u]
  BY MoveTurn DEF Role
<1>2. Turn(t, e)
  BY <1>1 DEF Turn
<1>3. ASSUME NEW u \in Threads
      PROVE  Shape(role'[u]) /\ (call'[u].pc \in ReadPCs => call'[u].from \in {"get", "wait", "again"})
  <2>1. CASE u = t
    BY <1>1, <2>1 DEF Moves
  <2>2. CASE u # t
    <3>1. \/ call'[u] = call[u]
          \/ call[u].pc = "asleep" /\ call'[u].pc = "waitLock" /\ call'[u].from = call[u].from
      BY <2>2, OthersAre
    <3>2. QED
      BY <1>1, <2>2, <3>1 DEF RoleInv, ReadPCs
  <2>3. QED
    BY <2>1, <2>2
<1>4. QED
  BY <1>2, <1>3 DEF RoleInv

\* A step of a call that only reads.
LEMMA ReadTurn ==
    ASSUME RoleInv, CallsInv, CallsInv', NEW t \in Threads, NEW e, Moves(t, e), role[t] = Idle,
           e = Idle \/ (e.pc \in ReadPCs /\ e.from \in {"get", "wait", "again"})
    PROVE  role' = role /\ RoleInv'
<1>1. role'[t] = Idle /\ \A u \in Threads : u # t => role'[u] = role[u]
  BY MoveTurn DEF Role
<1>2. role' = role
  BY <1>1 DEF role
<1>3. ASSUME NEW u \in Threads PROVE call'[u].pc \in ReadPCs => call'[u].from \in {"get", "wait", "again"}
  <2>1. CASE u = t
    BY <2>1, IdleIs DEF Moves, ReadPCs
  <2>2. CASE u # t
    <3>1. \/ call'[u] = call[u]
          \/ call[u].pc = "asleep" /\ call'[u].pc = "waitLock" /\ call'[u].from = call[u].from
      BY <2>2, OthersAre
    <3>2. QED
      BY <3>1 DEF RoleInv, ReadPCs
  <2>3. QED
    BY <2>1, <2>2
<1>4. QED
  BY <1>2, <1>3 DEF RoleInv

\* The history's view of the calls.
LEMMA HistoryIs ==
    ASSUME RoleInv, CallsInv
    PROVE  /\ \A i : i \in Reported <=> \E u \in Threads : About(role[u], i)
           /\ Opening <=> \E u \in Threads : Opener(role[u])
           /\ Closing <=> \E u \in Threads : Closer(role[u])
<1>1. ASSUME NEW u \in Threads
      PROVE  /\ call[u].from \in Events <=> role[u].from \in Events
             /\ role[u].from \in Events => role[u].i = call[u].i
             /\ (call[u].pc \in OpenPCs \/ call[u].from = "initial") <=> Opener(role[u])
             /\ (call[u].pc \in ClosePCs \/ call[u].from = "close") <=> Closer(role[u])
  <2>1. CASE call[u].pc \in ReadPCs
    <3>1. call[u].from \in {"get", "wait", "again"} /\ role[u] = Idle
      BY <2>1, RoleIs DEF RoleInv
    <3>2. QED
      BY <2>1, <3>1, IdleIs DEF Events, Opener, Closer, OpenPCs, ClosePCs, ReadPCs
  <2>2. CASE call[u].pc \notin ReadPCs
    BY <2>2, RoleIs DEF Opener, Closer
  <2>3. QED
    BY <2>1, <2>2
<1>2. \A i : i \in Reported <=> \E u \in Threads : About(role[u], i)
  BY <1>1 DEF Reported, InEvent, About
<1>3. QED
  BY <1>1, <1>2 DEF Opening, Closing

LEMMA ShapeIdle == Shape(Idle) /\ Idle.pc \notin ReadPCs
BY IdleIs DEF Shape, ReadPCs, Events

\* A thread outside the calls that read.
LEMMA HereIs ==
    ASSUME IInv, RoleInv, NEW t \in Threads, call[t].pc \notin ReadPCs
    PROVE  role[t] = call[t] /\ CallsInv /\ CallOK(call[t]) /\ call[t] \in CallType /\ Shape(call[t])
BY RoleIs DEF IInv, RoleInv, CallOK

LEMMA AfterTurn ==
    ASSUME NEW c, CallOK(c), Shape(c), c.pc \in {"notify", "check"} \cup TrackPCs, NEW e, e = AfterTracking(c)
    PROVE  After(c, e) /\ e.pc \notin ReadPCs /\ Shape(e)
<1>1. c \in CallType
  BY DEF CallOK
<1>2. CASE c.from = "initial"
  <2>1. e = [c EXCEPT !.pc = "initial", !.from = "none", !.o = 0, !.i = 0]
    BY <1>2 DEF AfterTracking
  <2>2. e.pc = "initial" /\ e.from = "none" /\ e.g = c.g
    BY <1>1, <2>1 DEF CallType
  <2>3. QED
    BY <1>2, <2>2 DEF After, Shape, ReadPCs, OpenPCs, Events
<1>3. CASE c.from = "close"
  <2>1. e = [c EXCEPT !.pc = "closeEach", !.o = 0, !.i = 0]
    BY <1>3 DEF AfterTracking
  <2>2. e.pc = "closeEach" /\ e.from = "close" /\ e.g = c.g /\ e.refs = c.refs
    BY <1>1, <1>3, <2>1 DEF CallType
  <2>3. QED
    BY <1>3, <2>2 DEF After, Shape, ReadPCs, ClosePCs, Events
<1>4. CASE c.from = "unregister"
  <2>1. e = [c EXCEPT !.pc = "gone", !.o = 0]
    BY <1>4 DEF AfterTracking
  <2>2. e.pc = "gone" /\ e.from = "unregister" /\ e.g = c.g /\ e.i = c.i /\ e.ev = c.ev
    BY <1>1, <1>4, <2>1 DEF CallType
  <2>3. QED
    BY <1>4, <2>2 DEF After, Shape, ReadPCs, EventPCs, Events, AddPCs
<1>5. CASE c.from \notin {"initial", "close", "unregister"}
  <2>1. e = Idle
    BY <1>5 DEF AfterTracking
  <2>2. QED
    BY <1>5, <2>1, ShapeIdle DEF After
<1>6. QED
  BY <1>2, <1>3, <1>4, <1>5

\* A call leaves Track, TrackAdding or Untrack.
LEMMA LeaveTurn ==
    ASSUME IInv, IInv', RoleInv, NEW t \in Threads, call[t].pc \in {"notify", "check"} \cup TrackPCs,
           \/ Set(t, AfterTracking(call[t]))
           \/ Moves(t, AfterTracking(call[t]))
    PROVE  RoleInv' /\ role[t] = call[t] /\ \E d : Turn(t, d) /\ After(role[t], d)
<1>1. call[t].pc \notin ReadPCs
  BY DEF ReadPCs, TrackPCs
<1>2. PICK c : c = call[t]
  OBVIOUS
<1>3. role[t] = c /\ CallsInv /\ CallsInv' /\ CallOK(c) /\ Shape(c)
  BY <1>1, <1>2, HereIs DEF IInv
<1>4. PICK e : e = AfterTracking(c)
  OBVIOUS
<1>5. After(c, e) /\ e.pc \notin ReadPCs /\ Shape(e)
  BY <1>2, <1>3, <1>4, AfterTurn
<1>6. Moves(t, e)
  BY <1>2, <1>3, <1>4, SetTurn
<1>7. QED
  BY <1>2, <1>3, <1>5, <1>6, ShapeTurn

\* A call goes on at another place.
LEMMA GotoTurn ==
    ASSUME IInv, IInv', RoleInv, NEW t \in Threads, call[t].pc \notin ReadPCs, NEW l, l \notin ReadPCs,
           Goto(t, l), \A d : Onto(call[t], d, l) => Shape(d)
    PROVE  RoleInv' /\ role[t] = call[t] /\ \E d : Turn(t, d) /\ Onto(role[t], d, l)
<1>1. PICK c : c = call[t]
  OBVIOUS
<1>2. role[t] = c /\ CallsInv /\ CallsInv' /\ c \in CallType
  BY <1>1, HereIs DEF IInv
<1>3. PICK e : e = [c EXCEPT !.pc = l]
  OBVIOUS
<1>4. Onto(c, e, l)
  BY <1>2, <1>3 DEF Onto, CallType
<1>5. Moves(t, e)
  BY <1>1, <1>2, <1>3, SetTurn DEF Goto
<1>6. QED
  BY <1>1, <1>2, <1>4, <1>5, ShapeTurn DEF Onto

\* A call begins.
LEMMA BeginTurn ==
    ASSUME IInv, IInv', RoleInv, NEW t \in Threads, call[t].pc = "idle", NEW e, Set(t, e), e.pc \notin ReadPCs, Shape(e)
    PROVE  RoleInv' /\ role[t] = Idle /\ Turn(t, e)
<1>1. call[t].pc \notin ReadPCs
  BY DEF ReadPCs
<1>2. role[t] = Idle /\ CallsInv /\ CallsInv'
  BY <1>1, HereIs DEF IInv, Shape
<1>3. Moves(t, e)
  BY <1>2, SetTurn
<1>4. QED
  BY <1>2, <1>3, ShapeTurn

\* A call ends.
LEMMA EndTurn ==
    ASSUME IInv, IInv', RoleInv, NEW t \in Threads, call[t].pc \notin ReadPCs, Set(t, Idle)
    PROVE  RoleInv' /\ role[t] = call[t] /\ Turn(t, Idle)
<1>1. role[t] = call[t] /\ CallsInv /\ CallsInv'
  BY HereIs DEF IInv
<1>2. Moves(t, Idle)
  BY <1>1, SetTurn
<1>3. QED
  BY <1>1, <1>2, ShapeIdle, ShapeTurn

\* Changes of services.
Changes(t, i, d) ==
    /\ role[t] = Idle /\ Turn(t, d) /\ d.i = i /\ d.ev = "none" /\ i \in Items
    /\ SameTracker /\ SameLists
    /\ raced' = IF \E u \in Threads : About(role[u], i) THEN raced \cup {i} ELSE raced
    /\ during' = IF \E u \in Threads : Opener(role[u]) THEN during \cup {i} ELSE during

LEMMA ChangeTurn ==
    ASSUME IInv, IInv', RoleInv, NEW t \in Threads, NEW i \in Items, call[t].pc = "idle", NEW c, Change(t, i, c),
           NEW d, d = [c EXCEPT !.i = i], d.i = i, d.ev = "none", d.pc \notin ReadPCs, Shape(d)
    PROVE  Changes(t, i, d) /\ RoleInv'
<1>1. Set(t, d) /\ SameTracker /\ SameLists
  BY DEF Change, SameTracker, SameLists, lists
<1>2. RoleInv' /\ role[t] = Idle /\ Turn(t, d)
  BY <1>1, BeginTurn
<1>3. CallsInv
  BY DEF IInv
<1>4. /\ raced' = IF \E u \in Threads : About(role[u], i) THEN raced \cup {i} ELSE raced
      /\ during' = IF \E u \in Threads : Opener(role[u]) THEN during \cup {i} ELSE during
  BY <1>3, HistoryIs DEF Change
<1>5. QED
  BY <1>1, <1>2, <1>4 DEF Changes

LEMMA RegisterTurn ==
    ASSUME IInv, IInv', RoleInv, NEW t \in Threads, NEW i \in Items, Register(t, i)
    PROVE  /\ RoleInv' /\ state[i] = "new" /\ state' = [state EXCEPT ![i] = "listed"]
           /\ matching' \in {matching, matching \cup {i}}
           /\ \E d : Changes(t, i, d) /\ d.pc = "notify" /\ d.from = "register" /\ d.g = 0
<1>1. PICK c : c = [Idle EXCEPT !.pc = "notify", !.from = "register"]
  OBVIOUS
<1>2. PICK d : d = [c EXCEPT !.i = i]
  OBVIOUS
<1>3. d.pc = "notify" /\ d.from = "register" /\ d.i = i /\ d.ev = "none" /\ d.g = 0
  BY <1>1, <1>2 DEF Idle
<1>4. Shape(d) /\ d.pc \notin ReadPCs
  BY <1>3 DEF Shape, ReadPCs, Events, EventPCs, AddPCs
<1>5. Change(t, i, c) /\ call[t].pc = "idle"
  BY <1>1 DEF Register, At
<1>6. QED
  BY <1>2, <1>3, <1>4, <1>5, ChangeTurn DEF Register

LEMMA UnregisterTurn ==
    ASSUME IInv, IInv', RoleInv, NEW t \in Threads, NEW i \in Items, Unregister(t, i)
    PROVE  /\ RoleInv' /\ state[i] = "listed" /\ state' = [state EXCEPT ![i] = "unlisted"] /\ matching' = matching
           /\ \E d : Changes(t, i, d) /\ d.pc = "notify" /\ d.from = "unregister" /\ d.g = 0
<1>1. PICK c : c = [Idle EXCEPT !.pc = "notify", !.from = "unregister"]
  OBVIOUS
<1>2. PICK d : d = [c EXCEPT !.i = i]
  OBVIOUS
<1>3. d.pc = "notify" /\ d.from = "unregister" /\ d.i = i /\ d.ev = "none" /\ d.g = 0
  BY <1>1, <1>2 DEF Idle
<1>4. Shape(d) /\ d.pc \notin ReadPCs
  BY <1>3 DEF Shape, ReadPCs, Events, EventPCs, AddPCs
<1>5. Change(t, i, c) /\ call[t].pc = "idle"
  BY <1>1 DEF Unregister, At
<1>6. QED
  BY <1>2, <1>3, <1>4, <1>5, ChangeTurn DEF Unregister

LEMMA ModifyTurn ==
    ASSUME IInv, IInv', RoleInv, NEW t \in Threads, NEW i \in Items, Modify(t, i)
    PROVE  /\ RoleInv' /\ state[i] \in {"listed", "unlisted"} /\ state' = state /\ matching' = matching
           /\ \E d : /\ Changes(t, i, d) /\ d.pc = "setProps" /\ d.from = "modify"
                     /\ d.g = IF i \in matching THEN listener ELSE 0
<1>0. PICK k : k = IF i \in matching THEN listener ELSE 0
  OBVIOUS
<1>1. PICK c : c = [Idle EXCEPT !.pc = "setProps", !.from = "modify", !.g = k]
  OBVIOUS
<1>2. PICK d : d = [c EXCEPT !.i = i]
  OBVIOUS
<1>3. d.pc = "setProps" /\ d.from = "modify" /\ d.i = i /\ d.ev = "none" /\ d.g = k
  BY <1>1, <1>2 DEF Idle
<1>4. Shape(d) /\ d.pc \notin ReadPCs
  BY <1>3 DEF Shape, ReadPCs, Events, EventPCs, AddPCs
<1>5. Change(t, i, c) /\ call[t].pc = "idle" /\ state[i] \in {"listed", "unlisted"} /\ UNCHANGED services
  BY <1>0, <1>1 DEF Modify, At
<1>6. Changes(t, i, d) /\ RoleInv'
  BY <1>2, <1>3, <1>4, <1>5, ChangeTurn
<1>7. QED
  BY <1>0, <1>3, <1>5, <1>6 DEF services

LEMMA SetPropsTurn ==
    ASSUME IInv, IInv', RoleInv, NEW t \in Threads, SetProps(t)
    PROVE  /\ RoleInv' /\ role[t].pc = "setProps" /\ SameTracker /\ SameLists
           /\ UNCHANGED <<state, raced, during>>
           /\ \/ /\ state[role[t].i] # "gone"
                 /\ matching' \in {matching \ {role[t].i}, matching \cup {role[t].i}}
                 /\ \E d : Turn(t, d) /\ Onto(role[t], d, "notify")
              \/ state[role[t].i] = "gone" /\ matching' = matching /\ Turn(t, Idle)
<1>1. call[t].pc = "setProps" /\ call[t].pc \notin ReadPCs
  BY DEF SetProps, At, ReadPCs
<1>2. role[t] = call[t] /\ Shape(call[t])
  BY <1>1, HereIs
<1>3. SameTracker /\ SameLists /\ UNCHANGED <<state, raced, during>>
  BY DEF SetProps, SameTracker, SameLists, lists, history
<1>4. CASE state[role[t].i] # "gone"
  <2>1. Goto(t, "notify") /\ matching' \in {matching \ {role[t].i}, matching \cup {role[t].i}}
    BY <1>2, <1>4 DEF SetProps
  <2>2. \A d : Onto(call[t], d, "notify") => Shape(d)
    BY <1>1, <1>2 DEF Onto, Shape, EventPCs, AddPCs, OpenPCs, ClosePCs
  <2>3. RoleInv' /\ \E d : Turn(t, d) /\ Onto(role[t], d, "notify")
    BY <1>1, <2>1, <2>2, GotoTurn DEF ReadPCs
  <2>4. QED
    BY <1>1, <1>2, <1>3, <1>4, <2>1, <2>3
<1>5. CASE state[role[t].i] = "gone"
  <2>1. Set(t, Idle) /\ matching' = matching
    BY <1>2, <1>5 DEF SetProps
  <2>2. QED
    BY <1>1, <1>2, <1>3, <1>5, <2>1, EndTurn
<1>6. QED
  BY <1>4, <1>5

LEMMA GoneTurn ==
    ASSUME IInv, IInv', RoleInv, NEW t \in Threads, Gone(t)
    PROVE  /\ RoleInv' /\ role[t].pc = "gone" /\ SameTracker /\ SameLists /\ UNCHANGED <<matching, raced, during>>
           /\ state' = [state EXCEPT ![role[t].i] = "gone"] /\ Turn(t, Idle)
<1>1. call[t].pc = "gone" /\ call[t].pc \notin ReadPCs /\ Set(t, Idle)
  BY DEF Gone, At, ReadPCs
<1>2. RoleInv' /\ role[t] = call[t] /\ Turn(t, Idle)
  BY <1>1, EndTurn
<1>3. QED
  BY <1>1, <1>2 DEF Gone, SameTracker, SameLists, lists, history

Notifies(c, d) ==
    \/ /\ c.i \in matching /\ listener # 0
       /\ d.pc = "countUp" /\ d.from = c.from /\ d.i = c.i /\ d.g = listener
       /\ d.ev = IF c.from = "unregister" THEN "untrack" ELSE "track"
    \/ /\ c.i \notin matching \/ listener = 0
       /\ c.from = "modify" /\ c.g # 0
       /\ d.pc = "countUp" /\ d.from = c.from /\ d.i = c.i /\ d.g = c.g /\ d.ev = "untrack"
    \/ /\ c.i \notin matching \/ listener = 0
       /\ ~ (c.from = "modify" /\ c.g # 0)
       /\ After(c, d)

LEMMA NotifyTurn ==
    ASSUME IInv, IInv', RoleInv, NEW t \in Threads, Notify(t)
    PROVE  RoleInv' /\ role[t].pc = "notify" /\ Kept /\ \E d : Turn(t, d) /\ Notifies(role[t], d)
<1>1. call[t].pc = "notify" /\ call[t].pc \notin ReadPCs
  BY DEF Notify, At, ReadPCs
<1>2. PICK c : c = call[t]
  OBVIOUS
<1>3. role[t] = c /\ Shape(c) /\ c \in CallType /\ CallOK(c) /\ c.from \in Events /\ CallsInv /\ CallsInv'
  BY <1>1, <1>2, HereIs DEF IInv, CallOK, EventPCs
<1>4. Kept
  BY DEF Notify, Kept, SameServices, SameTracker, SameLists, services, lists, history
<1>5. CASE c.i \in matching /\ listener # 0
  <2>1. PICK v : v = IF c.from = "unregister" THEN "untrack" ELSE "track"
    OBVIOUS
  <2>2. PICK e : e = [c EXCEPT !.pc = "countUp", !.g = listener, !.ev = v]
    OBVIOUS
  <2>3. Set(t, e)
    BY <1>2, <1>5, <2>1, <2>2 DEF Notify
  <2>4. e.pc = "countUp" /\ e.g = listener /\ e.ev = v /\ e.from = c.from /\ e.i = c.i
    BY <1>3, <2>2 DEF CallType
  <2>5. Shape(e) /\ e.pc \notin ReadPCs
    BY <1>1, <1>2, <1>3, <2>1, <2>4 DEF Shape, Events, EventPCs, AddPCs, ReadPCs
  <2>6. Moves(t, e)
    BY <1>3, <2>3, SetTurn
  <2>7. Turn(t, e) /\ RoleInv'
    BY <1>3, <2>5, <2>6, ShapeTurn
  <2>8. QED
    BY <1>1, <1>2, <1>3, <1>4, <1>5, <2>1, <2>4, <2>7 DEF Notifies
<1>6. CASE (c.i \notin matching \/ listener = 0) /\ c.from = "modify" /\ c.g # 0
  <2>2. PICK e : e = [c EXCEPT !.pc = "countUp", !.ev = "untrack"]
    OBVIOUS
  <2>3. Set(t, e)
    BY <1>2, <1>6, <2>2 DEF Notify, EndMatch
  <2>4. e.pc = "countUp" /\ e.g = c.g /\ e.ev = "untrack" /\ e.from = c.from /\ e.i = c.i
    BY <1>3, <2>2 DEF CallType
  <2>5. Shape(e) /\ e.pc \notin ReadPCs
    BY <1>1, <1>2, <1>3, <1>6, <2>4 DEF Shape, Events, EventPCs, AddPCs, ReadPCs
  <2>6. Moves(t, e)
    BY <1>3, <2>3, SetTurn
  <2>7. Turn(t, e) /\ RoleInv'
    BY <1>3, <2>5, <2>6, ShapeTurn
  <2>8. QED
    BY <1>1, <1>2, <1>3, <1>4, <1>6, <2>4, <2>7 DEF Notifies
<1>7. CASE (c.i \notin matching \/ listener = 0) /\ ~ (c.from = "modify" /\ c.g # 0)
  <2>1. Set(t, AfterTracking(call[t]))
    BY <1>2, <1>7 DEF Notify, EndMatch
  <2>2. RoleInv' /\ \E d : Turn(t, d) /\ After(role[t], d)
    BY <1>1, <2>1, LeaveTurn
  <2>3. QED
    BY <1>1, <1>2, <1>3, <1>4, <1>7, <2>2 DEF Notifies
<1>8. QED
  BY <1>5, <1>6, <1>7

\* The delivery of an event.
LEMMA CountUpTurn ==
    ASSUME IInv, IInv', RoleInv, NEW t \in Threads, CountUp(t)
    PROVE  RoleInv' /\ role[t].pc = "countUp" /\ Kept /\ \E d : Turn(t, d) /\ Onto(role[t], d, "check")
<1>1. call[t].pc = "countUp" /\ call[t].pc \notin ReadPCs /\ Goto(t, "check")
  BY DEF CountUp, At, ReadPCs
<1>2. role[t] = call[t] /\ Shape(call[t])
  BY <1>1, HereIs
<1>3. \A d : Onto(call[t], d, "check") => Shape(d)
  BY <1>1, <1>2 DEF Onto, Shape, EventPCs, AddPCs, OpenPCs, ClosePCs
<1>4. RoleInv' /\ \E d : Turn(t, d) /\ Onto(role[t], d, "check")
  BY <1>1, <1>3, GotoTurn DEF ReadPCs
<1>5. QED
  BY <1>1, <1>2, <1>4 DEF CountUp, Kept, SameServices, SameTracker, SameLists, services, lists, history

LEMMA CheckTurn ==
    ASSUME IInv, IInv', RoleInv, NEW t \in Threads, Check(t)
    PROVE  /\ RoleInv' /\ role[t].pc = "check" /\ Kept
           /\ \E d : /\ Turn(t, d)
                     /\ \/ /\ role[t].g \notin closed /\ state[role[t].i] # "gone"
                           /\ role[t].ev \in {"track", "untrack"} /\ Onto(role[t], d, role[t].ev)
                        \/ (role[t].g \in closed \/ state[role[t].i] = "gone") /\ After(role[t], d)
<1>1. call[t].pc = "check" /\ call[t].pc \notin ReadPCs
  BY DEF Check, At, ReadPCs
<1>2. role[t] = call[t] /\ Shape(call[t]) /\ CallOK(call[t]) /\ call[t] \in CallType
  BY <1>1, HereIs
<1>3. call[t].ev \in {"track", "untrack"} /\ call[t].from \in Events
  BY <1>1, <1>2 DEF CallOK, CallType, EventPCs
<1>4. Kept
  BY DEF Check, Kept, SameServices, SameTracker, SameLists, services, lists, history
<1>5. CASE call[t].g \notin closed /\ state[call[t].i] # "gone"
  <2>1. Goto(t, call[t].ev)
    BY <1>5 DEF Check
  <2>2. \A d : Onto(call[t], d, call[t].ev) => Shape(d)
    BY <1>1, <1>2, <1>3 DEF Onto, Shape, TrackPCs, Events, AddPCs
  <2>3. RoleInv' /\ \E d : Turn(t, d) /\ Onto(role[t], d, call[t].ev)
    BY <1>1, <1>3, <2>1, <2>2, GotoTurn DEF ReadPCs
  <2>4. QED
    BY <1>1, <1>2, <1>3, <1>4, <1>5, <2>3
<1>6. CASE call[t].g \in closed \/ state[call[t].i] = "gone"
  <2>1. Set(t, AfterTracking(call[t]))
    BY <1>6 DEF Check, Leave
  <2>2. RoleInv' /\ \E d : Turn(t, d) /\ After(role[t], d)
    BY <1>1, <2>1, LeaveTurn
  <2>3. QED
    BY <1>1, <1>2, <1>4, <1>6, <2>2
<1>7. QED
  BY <1>5, <1>6

\* A service begins to be added.
Starts(c, d, g, i, f) ==
    /\ adding' = [adding EXCEPT ![g] = @ \cup {i}]
    /\ d.pc = "adding" /\ d.from = f /\ d.ev = c.ev /\ d.g = c.g /\ d.i = i

LEMMA StartTurn ==
    ASSUME IInv, IInv', RoleInv, NEW t \in Threads, call[t].pc \in {"track", "initial"}, NEW g, NEW i, NEW f,
           StartAdding(t, g, i, [call[t] EXCEPT !.from = f]),
           call[t].pc = "track" => f = call[t].from, call[t].pc = "initial" => f = "initial"
    PROVE  RoleInv' /\ role[t] = call[t] /\ \E d : Turn(t, d) /\ Starts(role[t], d, g, i, f)
<1>1. call[t].pc \notin ReadPCs
  BY DEF ReadPCs
<1>2. PICK c : c = call[t]
  OBVIOUS
<1>3. role[t] = c /\ Shape(c) /\ c \in CallType /\ CallOK(c) /\ CallsInv /\ CallsInv'
  BY <1>1, <1>2, HereIs DEF IInv
<1>4. PICK b : b = [c EXCEPT !.from = f]
  OBVIOUS
<1>5. PICK e : e = [b EXCEPT !.pc = "adding", !.i = i]
  OBVIOUS
<1>6. Set(t, e) /\ adding' = [adding EXCEPT ![g] = @ \cup {i}]
  BY <1>2, <1>4, <1>5 DEF StartAdding
<1>7. e.pc = "adding" /\ e.from = f /\ e.ev = c.ev /\ e.g = c.g /\ e.i = i
  BY <1>3, <1>4, <1>5 DEF CallType
<1>8. c.pc = "initial" => c.from = "none"
  BY <1>3 DEF Shape, AddPCs, EventPCs, TrackPCs, CallType, Froms, Events
<1>9. Shape(e) /\ e.pc \notin ReadPCs
  BY <1>2, <1>3, <1>7, <1>8 DEF Shape, AddPCs, EventPCs, TrackPCs, Events, ReadPCs, OpenPCs, ClosePCs
<1>10. Moves(t, e)
  BY <1>3, <1>6, SetTurn
<1>11. QED
  BY <1>2, <1>3, <1>6, <1>7, <1>9, <1>10, ShapeTurn DEF Starts

Tracks(c, d) ==
    /\ c.pc = "track" /\ SameServices /\ SameTracker /\ UNCHANGED <<initial, tracked, refused, during>>
    /\ \/ c.g \notin closed /\ tracked[c.g][c.i] # 0 /\ adding' = adding /\ Onto(c, d, "modified")
       \/ (c.g \in closed \/ c.i \in adding[c.g]) /\ adding' = adding /\ After(c, d)
       \/ c.g \notin closed /\ tracked[c.g][c.i] = 0 /\ c.i \notin adding[c.g] /\ Starts(c, d, c.g, c.i, c.from)

LEMMA TrackTurn ==
    ASSUME IInv, IInv', RoleInv, NEW t \in Threads, Track(t)
    PROVE  RoleInv' /\ \E d : Turn(t, d) /\ Tracks(role[t], d)
<1>1. call[t].pc = "track" /\ call[t].pc \notin ReadPCs /\ call[t].pc \in TrackPCs
  BY DEF Track, At, ReadPCs, TrackPCs
<1>2. PICK c : c = call[t]
  OBVIOUS
<1>3. role[t] = c /\ Shape(c) /\ c \in CallType
  BY <1>1, <1>2, HereIs
<1>4. SameServices /\ SameTracker /\ UNCHANGED <<initial, tracked, refused, during>>
  BY DEF Track, SameServices, SameTracker, services, history
<1>5. CASE c.g \notin closed /\ tracked[c.g][c.i] # 0 /\ Goto(t, "modified") /\ UNCHANGED adding
  <2>1. \A d : Onto(call[t], d, "modified") => Shape(d)
    BY <1>1, <1>2, <1>3 DEF Onto, Shape, TrackPCs, AddPCs, OpenPCs, ClosePCs, Events
  <2>2. RoleInv' /\ \E d : Turn(t, d) /\ Onto(role[t], d, "modified")
    BY <1>1, <1>5, <2>1, GotoTurn DEF ReadPCs
  <2>3. QED
    BY <1>1, <1>2, <1>3, <1>4, <1>5, <2>2 DEF Tracks
<1>6. CASE (c.g \in closed \/ c.i \in adding[c.g]) /\ Leave(t) /\ UNCHANGED adding
  <2>1. RoleInv' /\ \E d : Turn(t, d) /\ After(role[t], d)
    BY <1>1, <1>6, LeaveTurn DEF Leave
  <2>2. QED
    BY <1>1, <1>2, <1>3, <1>4, <1>6, <2>1 DEF Tracks
<1>7. CASE c.g \notin closed /\ tracked[c.g][c.i] = 0 /\ c.i \notin adding[c.g] /\ StartAdding(t, c.g, c.i, c)
  <2>1. [call[t] EXCEPT !.from = c.from] = c
    BY <1>2, <1>3 DEF CallType
  <2>2. PICK f : f = c.from
    OBVIOUS
  <2>3. RoleInv' /\ \E d : Turn(t, d) /\ Starts(role[t], d, c.g, c.i, f)
    BY <1>1, <1>2, <1>7, <2>1, <2>2, StartTurn
  <2>4. QED
    BY <1>1, <1>2, <1>3, <1>4, <1>7, <2>2, <2>3 DEF Tracks
<1>8. QED
  BY <1>2, <1>5, <1>6, <1>7 DEF Track

LEMMA ModifiedTurn ==
    ASSUME IInv, IInv', RoleInv, NEW t \in Threads, CustomizerModified(t) \/ CustomizerRemoved(t)
    PROVE  /\ RoleInv' /\ role[t].pc \in {"modified", "removing"} /\ Kept /\ \E d : Turn(t, d) /\ After(role[t], d)
<1>1. call[t].pc \in {"modified", "removing"} /\ call[t].pc \in TrackPCs /\ Leave(t)
  BY DEF CustomizerModified, CustomizerRemoved, At, TrackPCs
<1>2. RoleInv' /\ role[t] = call[t] /\ \E d : Turn(t, d) /\ After(role[t], d)
  BY <1>1, LeaveTurn DEF Leave
<1>3. Kept
  BY DEF CustomizerModified, CustomizerRemoved, Kept, SameServices, SameTracker, SameLists, services, lists, history
<1>4. QED
  BY <1>1, <1>2, <1>3

\* RemovedService throws out of Open or Close.
Throws(c, d) ==
    /\ c.pc = "removing" /\ d = Idle
    /\ \/ c.from = "initial" /\ initial[c.g] \subseteq during'
       \/ c.from = "close" /\ {c.g} \X c.refs \subseteq left'

LEMMA ThrowsTurn ==
    ASSUME IInv, IInv', RoleInv, NEW t \in Threads, CustomizerRemovedThrows(t)
    PROVE  RoleInv' /\ Kept /\ \E d : Turn(t, d) /\ Throws(role[t], d)
<1>1. call[t].pc = "removing" /\ call[t].pc \notin ReadPCs /\ Set(t, Idle)
  BY DEF CustomizerRemovedThrows, At, ReadPCs
<1>2. RoleInv' /\ role[t] = call[t] /\ Turn(t, Idle)
  BY <1>1, EndTurn
<1>3. Kept
  BY DEF CustomizerRemovedThrows, Kept, SameServices, SameTracker, SameLists, services, lists
<1>4. Throws(call[t], Idle)
  BY <1>1 DEF CustomizerRemovedThrows, Throws
<1>5. QED
  BY <1>2, <1>3, <1>4

LEMMA CustomizerAddingTurn ==
    ASSUME IInv, IInv', RoleInv, NEW t \in Threads, CustomizerAdding(t)
    PROVE  /\ RoleInv' /\ role[t].pc = "adding" /\ Kept
           /\ \E d : Turn(t, d) /\ (Onto(role[t], d, "final") \/ Onto(role[t], d, "threw"))
<1>1. call[t].pc = "adding" /\ call[t].pc \notin ReadPCs
  BY DEF CustomizerAdding, At, ReadPCs
<1>2. PICK c : c = call[t]
  OBVIOUS
<1>3. role[t] = c /\ Shape(c) /\ c \in CallType /\ CallsInv /\ CallsInv'
  BY <1>1, <1>2, HereIs DEF IInv
<1>4. Kept
  BY DEF CustomizerAdding, Kept, SameServices, SameTracker, SameLists, services, lists, history
<1>5. \A l \in {"final", "threw"} : \A d : Onto(c, d, l) => Shape(d) /\ d.pc \notin ReadPCs
  BY <1>1, <1>2, <1>3 DEF Onto, Shape, TrackPCs, AddPCs, OpenPCs, ClosePCs, Events, ReadPCs
<1>6. CASE Set(t, [c EXCEPT !.pc = "final", !.o = nextObj])
  <2>1. PICK e : e = [c EXCEPT !.pc = "final", !.o = nextObj]
    OBVIOUS
  <2>2. Onto(c, e, "final")
    BY <1>3, <2>1 DEF Onto, CallType
  <2>3. Moves(t, e)
    BY <1>3, <1>6, <2>1, SetTurn
  <2>4. QED
    BY <1>1, <1>2, <1>3, <1>4, <1>5, <2>2, <2>3, ShapeTurn
<1>7. ASSUME NEW l \in {"final", "threw"}, Goto(t, l) PROVE RoleInv' /\ \E d : Turn(t, d) /\ Onto(role[t], d, l)
  <2>1. l \notin ReadPCs /\ \A d : Onto(call[t], d, l) => Shape(d)
    BY <1>2, <1>5 DEF ReadPCs
  <2>2. QED
    BY <1>1, <1>7, <2>1, GotoTurn
<1>8. \/ Set(t, [c EXCEPT !.pc = "final", !.o = nextObj])
      \/ \E l \in {"final", "threw"} : Goto(t, l)
  BY <1>2 DEF CustomizerAdding
<1>9. QED
  BY <1>1, <1>2, <1>3, <1>4, <1>6, <1>7, <1>8

TakesOut(g, i) ==
    \/ i \in initial[g] /\ initial' = [initial EXCEPT ![g] = @ \ {i}] /\ UNCHANGED <<adding, tracked>>
    \/ /\ i \notin initial[g] /\ i \in adding[g] /\ adding' = [adding EXCEPT ![g] = @ \ {i}]
       /\ UNCHANGED <<initial, tracked>>
    \/ i \notin initial[g] \cup adding[g] /\ tracked[g][i] = 0 /\ UNCHANGED <<initial, adding, tracked>>
    \/ i \notin initial[g] \cup adding[g] /\ tracked' = [tracked EXCEPT ![g][i] = 0] /\ UNCHANGED <<initial, adding>>
Untracks(c, d) ==
    /\ c.pc = "untrack" /\ SameServices /\ SameTracker /\ during' = during
    /\ refused' = IF c.from = "remove" THEN refused \cup {<<c.g, c.i>>} ELSE refused
    /\ After(c, d) \/ Onto(c, d, "removing")
    /\ TakesOut(c.g, c.i)

LEMMA UntrackTurn ==
    ASSUME IInv, IInv', RoleInv, NEW t \in Threads, Untrack(t)
    PROVE  RoleInv' /\ \E d : Turn(t, d) /\ Untracks(role[t], d)
<1>1. call[t].pc = "untrack" /\ call[t].pc \notin ReadPCs /\ call[t].pc \in TrackPCs
  BY DEF Untrack, At, ReadPCs, TrackPCs
<1>2. PICK c : c = call[t]
  OBVIOUS
<1>3. role[t] = c /\ Shape(c) /\ c \in CallType /\ CallsInv /\ CallsInv'
  BY <1>1, <1>2, HereIs DEF IInv
<1>4. /\ SameServices /\ SameTracker /\ during' = during
      /\ refused' = IF c.from = "remove" THEN refused \cup {<<c.g, c.i>>} ELSE refused
  BY <1>2 DEF Untrack, SameServices, SameTracker, services
<1>5. ASSUME Leave(t) PROVE RoleInv' /\ \E d : Turn(t, d) /\ After(c, d)
  BY <1>1, <1>3, <1>5, LeaveTurn DEF Leave
<1>6. ASSUME Set(t, [c EXCEPT !.pc = "removing", !.o = tracked[c.g][c.i]])
      PROVE  RoleInv' /\ \E d : Turn(t, d) /\ Onto(c, d, "removing")
  <2>1. PICK e : e = [c EXCEPT !.pc = "removing", !.o = tracked[c.g][c.i]]
    OBVIOUS
  <2>2. Onto(c, e, "removing")
    BY <1>3, <2>1 DEF Onto, CallType
  <2>3. Shape(e) /\ e.pc \notin ReadPCs
    BY <1>1, <1>2, <1>3, <2>2 DEF Onto, Shape, TrackPCs, AddPCs, OpenPCs, ClosePCs, Events, ReadPCs
  <2>4. Moves(t, e)
    BY <1>3, <1>6, <2>1, SetTurn
  <2>5. QED
    BY <1>3, <2>2, <2>3, <2>4, ShapeTurn
<1>7. PICK g, i : g = c.g /\ i = c.i
  BY SMTT(60)
<1>8. TakesOut(g, i)
  BY <1>2, <1>7 DEF Untrack, lists, TakesOut
<1>9. Leave(t) \/ Set(t, [c EXCEPT !.pc = "removing", !.o = tracked[c.g][c.i]])
  BY <1>2 DEF Untrack
<1>10. RoleInv' /\ \E d : Turn(t, d) /\ (After(c, d) \/ Onto(c, d, "removing"))
  BY <1>3, <1>5, <1>6, <1>9
<1>11. QED
  BY <1>1, <1>2, <1>3, <1>4, <1>7, <1>8, <1>10 DEF Untracks

Finals(c, d) ==
    /\ c.pc \in {"final", "threw"} /\ SameServices /\ SameTracker /\ initial' = initial
    /\ adding' = [adding EXCEPT ![c.g] = @ \ {c.i}]
    /\ \/ /\ c.i \in adding[c.g] /\ c.g \notin closed /\ After(c, d)
          /\ \E o : o # 0 /\ tracked' = [tracked EXCEPT ![c.g][c.i] = o]
          /\ refused' = refused \ {<<c.g, c.i>>} /\ during' = during
       \/ /\ c.i \notin adding[c.g] \/ c.g \in closed
          /\ Onto(c, d, "removing") /\ UNCHANGED <<tracked, refused, during>>
       \/ /\ After(c, d) /\ during' = during
          /\ refused' = refused \cup {<<c.g, c.i>>} /\ tracked' = tracked
       \/ /\ c.from = "initial" /\ d = Idle /\ during' = during \cup initial[c.g]
          /\ refused' = refused \cup {<<c.g, c.i>>} /\ tracked' = tracked

LEMMA FinalTurn ==
    ASSUME IInv, IInv', RoleInv, NEW t \in Threads, CustomizerAddingFinal(t)
    PROVE  RoleInv' /\ \E d : Turn(t, d) /\ Finals(role[t], d)
<1>1. call[t].pc \in {"final", "threw"} /\ call[t].pc \notin ReadPCs /\ call[t].pc \in TrackPCs
  BY DEF CustomizerAddingFinal, ReadPCs, TrackPCs
<1>2. PICK c : c = call[t]
  OBVIOUS
<1>3. role[t] = c /\ Shape(c) /\ c \in CallType /\ CallsInv /\ CallsInv' /\ CallOK(c)
  BY <1>1, <1>2, HereIs DEF IInv
<1>4. /\ SameServices /\ SameTracker /\ initial' = initial
      /\ adding' = [adding EXCEPT ![c.g] = @ \ {c.i}]
  BY <1>2 DEF CustomizerAddingFinal, SameServices, SameTracker, services
<1>5. CASE /\ StillWanted(c.g, c.i) /\ c.o # 0 /\ tracked' = [tracked EXCEPT ![c.g][c.i] = c.o]
           /\ call' = Woken([call EXCEPT ![t] = AfterTracking(c)], c.g)
           /\ refused' = refused \ {<<c.g, c.i>>} /\ during' = during
  <2>1. PICK e : e = AfterTracking(c)
    OBVIOUS
  <2>2. CallOK(e) /\ e \in CallType /\ e.pc # "asleep"
    BY <1>1, <1>2, <1>3, <2>1, AfterIs DEF CallOK
  <2>3. Moves(t, e)
    BY <1>3, <1>5, <2>1, <2>2, WokenIs DEF CallsInv
  <2>4. RoleInv' /\ \E d : Turn(t, d) /\ After(role[t], d)
    BY <1>1, <1>2, <2>1, <2>3, LeaveTurn
  <2>5. QED
    BY <1>1, <1>2, <1>3, <1>4, <1>5, <2>4 DEF StillWanted, Finals
<1>6. CASE ~ StillWanted(c.g, c.i) /\ Goto(t, "removing") /\ UNCHANGED <<tracked, refused, during>>
  <2>1. \A d : Onto(call[t], d, "removing") => Shape(d)
    BY <1>1, <1>2, <1>3 DEF Onto, Shape, TrackPCs, AddPCs, OpenPCs, ClosePCs, Events
  <2>2. RoleInv' /\ \E d : Turn(t, d) /\ Onto(role[t], d, "removing")
    BY <1>1, <1>6, <2>1, GotoTurn DEF ReadPCs
  <2>3. QED
    BY <1>1, <1>2, <1>3, <1>4, <1>6, <2>2 DEF StillWanted, Finals
<1>7. CASE Leave(t) /\ refused' = refused \cup {<<c.g, c.i>>} /\ UNCHANGED <<tracked, during>>
  <2>1. RoleInv' /\ \E d : Turn(t, d) /\ After(role[t], d)
    BY <1>1, <1>7, LeaveTurn DEF Leave
  <2>2. QED
    BY <1>1, <1>2, <1>3, <1>4, <1>7, <2>1 DEF Finals
<1>8. CASE /\ c.from = "initial" /\ Set(t, Idle) /\ during' = during \cup initial[c.g]
           /\ refused' = refused \cup {<<c.g, c.i>>} /\ UNCHANGED tracked
  <2>1. RoleInv' /\ Turn(t, Idle)
    BY <1>1, <1>8, EndTurn
  <2>2. QED
    BY <1>1, <1>2, <1>3, <1>4, <1>8, <2>1 DEF Finals
<1>9. QED
  BY <1>2, <1>5, <1>6, <1>7, <1>8 DEF CustomizerAddingFinal

-----------------------------------------------------------------------------
(* Open. *)

Opens(t, d) ==
    /\ role[t] = Idle /\ dOwner = {} /\ (current = 0 \/ current \in closed)
    /\ opened' = opened + 1 /\ listener' = opened + 1 /\ dOwner' = {t} /\ opened + 1 \in Gens
    /\ d.pc = "lookup" /\ d.g = opened + 1 /\ d.from = "none"
    /\ \A i : i \in during' <=> i \in during \/ \E u \in Threads : About(role[u], i)
    /\ overlap' = IF \E u \in Threads : Closer(role[u]) THEN overlap \cup ({current, opened + 1} \ {0}) ELSE overlap
    /\ SameServices /\ SameLists /\ UNCHANGED <<current, closed>>

LEMMA OpenTurn ==
    ASSUME IInv, IInv', RoleInv, NEW t \in Threads, Open(t)
    PROVE  RoleInv' /\ \E d : Turn(t, d) /\ Opens(t, d)
<1>1. call[t].pc = "idle"
  BY DEF Open, At
<1>2. PICK e : e = [Idle EXCEPT !.pc = "lookup", !.g = opened + 1]
  OBVIOUS
<1>3. e.pc = "lookup" /\ e.g = opened + 1 /\ e.from = "none"
  BY <1>2 DEF Idle
<1>4. Shape(e) /\ e.pc \notin ReadPCs
  BY <1>3 DEF Shape, OpenPCs, ReadPCs, Events
<1>5. Set(t, e)
  BY <1>2 DEF Open
<1>6. RoleInv' /\ role[t] = Idle /\ Turn(t, e)
  BY <1>1, <1>4, <1>5, BeginTurn
<1>7. /\ \A i : i \in during' <=> i \in during \/ \E u \in Threads : About(role[u], i)
      /\ overlap' = IF \E u \in Threads : Closer(role[u]) THEN overlap \cup ({current, opened + 1} \ {0}) ELSE overlap
  <2>1. CallsInv
    BY DEF IInv
  <2>2. /\ during' = during \cup Reported
        /\ overlap' = IF Closing THEN overlap \cup ({current, opened + 1} \ {0}) ELSE overlap
    BY DEF Open
  <2>3. QED
    BY <2>1, <2>2, HistoryIs
<1>8. opened + 1 \in Gens
  <2>1. opened \in 0 .. MaxOpens /\ MaxOpens \in Nat /\ opened < MaxOpens
    BY TrackerAssumption DEF Open, IInv, StateInv
  <2>2. QED
    BY <2>1 DEF Gens
<1>9. /\ dOwner = {} /\ (current = 0 \/ current \in closed)
      /\ opened' = opened + 1 /\ listener' = opened + 1 /\ dOwner' = {t}
      /\ SameServices /\ SameLists /\ UNCHANGED <<current, closed>>
  BY DEF Open, ListenerOf, SameServices, SameLists, services, lists
<1>10. QED
  BY <1>3, <1>6, <1>7, <1>8, <1>9 DEF Opens

LEMMA PlainIs ==
    ASSUME NEW c \in CallType, Shape(c), c.pc \in OpenPCs \cup (ClosePCs \ {"closeEach"})
    PROVE  c.from = "none"
BY DEF Shape, CallType, Froms, OpenPCs, ClosePCs, AddPCs, EventPCs, TrackPCs, Events

LEMMA ShapePlain ==
    ASSUME NEW d, d.from = "none", d.pc \in OpenPCs \cup ClosePCs
    PROVE  Shape(d) /\ d.pc \notin ReadPCs
BY DEF Shape, OpenPCs, ClosePCs, ReadPCs, AddPCs, Events

Looks(c, d) ==
    /\ c.pc = "lookup" /\ Kept
    /\ d.pc = "setInitial" /\ d.g = c.g /\ d.from = c.from /\ d.refs = {i \in matching : state[i] = "listed"}

LEMMA LookupTurn ==
    ASSUME IInv, IInv', RoleInv, NEW t \in Threads, OpenLookup(t)
    PROVE  RoleInv' /\ \E d : Turn(t, d) /\ Looks(role[t], d)
<1>1. call[t].pc = "lookup" /\ call[t].pc \notin ReadPCs
  BY DEF OpenLookup, At, ReadPCs
<1>2. PICK c : c = call[t]
  OBVIOUS
<1>3. role[t] = c /\ Shape(c) /\ c \in CallType /\ CallsInv /\ CallsInv'
  BY <1>1, <1>2, HereIs DEF IInv
<1>4. PICK r : r = {i \in matching : state[i] = "listed"}
  OBVIOUS
<1>5. PICK e : e = [c EXCEPT !.pc = "setInitial", !.refs = r]
  OBVIOUS
<1>6. e.pc = "setInitial" /\ e.refs = r /\ e.g = c.g /\ e.from = c.from
  BY <1>3, <1>5 DEF CallType
<1>7. Set(t, e)
  BY <1>2, <1>4, <1>5 DEF OpenLookup
<1>8. Moves(t, e)
  BY <1>3, <1>7, SetTurn
<1>9. Shape(e) /\ e.pc \notin ReadPCs
  <2>1. c.from = "none"
    BY <1>1, <1>2, <1>3, PlainIs DEF OpenPCs
  <2>2. QED
    BY <1>6, <2>1, ShapePlain DEF OpenPCs
<1>10. Turn(t, e) /\ RoleInv'
  BY <1>3, <1>8, <1>9, ShapeTurn
<1>11. Kept
  BY DEF OpenLookup, Kept, SameServices, SameTracker, SameLists, services, lists, history
<1>12. QED
  BY <1>1, <1>2, <1>3, <1>4, <1>6, <1>10, <1>11 DEF Looks

Puts(c, d) ==
    /\ c.pc = "setInitial" /\ initial' = [initial EXCEPT ![c.g] = c.refs] /\ current' = c.g /\ dOwner' = {}
    /\ d.pc = "initial" /\ d.g = c.g /\ d.from = c.from
    /\ SameServices /\ UNCHANGED <<listener, opened, closed, overlap, adding, tracked, refused, during>>

LEMMA SetInitialTurn ==
    ASSUME IInv, IInv', RoleInv, NEW t \in Threads, OpenSetInitial(t)
    PROVE  RoleInv' /\ \E d : Turn(t, d) /\ Puts(role[t], d)
<1>1. call[t].pc = "setInitial" /\ call[t].pc \notin ReadPCs
  BY DEF OpenSetInitial, At, ReadPCs
<1>2. PICK c : c = call[t]
  OBVIOUS
<1>3. role[t] = c /\ Shape(c) /\ c \in CallType /\ CallsInv /\ CallsInv'
  BY <1>1, <1>2, HereIs DEF IInv
<1>4. PICK e : e = [c EXCEPT !.pc = "initial", !.refs = {}]
  OBVIOUS
<1>5. e.pc = "initial" /\ e.g = c.g /\ e.from = c.from
  BY <1>3, <1>4 DEF CallType
<1>6. Set(t, e)
  BY <1>2, <1>4 DEF OpenSetInitial
<1>7. Moves(t, e)
  BY <1>3, <1>6, SetTurn
<1>8. Shape(e) /\ e.pc \notin ReadPCs
  <2>1. c.from = "none"
    BY <1>1, <1>2, <1>3, PlainIs DEF OpenPCs
  <2>2. QED
    BY <1>5, <2>1, ShapePlain DEF OpenPCs
<1>9. Turn(t, e) /\ RoleInv'
  BY <1>3, <1>7, <1>8, ShapeTurn
<1>10. /\ initial' = [initial EXCEPT ![c.g] = c.refs] /\ current' = c.g /\ dOwner' = {}
       /\ SameServices /\ UNCHANGED <<listener, opened, closed, overlap, adding, tracked, refused, during>>
  BY <1>2 DEF OpenSetInitial, SameServices, services, history
<1>11. QED
  BY <1>1, <1>2, <1>3, <1>5, <1>9, <1>10 DEF Puts

Initials(c, d) ==
    /\ c.pc = "initial" /\ SameServices /\ SameTracker /\ UNCHANGED <<tracked, refused, during>>
    /\ \/ (c.g \in closed \/ initial[c.g] = {}) /\ d = Idle /\ UNCHANGED <<initial, adding>>
       \/ /\ c.g \notin closed
          /\ \E i \in initial[c.g] :
                /\ initial' = [initial EXCEPT ![c.g] = @ \ {i}]
                /\ \/ (tracked[c.g][i] # 0 \/ i \in adding[c.g]) /\ adding' = adding /\ d = c
                   \/ tracked[c.g][i] = 0 /\ i \notin adding[c.g] /\ Starts(c, d, c.g, i, "initial")

LEMMA TrackInitialTurn ==
    ASSUME IInv, IInv', RoleInv, NEW t \in Threads, TrackInitial(t)
    PROVE  RoleInv' /\ \E d : Turn(t, d) /\ Initials(role[t], d)
<1>1. call[t].pc = "initial" /\ call[t].pc \notin ReadPCs
  BY DEF TrackInitial, At, ReadPCs
<1>2. PICK c : c = call[t]
  OBVIOUS
<1>3. role[t] = c /\ Shape(c) /\ c \in CallType /\ CallsInv /\ CallsInv'
  BY <1>1, <1>2, HereIs DEF IInv
<1>4. SameServices /\ SameTracker /\ UNCHANGED <<tracked, refused, during>>
  BY DEF TrackInitial, SameServices, SameTracker, services, history
<1>5. CASE (c.g \in closed \/ initial[c.g] = {}) /\ Set(t, Idle) /\ UNCHANGED <<initial, adding>>
  <2>1. RoleInv' /\ Turn(t, Idle)
    BY <1>1, <1>5, EndTurn
  <2>2. QED
    BY <1>1, <1>2, <1>3, <1>4, <1>5, <2>1 DEF Initials
<1>6. ASSUME NEW i \in initial[c.g], c.g \notin closed, initial' = [initial EXCEPT ![c.g] = @ \ {i}],
             tracked[c.g][i] # 0 \/ i \in adding[c.g], adding' = adding, call' = call
      PROVE  RoleInv' /\ \E d : Turn(t, d) /\ Initials(role[t], d)
  <2>1. Moves(t, c)
    BY <1>2, <1>3, <1>6 DEF Moves, CallsInv
  <2>2. RoleInv' /\ Turn(t, c)
    BY <1>1, <1>2, <1>3, <2>1, ShapeTurn
  <2>3. QED
    BY <1>1, <1>2, <1>3, <1>4, <1>6, <2>2 DEF Initials
<1>7. ASSUME NEW i \in initial[c.g], c.g \notin closed, initial' = [initial EXCEPT ![c.g] = @ \ {i}],
             tracked[c.g][i] = 0, i \notin adding[c.g], StartAdding(t, c.g, i, [c EXCEPT !.from = "initial"])
      PROVE  RoleInv' /\ \E d : Turn(t, d) /\ Initials(role[t], d)
  <2>1. RoleInv' /\ \E d : Turn(t, d) /\ Starts(role[t], d, c.g, i, "initial")
    BY <1>1, <1>2, <1>7, StartTurn
  <2>2. QED
    BY <1>1, <1>2, <1>3, <1>4, <1>7, <2>1 DEF Initials
<1>8. \/ (c.g \in closed \/ initial[c.g] = {}) /\ Set(t, Idle) /\ UNCHANGED <<initial, adding>>
      \/ /\ c.g \notin closed
         /\ \E i \in initial[c.g] :
               /\ initial' = [initial EXCEPT ![c.g] = @ \ {i}]
               /\ IF tracked[c.g][i] # 0 \/ i \in adding[c.g]
                  THEN UNCHANGED <<adding, call>>
                  ELSE StartAdding(t, c.g, i, [c EXCEPT !.from = "initial"])
  BY <1>2 DEF TrackInitial
<1>9. QED
  BY <1>5, <1>6, <1>7, <1>8

-----------------------------------------------------------------------------
(* Close and Remove. *)

Closes(c, d) ==
    /\ c = Idle /\ listener' = 0 /\ d.pc = "closeLoad" /\ d.g = 0 /\ d.from = "none"
    /\ overlap' = IF dOwner # {} THEN overlap \cup ({current, opened} \ {0}) ELSE overlap
    /\ SameServices /\ SameLists /\ UNCHANGED <<current, opened, closed, dOwner, during>>

LEMMA RemoveListenerTurn ==
    ASSUME IInv, IInv', RoleInv, NEW t \in Threads, CloseRemoveListener(t)
    PROVE  RoleInv' /\ \E d : Turn(t, d) /\ Closes(role[t], d)
<1>1. PICK e : e = [Idle EXCEPT !.pc = "closeLoad"]
  OBVIOUS
<1>2. e.pc = "closeLoad" /\ e.g = 0 /\ e.from = "none"
  BY <1>1 DEF Idle
<1>3. Shape(e) /\ e.pc \notin ReadPCs
  BY <1>2, ShapePlain DEF ClosePCs
<1>4. call[t].pc = "idle" /\ Set(t, e)
  BY <1>1 DEF CloseRemoveListener, At
<1>5. RoleInv' /\ role[t] = Idle /\ Turn(t, e)
  BY <1>3, <1>4, BeginTurn
<1>6. /\ listener' = 0 /\ overlap' = IF dOwner # {} THEN overlap \cup ({current, opened} \ {0}) ELSE overlap
      /\ SameServices /\ SameLists /\ UNCHANGED <<current, opened, closed, dOwner, during>>
  BY DEF CloseRemoveListener, SameServices, SameLists, services, lists
<1>7. QED
  BY <1>2, <1>5, <1>6 DEF Closes

Loads(c, d) == c.pc = "closeLoad" /\ Kept /\ d.pc = "closeLock" /\ d.g = current /\ d.from = "none"

LEMMA LoadTurn ==
    ASSUME IInv, IInv', RoleInv, NEW t \in Threads, CloseLoad(t)
    PROVE  RoleInv' /\ \E d : Turn(t, d) /\ Loads(role[t], d)
<1>1. call[t].pc = "closeLoad" /\ call[t].pc \notin ReadPCs
  BY DEF CloseLoad, At, ReadPCs
<1>2. PICK c : c = call[t]
  OBVIOUS
<1>3. role[t] = c /\ Shape(c) /\ c \in CallType /\ CallsInv /\ CallsInv'
  BY <1>1, <1>2, HereIs DEF IInv
<1>4. PICK e : e = [c EXCEPT !.pc = "closeLock", !.g = current]
  OBVIOUS
<1>5. e.pc = "closeLock" /\ e.g = current /\ e.from = "none"
  BY <1>1, <1>2, <1>3, <1>4, PlainIs DEF CallType, ClosePCs
<1>6. Set(t, e)
  BY <1>2, <1>4 DEF CloseLoad
<1>7. Moves(t, e)
  BY <1>3, <1>6, SetTurn
<1>8. Turn(t, e) /\ RoleInv'
  BY <1>3, <1>5, <1>7, ShapeTurn, ShapePlain DEF ClosePCs
<1>9. Kept
  BY DEF CloseLoad, Kept, SameServices, SameTracker, SameLists, services, lists, history
<1>10. QED
  BY <1>1, <1>2, <1>3, <1>5, <1>8, <1>9 DEF Loads

Locks(c, d) ==
    /\ c.pc = "closeLock" /\ dOwner = {} /\ SameServices /\ SameLists
    /\ UNCHANGED <<listener, current, opened, overlap, dOwner, during>>
    /\ \/ (c.g = 0 \/ current \in closed) /\ d = Idle /\ closed' = closed
       \/ /\ c.g # 0 /\ current \notin closed /\ closed' = closed \cup {c.g}
          /\ d.pc = "closeWait" /\ d.g = c.g /\ d.from = "none"

LEMMA LockTurn ==
    ASSUME IInv, IInv', RoleInv, NEW t \in Threads, CloseLock(t)
    PROVE  RoleInv' /\ \E d : Turn(t, d) /\ Locks(role[t], d)
<1>1. call[t].pc = "closeLock" /\ call[t].pc \notin ReadPCs
  BY DEF CloseLock, At, ReadPCs
<1>2. PICK c : c = call[t]
  OBVIOUS
<1>3. role[t] = c /\ Shape(c) /\ c \in CallType /\ CallsInv /\ CallsInv'
  BY <1>1, <1>2, HereIs DEF IInv
<1>4. /\ dOwner = {} /\ SameServices /\ SameLists
      /\ UNCHANGED <<listener, current, opened, overlap, dOwner, during>>
  BY DEF CloseLock, SameServices, SameLists, services, lists, history
<1>5. CASE (c.g = 0 \/ current \in closed) /\ Set(t, Idle) /\ closed' = closed
  <2>1. RoleInv' /\ Turn(t, Idle)
    BY <1>1, <1>5, EndTurn
  <2>2. QED
    BY <1>1, <1>2, <1>3, <1>4, <1>5, <2>1 DEF Locks
<1>6. CASE /\ c.g # 0 /\ current \notin closed /\ closed' = closed \cup {c.g}
           /\ call' = Woken([call EXCEPT ![t].pc = "closeWait"], c.g)
  <2>1. PICK e : e = [c EXCEPT !.pc = "closeWait"]
    OBVIOUS
  <2>2. "closeWait" \in PCs
    BY DEF PCs, ClosePCs
  <2>3. e \in CallType /\ e.pc = "closeWait" /\ e.g = c.g /\ e.from = "none"
    BY <1>1, <1>2, <1>3, <2>1, <2>2, PcIs, PlainIs DEF ClosePCs
  <2>4. [call EXCEPT ![t].pc = "closeWait"] = [call EXCEPT ![t] = e]
    BY <1>2, <2>1
  <2>5. Moves(t, e)
    BY <1>3, <1>6, <2>3, <2>4, WokenIs DEF CallsInv
  <2>6. Turn(t, e) /\ RoleInv'
    BY <1>3, <2>3, <2>5, ShapeTurn, ShapePlain DEF ClosePCs
  <2>7. QED
    BY <1>1, <1>2, <1>3, <1>4, <1>6, <2>3, <2>6 DEF Locks
<1>7. \/ (c.g = 0 \/ current \in closed) /\ Set(t, Idle) /\ closed' = closed
      \/ /\ c.g # 0 /\ current \notin closed /\ closed' = closed \cup {c.g}
         /\ call' = Woken([call EXCEPT ![t].pc = "closeWait"], c.g)
  BY <1>2 DEF CloseLock
<1>8. QED
  BY <1>5, <1>6, <1>7

Waits(c, d) == c.pc = "closeWait" /\ Kept /\ d.pc = "closeRefs" /\ d.g = c.g /\ d.from = "none"

LEMMA CloseWaitTurn ==
    ASSUME IInv, IInv', RoleInv, NEW t \in Threads, CloseWait(t)
    PROVE  RoleInv' /\ \E d : Turn(t, d) /\ Waits(role[t], d)
<1>1. call[t].pc = "closeWait" /\ call[t].pc \notin ReadPCs
  BY DEF CloseWait, At, ReadPCs
<1>2. role[t] = call[t] /\ Shape(call[t]) /\ call[t] \in CallType
  BY <1>1, HereIs
<1>3. call[t].from = "none"
  BY <1>1, <1>2, PlainIs DEF ClosePCs
<1>4. \A d : Onto(call[t], d, "closeRefs") => Shape(d)
  BY <1>3, ShapePlain DEF Onto, ClosePCs
<1>5. RoleInv' /\ \E d : Turn(t, d) /\ Onto(role[t], d, "closeRefs")
  BY <1>1, <1>4, GotoTurn DEF ReadPCs, CloseWait
<1>6. Kept
  BY DEF CloseWait, Kept, SameServices, SameTracker, SameLists, services, lists, history
<1>7. QED
  BY <1>1, <1>2, <1>3, <1>5, <1>6 DEF Waits, Onto

Refs(c, d) ==
    c.pc = "closeRefs" /\ Kept /\ d.pc = "closeEach" /\ d.g = c.g /\ d.from = "none" /\ d.refs = TrackedIn(current)

LEMMA CloseRefsTurn ==
    ASSUME IInv, IInv', RoleInv, NEW t \in Threads, CloseRefs(t)
    PROVE  RoleInv' /\ \E d : Turn(t, d) /\ Refs(role[t], d)
<1>1. call[t].pc = "closeRefs" /\ call[t].pc \notin ReadPCs
  BY DEF CloseRefs, At, ReadPCs
<1>2. PICK c : c = call[t]
  OBVIOUS
<1>3. role[t] = c /\ Shape(c) /\ c \in CallType /\ CallsInv /\ CallsInv'
  BY <1>1, <1>2, HereIs DEF IInv
<1>4. PICK e : e = [c EXCEPT !.pc = "closeEach", !.refs = TrackedIn(current)]
  OBVIOUS
<1>5. e.pc = "closeEach" /\ e.g = c.g /\ e.from = c.from /\ e.refs = TrackedIn(current)
  BY <1>3, <1>4 DEF CallType
<1>6. e.from = "none"
  BY <1>1, <1>2, <1>3, <1>5, PlainIs DEF ClosePCs
<1>7. Set(t, e)
  BY <1>2, <1>4 DEF CloseRefs
<1>8. Moves(t, e)
  BY <1>3, <1>7, SetTurn
<1>9. Turn(t, e) /\ RoleInv'
  BY <1>3, <1>5, <1>6, <1>8, ShapeTurn, ShapePlain DEF ClosePCs
<1>10. Kept
  BY DEF CloseRefs, Kept, SameServices, SameTracker, SameLists, services, lists, history
<1>11. QED
  BY <1>1, <1>2, <1>3, <1>5, <1>6, <1>9, <1>10 DEF Refs

Eachs(c, d) ==
    /\ c.pc = "closeEach" /\ Kept
    /\ \/ c.refs = {} /\ d = Idle
       \/ \E i \in c.refs : /\ d.pc = "untrack" /\ d.from = "close" /\ d.g = c.g /\ d.i = i
                            /\ d.refs = c.refs \ {i}

LEMMA CloseEachTurn ==
    ASSUME IInv, IInv', RoleInv, NEW t \in Threads, CloseEach(t)
    PROVE  RoleInv' /\ \E d : Turn(t, d) /\ Eachs(role[t], d)
<1>1. call[t].pc = "closeEach" /\ call[t].pc \notin ReadPCs
  BY DEF CloseEach, At, ReadPCs
<1>2. PICK c : c = call[t]
  OBVIOUS
<1>3. role[t] = c /\ Shape(c) /\ c \in CallType /\ CallsInv /\ CallsInv'
  BY <1>1, <1>2, HereIs DEF IInv
<1>4. Kept
  BY DEF CloseEach, Kept, SameServices, SameTracker, SameLists, services, lists, history
<1>5. CASE c.refs = {} /\ Set(t, Idle)
  <2>1. RoleInv' /\ Turn(t, Idle)
    BY <1>1, <1>5, EndTurn
  <2>2. QED
    BY <1>1, <1>2, <1>3, <1>4, <1>5, <2>1 DEF Eachs
<1>6. ASSUME NEW i \in c.refs, Set(t, [c EXCEPT !.pc = "untrack", !.from = "close", !.i = i, !.refs = @ \ {i}])
      PROVE  RoleInv' /\ \E d : Turn(t, d) /\ Eachs(role[t], d)
  <2>1. PICK e : e = [c EXCEPT !.pc = "untrack", !.from = "close", !.i = i, !.refs = @ \ {i}]
    OBVIOUS
  <2>2. e.pc = "untrack" /\ e.from = "close" /\ e.g = c.g /\ e.i = i /\ e.refs = c.refs \ {i}
    BY <1>3, <2>1 DEF CallType
  <2>3. Shape(e) /\ e.pc \notin ReadPCs
    BY <2>2 DEF Shape, ReadPCs, Events
  <2>4. Moves(t, e)
    BY <1>3, <1>6, <2>1, SetTurn
  <2>5. Turn(t, e) /\ RoleInv'
    BY <1>3, <2>3, <2>4, ShapeTurn
  <2>6. QED
    BY <1>1, <1>2, <1>3, <1>4, <2>2, <2>5 DEF Eachs
<1>7. QED
  BY <1>2, <1>5, <1>6 DEF CloseEach

Removes(c, d) ==
    c = Idle /\ Kept /\ d.pc = "untrack" /\ d.from = "remove" /\ d.g = current /\ current # 0

LEMMA RemoveTurn ==
    ASSUME IInv, IInv', RoleInv, NEW t \in Threads, NEW i \in Items, Remove(t, i)
    PROVE  RoleInv' /\ \E d : Turn(t, d) /\ Removes(role[t], d)
<1>1. PICK e : e = [Idle EXCEPT !.pc = "untrack", !.from = "remove", !.g = current, !.i = i]
  OBVIOUS
<1>2. e.pc = "untrack" /\ e.from = "remove" /\ e.g = current
  BY <1>1 DEF Idle
<1>3. Shape(e) /\ e.pc \notin ReadPCs
  BY <1>2 DEF Shape, ReadPCs, Events
<1>4. call[t].pc = "idle" /\ Set(t, e) /\ current # 0
  BY <1>1 DEF Remove, At
<1>5. RoleInv' /\ role[t] = Idle /\ Turn(t, e)
  BY <1>3, <1>4, BeginTurn
<1>6. Kept
  BY DEF Remove, Kept, SameServices, SameTracker, SameLists, services, lists, history
<1>7. QED
  BY <1>2, <1>4, <1>5, <1>6 DEF Removes

-----------------------------------------------------------------------------
(* The calls that read. *)

Reads(t) ==
    \/ \E from \in {"get", "wait"} : StartRead(t, from)
    \/ GetService(t) \/ StoreRef(t) \/ GetObject(t) \/ StoreService(t) \/ WaitTracked(t) \/ WaitLock(t) \/ Sleep(t)

LEMMA ReadKept == ASSUME NEW t \in Threads, Reads(t) PROVE Kept
<1>1. ASSUME \/ \E from \in {"get", "wait"} : StartRead(t, from)
             \/ GetService(t) \/ StoreRef(t) \/ GetObject(t)
      PROVE  Kept
  BY <1>1 DEF StartRead, GetService, StoreRef, GetObject, Kept, SameServices, SameTracker, SameLists, services, lists, history
<1>2. ASSUME StoreService(t) \/ WaitTracked(t) \/ WaitLock(t) \/ Sleep(t)
      PROVE  Kept
  BY <1>2 DEF StoreService, WaitTracked, WaitLock, Sleep, Kept, SameServices, SameTracker, SameLists, services, lists, history
<1>3. QED
  BY <1>1, <1>2 DEF Reads

\* Where a call that reads goes on.
ReadsOn(c, e, k) ==
    \/ \E l \in ReadPCs : e = [c EXCEPT !.pc = l] \/ e = [c EXCEPT !.pc = l, !.g = k]
                            \/ e = [c EXCEPT !.pc = l, !.i = k] \/ e = [c EXCEPT !.pc = l, !.o = k]
    \/ e = Idle
    \/ e = AfterGet(c, k)
    \/ e = [Idle EXCEPT !.pc = "getService", !.from = "again"]

LEMMA ReadForm ==
    ASSUME NEW c \in CallType, c.from \in {"get", "wait", "again"}, NEW e, NEW k, ReadsOn(c, e, k)
    PROVE  e = Idle \/ (e.pc \in ReadPCs /\ e.from \in {"get", "wait", "again"})
<1>1. ASSUME NEW l \in ReadPCs, \/ e = [c EXCEPT !.pc = l] \/ e = [c EXCEPT !.pc = l, !.g = k]
                                \/ e = [c EXCEPT !.pc = l, !.i = k] \/ e = [c EXCEPT !.pc = l, !.o = k]
      PROVE  e.pc \in ReadPCs /\ e.from = c.from
  BY <1>1 DEF CallType
<1>2. ASSUME e = AfterGet(c, k) PROVE e = Idle \/ (e.pc = "waitTracked" /\ e.from = "again")
  BY <1>2 DEF AfterGet, Idle
<1>3. ASSUME e = [Idle EXCEPT !.pc = "getService", !.from = "again"] PROVE e.pc = "getService" /\ e.from = "again"
  BY <1>3 DEF Idle
<1>4. QED
  BY <1>1, <1>2, <1>3 DEF ReadPCs, ReadsOn

LEMMA ReadsTurn ==
    ASSUME IInv, IInv', RoleInv, NEW t \in Threads, Reads(t)
    PROVE  RoleInv' /\ role' = role
<1>1. CallsInv /\ CallsInv'
  BY DEF IInv
<1>2. PICK c : c = call[t]
  OBVIOUS
<1>3. c \in CallType
  BY <1>1, <1>2 DEF CallsInv
<1>4. ASSUME NEW from \in {"get", "wait"}, StartRead(t, from) PROVE RoleInv' /\ role' = role
  <2>1. PICK e : e = [Idle EXCEPT !.pc = "getService", !.from = from]
    OBVIOUS
  <2>2. e.pc \in ReadPCs /\ e.from \in {"get", "wait", "again"}
    BY <2>1 DEF Idle, ReadPCs
  <2>3. Set(t, e) /\ call[t].pc = "idle"
    BY <1>4, <2>1 DEF StartRead, At
  <2>4. role[t] = Idle
    BY <2>3, HereIs DEF Shape, ReadPCs
  <2>5. Moves(t, e)
    BY <1>1, <2>3, SetTurn
  <2>6. QED
    BY <1>1, <2>2, <2>4, <2>5, ReadTurn
<1>5. ASSUME c.pc \in ReadPCs, NEW e, Set(t, e), NEW k, ReadsOn(c, e, k)
      PROVE  RoleInv' /\ role' = role
  <2>1. c.from \in {"get", "wait", "again"} /\ role[t] = Idle
    BY <1>1, <1>2, <1>5, RoleIs DEF RoleInv
  <2>2. e = Idle \/ (e.pc \in ReadPCs /\ e.from \in {"get", "wait", "again"})
    BY <1>3, <1>5, <2>1, ReadForm
  <2>3. Moves(t, e)
    BY <1>1, <1>5, SetTurn
  <2>4. QED
    BY <1>1, <2>1, <2>2, <2>3, ReadTurn
<1>6. ASSUME GetService(t) PROVE RoleInv' /\ role' = role
  <2>1. c.pc \in ReadPCs
    BY <1>2, <1>6 DEF GetService, At, ReadPCs
  <2>2. \E k : \E e : Set(t, e) /\ ReadsOn(c, e, k)
    BY <1>2, <1>6 DEF GetService, ReadPCs, ReadsOn
  <2>3. QED
    BY <1>5, <2>1, <2>2
<1>7. ASSUME StoreRef(t) PROVE RoleInv' /\ role' = role
  <2>1. c.pc \in ReadPCs
    BY <1>2, <1>7 DEF StoreRef, At, ReadPCs
  <2>2. \E k : \E e : Set(t, e) /\ ReadsOn(c, e, k)
    BY <1>2, <1>7 DEF StoreRef, Goto, ReadPCs, ReadsOn
  <2>3. QED
    BY <1>5, <2>1, <2>2
<1>8. ASSUME GetObject(t) PROVE RoleInv' /\ role' = role
  <2>1. c.pc \in ReadPCs
    BY <1>2, <1>8 DEF GetObject, At, ReadPCs
  <2>2. \E k : \E e : Set(t, e) /\ ReadsOn(c, e, k)
    BY <1>2, <1>8 DEF GetObject, Goto, ReadPCs, ReadsOn
  <2>3. QED
    BY <1>5, <2>1, <2>2
<1>9. ASSUME StoreService(t) PROVE RoleInv' /\ role' = role
  <2>1. c.pc \in ReadPCs
    BY <1>2, <1>9 DEF StoreService, At, ReadPCs
  <2>2. \E k : \E e : Set(t, e) /\ ReadsOn(c, e, k)
    BY <1>2, <1>9 DEF StoreService, Goto, ReadPCs, ReadsOn
  <2>3. QED
    BY <1>5, <2>1, <2>2
<1>10. ASSUME WaitTracked(t) PROVE RoleInv' /\ role' = role
  <2>1. c.pc \in ReadPCs
    BY <1>2, <1>10 DEF WaitTracked, At, ReadPCs
  <2>2. \E k : \E e : Set(t, e) /\ ReadsOn(c, e, k)
    BY <1>2, <1>10 DEF WaitTracked, Goto, ReadPCs, ReadsOn
  <2>3. QED
    BY <1>5, <2>1, <2>2
<1>11. ASSUME WaitLock(t) PROVE RoleInv' /\ role' = role
  <2>1. c.pc \in ReadPCs
    BY <1>2, <1>11 DEF WaitLock, At, ReadPCs
  <2>2. \E k : \E e : Set(t, e) /\ ReadsOn(c, e, k)
    BY <1>2, <1>11 DEF WaitLock, Goto, ReadPCs, ReadsOn
  <2>3. QED
    BY <1>5, <2>1, <2>2
<1>12. ASSUME Sleep(t) PROVE RoleInv' /\ role' = role
  <2>1. c.pc \in ReadPCs
    BY <1>2, <1>12 DEF Sleep, At, ReadPCs
  <2>2. \E k : \E e : Set(t, e) /\ ReadsOn(c, e, k)
    BY <1>2, <1>12 DEF Sleep, Goto, ReadPCs, ReadsOn
  <2>3. QED
    BY <1>5, <2>1, <2>2
<1>13. QED
  BY <1>4, <1>6, <1>7, <1>8, <1>9, <1>10, <1>11, <1>12 DEF Reads

\* A step, seen as what the call of one thread does.
Services(t, d) ==
    \/ \E i \in Items : /\ Changes(t, i, d) /\ d.pc = "notify" /\ d.from = "register" /\ d.g = 0
                        /\ state[i] = "new" /\ state' = [state EXCEPT ![i] = "listed"]
                        /\ matching' \in {matching, matching \cup {i}}
    \/ \E i \in Items : /\ Changes(t, i, d) /\ d.pc = "notify" /\ d.from = "unregister" /\ d.g = 0
                        /\ state[i] = "listed" /\ state' = [state EXCEPT ![i] = "unlisted"] /\ matching' = matching
    \/ \E i \in Items : /\ Changes(t, i, d) /\ d.pc = "setProps" /\ d.from = "modify"
                        /\ d.g = IF i \in matching THEN listener ELSE 0
                        /\ state[i] \in {"listed", "unlisted"} /\ state' = state /\ matching' = matching
    \/ /\ role[t].pc = "setProps" /\ SameTracker /\ SameLists /\ UNCHANGED <<state, raced, during>>
       /\ \/ /\ state[role[t].i] # "gone"
             /\ matching' \in {matching \ {role[t].i}, matching \cup {role[t].i}}
             /\ Onto(role[t], d, "notify")
          \/ state[role[t].i] = "gone" /\ matching' = matching /\ d = Idle
    \/ /\ role[t].pc = "gone" /\ SameTracker /\ SameLists /\ UNCHANGED <<matching, raced, during>>
       /\ state' = [state EXCEPT ![role[t].i] = "gone"] /\ d = Idle

\* Steps that change nothing but the call.
Plain(c, d) ==
    /\ Kept
    /\ \/ c.pc = "notify" /\ Notifies(c, d)
       \/ c.pc = "countUp" /\ Onto(c, d, "check")
       \/ /\ c.pc = "check" /\ c.g \notin closed /\ state[c.i] # "gone" /\ c.ev \in {"track", "untrack"}
          /\ Onto(c, d, c.ev)
       \/ c.pc = "check" /\ (c.g \in closed \/ state[c.i] = "gone") /\ After(c, d)
       \/ c.pc \in {"modified", "removing"} /\ After(c, d)
       \/ Throws(c, d)
       \/ c.pc = "adding" /\ (Onto(c, d, "final") \/ Onto(c, d, "threw"))
       \/ Looks(c, d) \/ Loads(c, d) \/ Waits(c, d) \/ Refs(c, d) \/ Eachs(c, d) \/ Removes(c, d)

Acts(t, d) ==
    \/ Services(t, d) \/ Plain(role[t], d)
    \/ Tracks(role[t], d) \/ Untracks(role[t], d) \/ Finals(role[t], d)
    \/ Opens(t, d) \/ Puts(role[t], d) \/ Initials(role[t], d)
    \/ Closes(role[t], d) \/ Locks(role[t], d)

LEMMA ServicesTurn ==
    ASSUME IInv, IInv', RoleInv, NEW t \in Threads,
           \/ \E i \in Items : Register(t, i) \/ Modify(t, i) \/ Unregister(t, i)
           \/ SetProps(t) \/ Gone(t)
    PROVE  RoleInv' /\ \E d : Turn(t, d) /\ Services(t, d)
<1>1. ASSUME NEW i \in Items, Register(t, i) PROVE RoleInv' /\ \E d : Turn(t, d) /\ Services(t, d)
  BY <1>1, RegisterTurn DEF Services, Changes
<1>2. ASSUME NEW i \in Items, Unregister(t, i) PROVE RoleInv' /\ \E d : Turn(t, d) /\ Services(t, d)
  BY <1>2, UnregisterTurn DEF Services, Changes
<1>3. ASSUME NEW i \in Items, Modify(t, i) PROVE RoleInv' /\ \E d : Turn(t, d) /\ Services(t, d)
  BY <1>3, ModifyTurn DEF Services, Changes
<1>4. ASSUME SetProps(t) PROVE RoleInv' /\ \E d : Turn(t, d) /\ Services(t, d)
  BY <1>4, SetPropsTurn DEF Services
<1>5. ASSUME Gone(t) PROVE RoleInv' /\ \E d : Turn(t, d) /\ Services(t, d)
  BY <1>5, GoneTurn DEF Services
<1>6. QED
  BY <1>1, <1>2, <1>3, <1>4, <1>5

LEMMA PlainTurn ==
    ASSUME IInv, IInv', RoleInv, NEW t \in Threads,
           \/ Notify(t) \/ CountUp(t) \/ Check(t) \/ CustomizerModified(t) \/ CustomizerAdding(t)
           \/ CustomizerRemoved(t) \/ CustomizerRemovedThrows(t)
           \/ OpenLookup(t) \/ CloseLoad(t) \/ CloseWait(t) \/ CloseRefs(t) \/ CloseEach(t) \/ \E i \in Items : Remove(t, i)
    PROVE  RoleInv' /\ \E d : Turn(t, d) /\ Plain(role[t], d)
<1>1. ASSUME Notify(t) \/ CountUp(t) \/ Check(t) PROVE RoleInv' /\ \E d : Turn(t, d) /\ Plain(role[t], d)
  <2>1. CASE Notify(t)
    BY <2>1, NotifyTurn DEF Plain
  <2>2. CASE CountUp(t)
    BY <2>2, CountUpTurn DEF Plain
  <2>3. CASE Check(t)
    BY <2>3, CheckTurn DEF Plain
  <2>4. QED
    BY <1>1, <2>1, <2>2, <2>3
<1>2. ASSUME CustomizerModified(t) \/ CustomizerRemoved(t) PROVE RoleInv' /\ \E d : Turn(t, d) /\ Plain(role[t], d)
  BY <1>2, ModifiedTurn DEF Plain
<1>3. ASSUME CustomizerAdding(t) PROVE RoleInv' /\ \E d : Turn(t, d) /\ Plain(role[t], d)
  BY <1>3, CustomizerAddingTurn DEF Plain
<1>4. ASSUME OpenLookup(t) PROVE RoleInv' /\ \E d : Turn(t, d) /\ Plain(role[t], d)
  BY <1>4, LookupTurn DEF Plain, Looks
<1>5. ASSUME CloseLoad(t) PROVE RoleInv' /\ \E d : Turn(t, d) /\ Plain(role[t], d)
  BY <1>5, LoadTurn DEF Plain, Loads
<1>6. ASSUME CloseWait(t) PROVE RoleInv' /\ \E d : Turn(t, d) /\ Plain(role[t], d)
  BY <1>6, CloseWaitTurn DEF Plain, Waits
<1>7. ASSUME CloseRefs(t) PROVE RoleInv' /\ \E d : Turn(t, d) /\ Plain(role[t], d)
  BY <1>7, CloseRefsTurn DEF Plain, Refs
<1>8. ASSUME CloseEach(t) PROVE RoleInv' /\ \E d : Turn(t, d) /\ Plain(role[t], d)
  BY <1>8, CloseEachTurn DEF Plain, Eachs
<1>9. ASSUME NEW i \in Items, Remove(t, i) PROVE RoleInv' /\ \E d : Turn(t, d) /\ Plain(role[t], d)
  BY <1>9, RemoveTurn DEF Plain, Removes
<1>10. ASSUME CustomizerRemovedThrows(t) PROVE RoleInv' /\ \E d : Turn(t, d) /\ Plain(role[t], d)
  BY <1>10, ThrowsTurn DEF Plain
<1>11. QED
  BY <1>1, <1>2, <1>3, <1>4, <1>5, <1>6, <1>7, <1>8, <1>9, <1>10

LEMMA StepTurn ==
    ASSUME IInv, IInv', RoleInv, Next
    PROVE  /\ RoleInv'
           /\ \/ Kept /\ role' = role
              \/ \E t \in Threads : \E d : Turn(t, d) /\ Acts(t, d)
<1>1. PICK t \in Threads :
         \/ Step(t)
         \/ Open(t) \/ CloseRemoveListener(t)
         \/ \E i \in Items : Register(t, i) \/ Modify(t, i) \/ Unregister(t, i) \/ Remove(t, i)
         \/ \E from \in {"get", "wait"} : StartRead(t, from)
  BY DEF Next
<1>2. CASE Reads(t)
  BY <1>2, ReadKept, ReadsTurn
<1>3. CASE \/ \E i \in Items : Register(t, i) \/ Modify(t, i) \/ Unregister(t, i)
           \/ SetProps(t) \/ Gone(t)
  BY <1>3, ServicesTurn DEF Acts
<1>4. CASE \/ Notify(t) \/ CountUp(t) \/ Check(t) \/ CustomizerModified(t) \/ CustomizerAdding(t)
           \/ CustomizerRemoved(t) \/ CustomizerRemovedThrows(t)
           \/ OpenLookup(t) \/ CloseLoad(t) \/ CloseWait(t) \/ CloseRefs(t) \/ CloseEach(t) \/ \E i \in Items : Remove(t, i)
  BY <1>4, PlainTurn DEF Acts
<1>5. CASE Track(t)
  BY <1>5, TrackTurn DEF Acts
<1>6. CASE Untrack(t)
  BY <1>6, UntrackTurn DEF Acts
<1>7. CASE CustomizerAddingFinal(t)
  BY <1>7, FinalTurn DEF Acts
<1>8. CASE Open(t)
  BY <1>8, OpenTurn DEF Acts
<1>9. CASE OpenSetInitial(t)
  BY <1>9, SetInitialTurn DEF Acts
<1>10. CASE TrackInitial(t)
  BY <1>10, TrackInitialTurn DEF Acts
<1>11. CASE CloseRemoveListener(t)
  BY <1>11, RemoveListenerTurn DEF Acts
<1>12. CASE CloseLock(t)
  BY <1>12, LockTurn DEF Acts
<1>13. QED
  BY <1>1, <1>2, <1>3, <1>4, <1>5, <1>6, <1>7, <1>8, <1>9, <1>10, <1>11, <1>12 DEF Step, Reads

-----------------------------------------------------------------------------
(* The events. *)

LEMMA TurnIs ==
    ASSUME CallsInv, RoleInv, NEW t \in Threads, NEW d, Turn(t, d), NEW c, c = role[t]
    PROVE  /\ CallOK(c) /\ c \in CallType /\ Shape(c) /\ CallOK(d) /\ d \in CallType /\ Shape(d) /\ role'[t] = d
           /\ \A u \in Threads : u # t => role'[u] = role[u]
BY RoleIs DEF Turn, RoleInv

\* What a step on a service that nobody changes keeps of the events.
SameEvent(c, d) ==
    /\ d.from \in Events => c.from = d.from /\ c.i = d.i /\ (d.ev = "track" => c.ev = "track" \/ d.i \in matching)
    /\ c.from = "unregister" => d.from = "unregister" /\ d.i = c.i

LEMMA EventQuiet ==
    ASSUME EventInv, NEW t \in Threads, NEW d, Turn(t, d), SameServices, SameEvent(role[t], d)
    PROVE  EventInv'
<1>1. role'[t] = d /\ \A u \in Threads : u # t => role'[u] = role[u]
  BY DEF Turn
<1>2. UNCHANGED <<state, matching, raced>>
  BY DEF SameServices
<1>3. ASSUME NEW u \in Threads
      PROVE  /\ role'[u].from \in Events => /\ role[u].from = role'[u].from /\ role[u].i = role'[u].i
                                            /\ role'[u].ev = "track" => role[u].ev = "track" \/ role'[u].i \in matching
             /\ role[u].from = "unregister" => role'[u].from = "unregister" /\ role'[u].i = role[u].i
  BY <1>1 DEF SameEvent
<1>4. \A u \in Threads : role'[u].from = "unregister" => role[u].from = "unregister" /\ role[u].i = role'[u].i
  BY <1>3 DEF Events
<1>5. \A u \in Threads : role'[u].from = "unregister" => state'[role'[u].i] = "unlisted"
  BY <1>2, <1>4 DEF EventInv
<1>6. \A u, v \in Threads : role'[u].from = "unregister" /\ role'[v].from = "unregister" /\ role'[u].i = role'[v].i => u = v
  BY <1>4 DEF EventInv
<1>7. \A i \in Items : state'[i] = "unlisted" => \E u \in Threads : role'[u].from = "unregister" /\ role'[u].i = i
  BY <1>2, <1>3 DEF EventInv
<1>8. ASSUME NEW u \in Threads, NEW i, About(role'[u], i)
      PROVE  About(role[u], i) /\ role[u].from = role'[u].from
  BY <1>3, <1>8 DEF About
<1>9. \A u, v \in Threads : \A i \in Items \ raced' : About(role'[u], i) /\ About(role'[v], i) => u = v
  BY <1>2, <1>8 DEF EventInv
<1>10. ASSUME NEW u \in Threads, NEW i \in Items \ raced', About(role'[u], i)
       PROVE  /\ role'[u].from # "unregister" => state'[i] = "listed"
              /\ role'[u].ev = "track" => i \in matching'
  <2>1. About(role[u], i) /\ role[u].from = role'[u].from /\ i \in Items \ raced
    BY <1>2, <1>8, <1>10
  <2>2. /\ role[u].from # "unregister" => state[i] = "listed"
        /\ role[u].ev = "track" => i \in matching
    BY <2>1 DEF EventInv
  <2>3. role'[u].ev = "track" => role[u].ev = "track" \/ i \in matching
    BY <1>3, <1>10 DEF About
  <2>4. QED
    BY <1>2, <2>1, <2>2, <2>3
<1>11. QED
  BY <1>5, <1>6, <1>7, <1>9, <1>10 DEF EventInv

LEMMA AfterEvent ==
    ASSUME NEW c, NEW d, After(c, d) PROVE SameEvent(c, d)
BY IdleIs DEF After, SameEvent, Events

LEMMA OntoEvent ==
    ASSUME NEW c, NEW d, NEW l, Onto(c, d, l) PROVE SameEvent(c, d)
BY DEF Onto, SameEvent

LEMMA NoEvent ==
    ASSUME NEW c, NEW d, c.from \notin Events, d.from \notin Events PROVE SameEvent(c, d)
BY DEF SameEvent, Events

LEMMA NotifyEvent ==
    ASSUME NEW c, NEW d, Notifies(c, d) PROVE SameEvent(c, d)
<1>1. CASE After(c, d)
  BY <1>1, AfterEvent
<1>2. CASE c.i \in matching /\ d.from = c.from /\ d.i = c.i
  BY <1>2 DEF SameEvent
<1>3. CASE d.from = c.from /\ d.i = c.i /\ d.ev = "untrack"
  BY <1>3 DEF SameEvent
<1>4. QED
  BY <1>1, <1>2, <1>3 DEF Notifies

LEMMA PlainEvent ==
    ASSUME NEW c, NEW d, CallOK(c), Shape(c), Plain(c, d) PROVE SameEvent(c, d) /\ SameServices
<1>1. SameServices /\ c \in CallType
  BY DEF Plain, Kept, CallOK
<1>2. CASE c.pc = "notify" /\ Notifies(c, d)
  BY <1>1, <1>2, NotifyEvent
<1>3. CASE \E l : Onto(c, d, l)
  BY <1>1, <1>3, OntoEvent
<1>4. CASE After(c, d)
  BY <1>1, <1>4, AfterEvent
<1>5. CASE Looks(c, d) \/ Loads(c, d) \/ Waits(c, d) \/ Refs(c, d)
  <2>1. c.from = "none"
    BY <1>1, <1>5, PlainIs DEF Looks, Loads, Waits, Refs, OpenPCs, ClosePCs
  <2>2. d.from = "none"
    BY <1>5, <2>1 DEF Looks, Loads, Waits, Refs
  <2>3. QED
    BY <1>1, <2>1, <2>2, NoEvent DEF Events
<1>6. CASE Eachs(c, d) \/ Removes(c, d)
  <2>1. c.from \notin Events
    BY <1>6, IdleIs DEF Eachs, Removes, Shape, EventPCs, TrackPCs, Events
  <2>2. d.from \notin Events
    BY <1>6, IdleIs DEF Eachs, Removes, Events
  <2>3. QED
    BY <1>1, <2>1, <2>2, NoEvent
<1>7. CASE Throws(c, d)
  BY <1>1, <1>7, IdleIs, NoEvent DEF Throws, Events
<1>8. QED
  BY <1>2, <1>3, <1>4, <1>5, <1>6, <1>7 DEF Plain

LEMMA OtherEvent ==
    ASSUME NEW t \in Threads, NEW c, c = role[t], NEW d, CallOK(c), Shape(c),
           Tracks(c, d) \/ Untracks(c, d) \/ Finals(c, d) \/ Opens(t, d) \/ Puts(c, d) \/ Initials(c, d)
             \/ Closes(c, d) \/ Locks(c, d)
    PROVE  SameEvent(c, d) /\ SameServices
<1>1. c \in CallType
  BY DEF CallOK
<1>2. CASE Tracks(c, d)
  <2>1. After(c, d) \/ Onto(c, d, "modified") \/ Starts(c, d, c.g, c.i, c.from)
    BY <1>2 DEF Tracks
  <2>2. ASSUME Starts(c, d, c.g, c.i, c.from) PROVE SameEvent(c, d)
    BY <2>2 DEF Starts, SameEvent
  <2>3. SameEvent(c, d)
    BY <2>1, <2>2, AfterEvent, OntoEvent
  <2>4. QED
    BY <1>2, <2>3 DEF Tracks
<1>3. CASE Untracks(c, d)
  BY <1>3, AfterEvent, OntoEvent DEF Untracks
<1>4. CASE Finals(c, d)
  <2>1. After(c, d) \/ Onto(c, d, "removing") \/ (c.from = "initial" /\ d = Idle)
    BY <1>4 DEF Finals
  <2>2. QED
    BY <1>4, <2>1, AfterEvent, OntoEvent, NoEvent, IdleIs DEF Finals, Events
<1>5. CASE Opens(t, d) \/ Closes(c, d)
  BY <1>5, NoEvent, IdleIs DEF Opens, Closes, Events
<1>6. CASE Puts(c, d) \/ Locks(c, d)
  <2>1. c.from = "none"
    BY <1>1, <1>6, PlainIs DEF Puts, Locks, OpenPCs, ClosePCs
  <2>2. d.from = "none"
    BY <1>6, <2>1, IdleIs, SMTT(60) DEF Puts, Locks
  <2>3. QED
    BY <1>6, <2>1, <2>2, NoEvent DEF Events, Puts, Locks
<1>7. CASE Initials(c, d)
  <2>1. c.from = "none"
    BY <1>1, <1>7, PlainIs DEF Initials, OpenPCs
  <2>2. d = Idle \/ d = c \/ \E i : Starts(c, d, c.g, i, "initial")
    BY <1>7 DEF Initials
  <2>3. QED
    BY <1>7, <2>1, <2>2, NoEvent, IdleIs DEF Events, Initials, Starts
<1>8. QED
  BY <1>2, <1>3, <1>4, <1>5, <1>6, <1>7

LEMMA ChangeEvent ==
    ASSUME CallsInv, EventInv, RoleInv, NEW t \in Threads, NEW d, NEW i \in Items, Changes(t, i, d), d.from \in Events,
           \A j \in Items : j # i => state'[j] = state[j] /\ (j \in matching' <=> j \in matching),
           d.from = "unregister" => state[i] # "unlisted",
           state'[i] = "unlisted" <=> state[i] = "unlisted" \/ d.from = "unregister",
           d.from # "unregister" => state'[i] \in {"listed", "unlisted"}
    PROVE  EventInv'
<1>1. role[t] = Idle /\ role'[t] = d /\ (\A u \in Threads : u # t => role'[u] = role[u]) /\ d.i = i /\ d.ev = "none"
  BY DEF Changes, Turn
<1>2. raced \subseteq raced' /\ \A j \in Items : j \in raced' <=> j \in raced \/ (j = i /\ \E u \in Threads : About(role[u], i))
  BY DEF Changes
<1>3. role[t].from = "none"
  BY <1>1, IdleIs
<1>4. ASSUME NEW u \in Threads, role'[u].from = "unregister" PROVE state'[role'[u].i] = "unlisted"
  <2>1. CASE u = t
    BY <1>1, <1>4, <2>1
  <2>2. CASE u # t
    <3>1. role[u].from = "unregister" /\ role[u].i = role'[u].i /\ state[role[u].i] = "unlisted"
      BY <1>1, <1>4, <2>2 DEF EventInv
    <3>2. CASE role[u].i = i
      BY <3>1, <3>2
    <3>3. CASE role[u].i # i
      <4>1. Shape(role[u]) /\ role[u].i \in Items
        <5>1. role[u].from \in Events
          BY <3>1 DEF Events
        <5>2. QED
          BY <5>1, RoleIs DEF RoleInv
      <4>2. QED
        BY <3>1, <3>3, <4>1
    <3>4. QED
      BY <3>2, <3>3
  <2>3. QED
    BY <2>1, <2>2
<1>5. ASSUME NEW u \in Threads, NEW v \in Threads, role'[u].from = "unregister", role'[v].from = "unregister",
             role'[u].i = role'[v].i
      PROVE  u = v
  <2>1. CASE u # t /\ v # t
    BY <1>1, <1>5, <2>1 DEF EventInv
  <2>2. ASSUME NEW w \in Threads, w # t, role'[w].from = "unregister", role'[w].i = i, d.from = "unregister" PROVE FALSE
    BY <1>1, <2>2 DEF EventInv
  <2>3. QED
    BY <1>1, <1>5, <2>1, <2>2
<1>6. ASSUME NEW j \in Items, state'[j] = "unlisted" PROVE \E u \in Threads : role'[u].from = "unregister" /\ role'[u].i = j
  <2>1. CASE j = i /\ d.from = "unregister"
    BY <1>1, <2>1
  <2>2. CASE state[j] = "unlisted"
    <3>1. PICK u \in Threads : role[u].from = "unregister" /\ role[u].i = j
      BY <2>2 DEF EventInv
    <3>2. u # t
      BY <1>3, <3>1
    <3>3. QED
      BY <1>1, <3>1, <3>2
  <2>3. QED
    BY <1>6, <2>1, <2>2
<1>7. ASSUME NEW u \in Threads, u # t, NEW j \in Items \ raced', About(role'[u], j)
      PROVE  About(role[u], j) /\ j # i /\ j \in Items \ raced /\ role'[u] = role[u]
  BY <1>1, <1>2, <1>7
<1>8. ASSUME NEW u \in Threads, NEW v \in Threads, NEW j \in Items \ raced', About(role'[u], j), About(role'[v], j)
      PROVE  u = v
  <2>1. CASE u # t /\ v # t
    BY <1>7, <1>8, <2>1 DEF EventInv
  <2>2. CASE u = t \/ v = t
    <3>1. j = i
      BY <1>1, <1>8, <2>2 DEF About
    <3>2. QED
      BY <1>7, <1>8, <2>2, <3>1
  <2>3. QED
    BY <2>1, <2>2
<1>9. ASSUME NEW u \in Threads, NEW j \in Items \ raced', About(role'[u], j)
      PROVE  /\ role'[u].from # "unregister" => state'[j] = "listed"
             /\ role'[u].ev = "track" => j \in matching'
  <2>1. CASE u # t
    BY <1>7, <1>9, <2>1 DEF EventInv
  <2>2. CASE u = t
    <3>1. j = i /\ role'[u] = d
      BY <1>1, <1>9, <2>2 DEF About
    <3>2. d.from # "unregister" => state'[i] = "listed"
      <4>1. SUFFICES ASSUME d.from # "unregister", state[i] = "unlisted" PROVE FALSE
        BY <3>1
      <4>2. PICK v \in Threads : role[v].from = "unregister" /\ role[v].i = i
        BY <4>1 DEF EventInv
      <4>3. About(role[v], i)
        BY <4>2 DEF About, Events
      <4>4. QED
        BY <1>2, <1>9, <3>1, <4>3
    <3>3. QED
      BY <1>1, <3>1, <3>2
  <2>3. QED
    BY <2>1, <2>2
<1>10. QED
  BY <1>4, <1>5, <1>6, <1>8, <1>9 DEF EventInv

LEMMA ServicesEvent ==
    ASSUME IInv, RoleInv, EventInv, NEW t \in Threads, NEW d, Turn(t, d), Services(t, d) PROVE EventInv'
<1>1. CallsInv /\ StateInv
  BY DEF IInv
<1>2. PICK c : c = role[t]
  OBVIOUS
<1>3. /\ CallOK(c) /\ c \in CallType /\ Shape(c) /\ role'[t] = d
      /\ \A u \in Threads : u # t => role'[u] = role[u]
  BY <1>1, <1>2, TurnIs
<1>4. state \in [Items -> {"new", "listed", "unlisted", "gone"}]
  BY <1>1 DEF StateInv
<1>5. ASSUME NEW i \in Items, Changes(t, i, d), d.from = "register", state[i] = "new",
             state' = [state EXCEPT ![i] = "listed"], matching' \in {matching, matching \cup {i}}
      PROVE  EventInv'
  <2>1. /\ \A j \in Items : j # i => state'[j] = state[j] /\ (j \in matching' <=> j \in matching)
        /\ state'[i] = "listed" /\ d.from \in Events
    BY <1>4, <1>5 DEF Events
  <2>2. QED
    BY <1>1, <1>5, <2>1, ChangeEvent
<1>6. ASSUME NEW i \in Items, Changes(t, i, d), d.from = "unregister", state[i] = "listed",
             state' = [state EXCEPT ![i] = "unlisted"], matching' = matching
      PROVE  EventInv'
  <2>1. /\ \A j \in Items : j # i => state'[j] = state[j] /\ (j \in matching' <=> j \in matching)
        /\ state'[i] = "unlisted" /\ d.from \in Events
    BY <1>4, <1>6 DEF Events
  <2>2. QED
    BY <1>1, <1>6, <2>1, ChangeEvent
<1>7. ASSUME NEW i \in Items, Changes(t, i, d), d.from = "modify", state[i] \in {"listed", "unlisted"},
             state' = state, matching' = matching
      PROVE  EventInv'
  <2>1. d.from \in Events
    BY <1>7 DEF Events
  <2>2. QED
    BY <1>1, <1>7, <2>1, ChangeEvent
<1>8. CASE /\ c.pc = "setProps" /\ UNCHANGED <<state, raced, during>>
           /\ matching' \in {matching \ {c.i}, matching \cup {c.i}} /\ Onto(c, d, "notify")
  <2>1. d.from = c.from /\ d.i = c.i /\ d.ev = "none" /\ c.from \in Events /\ c.from # "unregister"
    BY <1>3, <1>8 DEF Onto, Shape, CallOK, EventPCs
  <2>2. ASSUME NEW u \in Threads
        PROVE  role'[u].from = role[u].from /\ role'[u].i = role[u].i /\ (u # t => role'[u] = role[u])
    BY <1>2, <1>3, <2>1
  <2>3. /\ \A u \in Threads : role'[u].from = "unregister" => state'[role'[u].i] = "unlisted"
        /\ \A u, v \in Threads : role'[u].from = "unregister" /\ role'[v].from = "unregister"
                                   /\ role'[u].i = role'[v].i => u = v
        /\ \A i \in Items : state'[i] = "unlisted" => \E u \in Threads : role'[u].from = "unregister" /\ role'[u].i = i
    BY <1>8, <2>2 DEF EventInv
  <2>4. ASSUME NEW u \in Threads, NEW i PROVE About(role'[u], i) <=> About(role[u], i)
    BY <2>2 DEF About
  <2>5. \A u, v \in Threads : \A i \in Items \ raced' : About(role'[u], i) /\ About(role'[v], i) => u = v
    BY <1>8, <2>4 DEF EventInv
  <2>6. ASSUME NEW u \in Threads, NEW i \in Items \ raced', About(role'[u], i)
        PROVE  /\ role'[u].from # "unregister" => state'[i] = "listed"
               /\ role'[u].ev = "track" => i \in matching'
    <3>1. About(role[u], i) /\ i \in Items \ raced /\ role'[u].from = role[u].from
      BY <1>8, <2>2, <2>4, <2>6
    <3>2. role'[u].from # "unregister" => state'[i] = "listed"
      BY <1>8, <3>1 DEF EventInv
    <3>3. CASE u = t
      BY <1>3, <2>1, <3>2, <3>3
    <3>4. CASE u # t
      <4>1. About(c, c.i)
        BY <2>1 DEF About
      <4>2. i # c.i
        BY <1>2, <3>1, <3>4, <4>1 DEF EventInv
      <4>3. i \in matching' <=> i \in matching
        BY <1>8, <4>2
      <4>4. role[u].ev = "track" => i \in matching
        BY <3>1 DEF EventInv
      <4>5. QED
        BY <2>2, <3>2, <3>4, <4>3, <4>4
    <3>5. QED
      BY <3>3, <3>4
  <2>7. QED
    BY <2>3, <2>5, <2>6 DEF EventInv
<1>9. CASE c.pc = "setProps" /\ UNCHANGED <<state, matching, raced>> /\ d = Idle
  <2>1. c.from # "unregister" /\ d.from \notin Events
    BY <1>3, <1>9, IdleIs DEF Shape, Events
  <2>2. SameEvent(c, d) /\ SameServices
    BY <1>9, <2>1 DEF SameEvent, SameServices
  <2>3. QED
    BY <1>2, <2>2, EventQuiet
<1>10. CASE c.pc = "gone" /\ UNCHANGED <<matching, raced>> /\ state' = [state EXCEPT ![c.i] = "gone"] /\ d = Idle
  <2>1. c.from = "unregister" /\ c.i \in Items
    <3>1. c.from \in Events /\ c.from # "register" /\ c.from # "modify"
      BY <1>3, <1>10 DEF CallOK, EventPCs, Shape
    <3>2. QED
      BY <1>1, <1>2, <3>1, RoleIs DEF Events
  <2>2. d.from = "none" /\ d.from \notin Events
    BY <1>10, IdleIs DEF Events
  <2>3. \A j \in Items : j # c.i => state'[j] = state[j]
    BY <1>4, <1>10
  <2>4. state'[c.i] = "gone"
    BY <1>4, <1>10, <2>1
  <2>5. ASSUME NEW u \in Threads, role'[u].from = "unregister"
        PROVE  u # t /\ role'[u] = role[u] /\ role[u].i \in Items /\ role[u].i # c.i
    <3>1. u # t /\ role'[u] = role[u]
      BY <1>3, <2>2, <2>5
    <3>2. role[u].i # c.i
      BY <1>2, <2>1, <2>5, <3>1 DEF EventInv
    <3>3. QED
      BY <1>1, <2>5, <3>1, <3>2, RoleIs DEF Events
  <2>6. /\ \A u \in Threads : role'[u].from = "unregister" => state'[role'[u].i] = "unlisted"
        /\ \A u, v \in Threads : role'[u].from = "unregister" /\ role'[v].from = "unregister"
                                   /\ role'[u].i = role'[v].i => u = v
    BY <2>3, <2>5 DEF EventInv
  <2>7. ASSUME NEW i \in Items, state'[i] = "unlisted" PROVE \E u \in Threads : role'[u].from = "unregister" /\ role'[u].i = i
    <3>1. i # c.i /\ state[i] = "unlisted"
      BY <2>3, <2>4, <2>7
    <3>2. PICK u \in Threads : role[u].from = "unregister" /\ role[u].i = i
      BY <3>1 DEF EventInv
    <3>3. u # t
      BY <1>2, <3>1, <3>2
    <3>4. QED
      BY <1>3, <3>2, <3>3
  <2>8. ASSUME NEW u \in Threads, NEW i, About(role'[u], i) PROVE u # t /\ role'[u] = role[u]
    BY <1>3, <2>2, <2>8 DEF About
  <2>9. \A u, v \in Threads : \A i \in Items \ raced' : About(role'[u], i) /\ About(role'[v], i) => u = v
    BY <1>10, <2>8 DEF EventInv
  <2>10. ASSUME NEW u \in Threads, NEW i \in Items \ raced', About(role'[u], i)
         PROVE  /\ role'[u].from # "unregister" => state'[i] = "listed"
                /\ role'[u].ev = "track" => i \in matching'
    <3>1. u # t /\ role'[u] = role[u] /\ About(role[u], i) /\ i \in Items \ raced
      BY <1>10, <2>8, <2>10
    <3>2. About(c, c.i)
      BY <2>1 DEF About, Events
    <3>3. i # c.i
      BY <1>2, <3>1, <3>2 DEF EventInv
    <3>4. QED
      BY <1>10, <2>3, <3>1, <3>3 DEF EventInv
  <2>11. QED
    BY <2>6, <2>7, <2>9, <2>10 DEF EventInv
<1>11. QED
  BY <1>2, <1>5, <1>6, <1>7, <1>8, <1>9, <1>10 DEF Services

LEMMA EventKeeps ==
    ASSUME IInv, RoleInv, EventInv, NEW t \in Threads, NEW d, Turn(t, d), Acts(t, d) PROVE EventInv'
<1>1. PICK c : c = role[t]
  OBVIOUS
<1>2. CallOK(c) /\ Shape(c)
  BY <1>1, TurnIs DEF IInv
<1>3. CASE Services(t, d)
  BY <1>3, ServicesEvent
<1>4. CASE Plain(c, d)
  BY <1>1, <1>2, <1>4, PlainEvent, EventQuiet
<1>5. CASE Tracks(c, d) \/ Untracks(c, d) \/ Finals(c, d) \/ Opens(t, d) \/ Puts(c, d) \/ Initials(c, d)
             \/ Closes(c, d) \/ Locks(c, d)
  BY <1>1, <1>2, <1>5, OtherEvent, EventQuiet
<1>6. QED
  BY <1>1, <1>3, <1>4, <1>5 DEF Acts

-----------------------------------------------------------------------------
(* Open and Close. *)

EarlyClose == {"closeLoad", "closeLock"}
SameOpen(c, d) ==
    /\ Looking(d) <=> Looking(c)
    /\ Looking(c) => d.g = c.g
    /\ c.pc \notin EarlyClose /\ d.pc \notin EarlyClose
    /\ Closer(d) => Closer(c) /\ d.g = c.g

LEMMA DyingIs ==
    ASSUME NEW t \in Threads, NEW d, Turn(t, d), role[t].pc \in EarlyClose <=> d.pc \in EarlyClose
    PROVE  Dying' <=> Dying
<1>1. role'[t] = d /\ \A u \in Threads : u # t => role'[u] = role[u]
  BY DEF Turn
<1>2. \A u \in Threads : role'[u].pc \in EarlyClose <=> role[u].pc \in EarlyClose
  BY <1>1
<1>3. QED
  BY <1>2 DEF Dying, EarlyClose

LEMMA OpenQuiet ==
    ASSUME OpenInv, NEW t \in Threads, NEW d, Turn(t, d), SameTracker, SameOpen(role[t], d)
    PROVE  OpenInv' /\ \A g : Live(g)' <=> Live(g)
<1>1. role'[t] = d /\ \A u \in Threads : u # t => role'[u] = role[u]
  BY DEF Turn
<1>2. UNCHANGED <<listener, current, opened, closed, overlap, dOwner>>
  BY DEF SameTracker
<1>3. \A u \in Threads : (Looking(role'[u]) <=> Looking(role[u])) /\ (Looking(role[u]) => role'[u].g = role[u].g)
  BY <1>1 DEF SameOpen
<1>4. \A u \in Threads : Closer(role'[u]) => Closer(role[u]) /\ role'[u].g = role[u].g
  BY <1>1 DEF SameOpen
<1>5. \A u \in Threads : role'[u].pc \in EarlyClose => role'[u] = role[u]
  BY <1>1 DEF SameOpen
<1>6. \A u \in Threads : role[u].pc \in EarlyClose => role'[u] = role[u]
  BY <1>1 DEF SameOpen
<1>7. \A u \in Threads : Looking(role'[u]) <=> dOwner' = {u}
  BY <1>2, <1>3 DEF OpenInv
<1>8. \A u \in Threads : Looking(role'[u]) =>
          /\ role'[u].g = opened' /\ (current' = 0 \/ current' \in closed')
          /\ role'[u].g \notin overlap' => listener' = role'[u].g
  BY <1>2, <1>3 DEF OpenInv
<1>9. \A u, v \in Threads : Looking(role'[u]) /\ Closer(role'[v]) => {current', role'[u].g} \ {0} \subseteq overlap'
  BY <1>2, <1>3, <1>4 DEF OpenInv
<1>10. ASSUME NEW u \in Threads, Committed(role'[u])
       PROVE  /\ role'[u].g \notin overlap' /\ role'[u].g # 0 => current' = role'[u].g
              /\ current' \notin overlap' /\ current' # 0 => current' = role'[u].g
              /\ role'[u].pc # "closeLock" => role'[u].g \in closed'
  <2>1. Committed(role[u]) /\ role'[u].g = role[u].g
    BY <1>4, <1>6, <1>10 DEF Committed, EarlyClose
  <2>2. role'[u].pc # "closeLock" => role[u].pc # "closeLock"
    BY <1>6 DEF EarlyClose
  <2>3. QED
    BY <1>2, <2>1, <2>2 DEF OpenInv
<1>11. Dying' <=> Dying
  BY <1>5, <1>6 DEF Dying, EarlyClose
<1>12. current' # 0 /\ current' \notin closed' \cup overlap' => listener' = current' \/ Dying'
  BY <1>2, <1>11 DEF OpenInv
<1>13. OpenInv'
  BY <1>7, <1>8, <1>9, <1>10, <1>12 DEF OpenInv
<1>14. \A g : Live(g)' <=> Live(g)
  BY <1>2, <1>3, <1>11 DEF Live
<1>15. QED
  BY <1>13, <1>14

LEMMA PlainOpen ==
    ASSUME NEW c, NEW d, ~ Looking(c), ~ Looking(d), c.pc \notin EarlyClose, ~ Closer(d)
    PROVE  SameOpen(c, d)
BY DEF SameOpen, EarlyClose, Closer, ClosePCs

LEMMA AfterOpen ==
    ASSUME NEW c, NEW d, c.pc \in {"notify", "check"} \cup TrackPCs, After(c, d) PROVE SameOpen(c, d)
<1>1. ~ Looking(c) /\ c.pc \notin EarlyClose
  BY DEF Looking, EarlyClose, TrackPCs
<1>2. d.pc \in {"idle", "initial", "closeEach", "gone"}
  BY IdleIs DEF After
<1>3. Closer(d) => Closer(c) /\ d.g = c.g
  BY IdleIs DEF After, Closer, ClosePCs
<1>4. ~ Looking(d) /\ d.pc \notin EarlyClose
  BY <1>2 DEF Looking, EarlyClose
<1>5. QED
  BY <1>1, <1>3, <1>4 DEF SameOpen

LEMMA OntoOpen ==
    ASSUME NEW c, NEW d, NEW l, Onto(c, d, l), c.pc \in EventPCs \cup TrackPCs, l \in EventPCs \cup TrackPCs
    PROVE  SameOpen(c, d)
BY DEF Onto, SameOpen, Looking, EarlyClose, Closer, EventPCs, TrackPCs, ClosePCs

LEMMA EventOpen ==
    ASSUME NEW c, NEW d, c.pc \in {"idle", "notify", "initial"} \cup EventPCs \cup TrackPCs,
           d.pc \in {"idle"} \cup EventPCs \cup TrackPCs, d.from # "close"
    PROVE  SameOpen(c, d)
BY DEF SameOpen, Looking, EarlyClose, Closer, EventPCs, TrackPCs, ClosePCs

LEMMA ServicesOpen ==
    ASSUME IInv, RoleInv, NEW t \in Threads, NEW d, Turn(t, d), Services(t, d)
    PROVE  SameOpen(role[t], d) /\ SameTracker
<1>1. PICK c : c = role[t]
  OBVIOUS
<1>2. CallOK(c) /\ Shape(c)
  BY <1>1, TurnIs DEF IInv
<1>3. ASSUME NEW i \in Items, Changes(t, i, d), d.pc \in {"notify", "setProps"}, d.from \in Events
      PROVE  SameOpen(c, d) /\ SameTracker
  <2>1. c = Idle /\ SameTracker
    BY <1>1, <1>3 DEF Changes
  <2>2. QED
    BY <1>3, <2>1, IdleIs, EventOpen DEF EventPCs, Events
<1>4. CASE c.pc = "setProps" /\ SameTracker /\ (Onto(c, d, "notify") \/ d = Idle)
  <2>1. c.pc \in EventPCs
    BY <1>4 DEF EventPCs
  <2>2. CASE d = Idle
    BY <1>1, <1>4, <2>1, <2>2, EventOpen, IdleIs
  <2>3. CASE Onto(c, d, "notify")
    BY <1>1, <1>4, <2>1, <2>3, OntoOpen DEF EventPCs
  <2>4. QED
    BY <1>4, <2>2, <2>3
<1>5. CASE c.pc = "gone" /\ SameTracker /\ d = Idle
  BY <1>1, <1>5, EventOpen, IdleIs DEF EventPCs
<1>6. QED
  BY <1>1, <1>3, <1>4, <1>5 DEF Services, Events

LEMMA PlainsOpen ==
    ASSUME NEW c, NEW d, CallOK(c), Shape(c), Plain(c, d), ~ Loads(c, d)
    PROVE  SameOpen(c, d) /\ SameTracker
<1>1. SameTracker /\ c \in CallType
  BY DEF Plain, Kept, CallOK
<1>2. CASE c.pc = "notify" /\ Notifies(c, d)
  <2>1. c.from # "close"
    BY <1>2 DEF CallOK, EventPCs, Events
  <2>2. CASE After(c, d)
    BY <1>1, <1>2, <2>2, AfterOpen
  <2>3. CASE d.pc = "countUp" /\ d.from = c.from
    BY <1>1, <1>2, <2>1, <2>3, EventOpen DEF EventPCs
  <2>4. QED
    BY <1>2, <2>2, <2>3 DEF Notifies
<1>3. CASE c.pc = "countUp" /\ Onto(c, d, "check")
  BY <1>1, <1>3, OntoOpen DEF EventPCs
<1>4. CASE c.pc = "check" /\ c.ev \in {"track", "untrack"} /\ Onto(c, d, c.ev)
  BY <1>1, <1>4, OntoOpen DEF EventPCs, TrackPCs
<1>5. CASE c.pc \in {"check", "modified", "removing"} /\ After(c, d)
  BY <1>1, <1>5, AfterOpen DEF TrackPCs
<1>6. CASE c.pc = "adding" /\ (Onto(c, d, "final") \/ Onto(c, d, "threw"))
  BY <1>1, <1>6, OntoOpen DEF TrackPCs
<1>7. CASE Looks(c, d)
  BY <1>1, <1>7, PlainIs DEF Looks, SameOpen, Looking, Closer, ClosePCs, EarlyClose, OpenPCs
<1>8. CASE Waits(c, d) \/ Refs(c, d)
  BY <1>1, <1>8 DEF Waits, Refs, SameOpen, Looking, Closer, ClosePCs, EarlyClose
<1>9. CASE Eachs(c, d)
  BY <1>1, <1>9, IdleIs DEF Eachs, SameOpen, Looking, Closer, ClosePCs, EarlyClose
<1>10. CASE Removes(c, d)
  BY <1>1, <1>10, IdleIs DEF Removes, SameOpen, Looking, Closer, ClosePCs, EarlyClose
<1>11. CASE Throws(c, d)
  BY <1>1, <1>11, IdleIs, EventOpen DEF Throws, TrackPCs
<1>12. QED
  BY <1>2, <1>3, <1>4, <1>5, <1>6, <1>7, <1>8, <1>9, <1>10, <1>11 DEF Plain

LEMMA TracksOpen ==
    ASSUME NEW c, NEW d, CallOK(c), Shape(c), Tracks(c, d) \/ Untracks(c, d) \/ Finals(c, d) \/ Initials(c, d)
    PROVE  SameOpen(c, d) /\ SameTracker
<1>1. SameTracker /\ c \in CallType
  BY DEF Tracks, Untracks, Finals, Initials, CallOK
<1>2. CASE c.pc \in TrackPCs /\ After(c, d)
  BY <1>1, <1>2, AfterOpen
<1>3. CASE c.pc \in TrackPCs /\ \E l \in TrackPCs : Onto(c, d, l)
  BY <1>1, <1>3, OntoOpen
<1>4. CASE Tracks(c, d)
  <2>1. CASE Starts(c, d, c.g, c.i, c.from)
    <3>1. c.pc = "track" /\ c.from # "close"
      BY <1>4 DEF Tracks, Shape
    <3>2. QED
      BY <1>1, <2>1, <3>1, EventOpen DEF Starts, TrackPCs
  <2>2. QED
    BY <1>2, <1>3, <1>4, <2>1 DEF Tracks, TrackPCs
<1>5. CASE Untracks(c, d)
  BY <1>2, <1>3, <1>5 DEF Untracks, TrackPCs
<1>6. CASE Finals(c, d)
  <2>1. CASE d = Idle
    BY <1>1, <1>6, <2>1, EventOpen, IdleIs DEF Finals, TrackPCs
  <2>2. QED
    BY <1>2, <1>3, <1>6, <2>1 DEF Finals, TrackPCs
<1>7. CASE Initials(c, d)
  <2>1. c.pc = "initial" /\ c.from = "none"
    BY <1>1, <1>7, PlainIs DEF Initials, OpenPCs
  <2>2. CASE d = Idle
    BY <1>1, <2>1, <2>2, EventOpen, IdleIs
  <2>3. CASE d = c
    BY <1>1, <2>1, <2>3 DEF SameOpen, EarlyClose
  <2>4. ASSUME NEW i, Starts(c, d, c.g, i, "initial") PROVE SameOpen(c, d) /\ SameTracker
    BY <1>1, <2>1, <2>4, EventOpen DEF Starts, TrackPCs
  <2>5. QED
    BY <1>7, <2>2, <2>3, <2>4 DEF Initials
<1>8. QED
  BY <1>4, <1>5, <1>6, <1>7

LEMMA LoadsOpen ==
    ASSUME OpenInv, NEW t \in Threads, NEW d, Turn(t, d), Loads(role[t], d)
    PROVE  OpenInv' /\ Dying'
<1>1. role'[t] = d /\ \A u \in Threads : u # t => role'[u] = role[u]
  BY DEF Turn
<1>2. UNCHANGED <<listener, current, opened, closed, overlap, dOwner>>
  BY DEF Loads, Kept, SameTracker
<1>3. ~ Looking(role[t]) /\ ~ Looking(d) /\ Closer(role[t]) /\ Closer(d) /\ d.pc = "closeLock" /\ d.g = current
  BY DEF Loads, Looking, Closer, ClosePCs
<1>4. Dying'
  BY <1>1, <1>3 DEF Dying
<1>5. \A u \in Threads : Looking(role'[u]) <=> dOwner' = {u}
  BY <1>1, <1>2, <1>3 DEF OpenInv
<1>6. \A u \in Threads : Looking(role'[u]) =>
          /\ role'[u].g = opened' /\ (current' = 0 \/ current' \in closed')
          /\ role'[u].g \notin overlap' => listener' = role'[u].g
  BY <1>1, <1>2, <1>3 DEF OpenInv
<1>7. \A u, v \in Threads : Looking(role'[u]) /\ Closer(role'[v]) => {current', role'[u].g} \ {0} \subseteq overlap'
  BY <1>1, <1>2, <1>3 DEF OpenInv
<1>8. \A u \in Threads : Committed(role'[u]) =>
          /\ role'[u].g \notin overlap' /\ role'[u].g # 0 => current' = role'[u].g
          /\ current' \notin overlap' /\ current' # 0 => current' = role'[u].g
          /\ role'[u].pc # "closeLock" => role'[u].g \in closed'
  BY <1>1, <1>2, <1>3 DEF OpenInv
<1>9. QED
  BY <1>4, <1>5, <1>6, <1>7, <1>8 DEF OpenInv

LEMMA OpensOpen ==
    ASSUME OpenInv, NEW t \in Threads, NEW d, Turn(t, d), Opens(t, d)
    PROVE  OpenInv' /\ (\A g : Live(g)' => g = d.g) /\ d.g = opened + 1
<1>1. role'[t] = d /\ \A u \in Threads : u # t => role'[u] = role[u]
  BY DEF Turn
<1>2. /\ role[t] = Idle /\ dOwner = {} /\ (current = 0 \/ current \in closed)
      /\ opened' = opened + 1 /\ listener' = opened + 1 /\ dOwner' = {t}
      /\ d.pc = "lookup" /\ d.g = opened + 1 /\ d.from = "none" /\ current' = current /\ closed' = closed
      /\ overlap' = IF \E u \in Threads : Closer(role[u]) THEN overlap \cup ({current, opened + 1} \ {0}) ELSE overlap
  BY DEF Opens
<1>3. overlap \subseteq overlap'
  BY <1>2
<1>4. Looking(d) /\ ~ Closer(d)
  BY <1>2 DEF Looking, Closer, ClosePCs
<1>5. \A u \in Threads : ~ Looking(role[u])
  BY <1>2 DEF OpenInv
<1>6. \A u \in Threads : Looking(role'[u]) <=> u = t
  BY <1>1, <1>4, <1>5
<1>7. \A u \in Threads : Looking(role'[u]) <=> dOwner' = {u}
  BY <1>2, <1>6
<1>8. \A u \in Threads : Looking(role'[u]) =>
          /\ role'[u].g = opened' /\ (current' = 0 \/ current' \in closed')
          /\ role'[u].g \notin overlap' => listener' = role'[u].g
  BY <1>1, <1>2, <1>6
<1>9. \A u, v \in Threads : Looking(role'[u]) /\ Closer(role'[v]) => {current', role'[u].g} \ {0} \subseteq overlap'
  BY <1>1, <1>2, <1>4, <1>6
<1>10. ASSUME NEW u \in Threads, Committed(role'[u])
       PROVE  /\ role'[u].g \notin overlap' /\ role'[u].g # 0 => current' = role'[u].g
              /\ current' \notin overlap' /\ current' # 0 => current' = role'[u].g
              /\ role'[u].pc # "closeLock" => role'[u].g \in closed'
  <2>1. u # t /\ Committed(role[u]) /\ role'[u] = role[u]
    BY <1>1, <1>4, <1>10 DEF Committed
  <2>2. QED
    BY <1>2, <1>3, <2>1 DEF OpenInv
<1>11. current' = 0 \/ current' \in closed'
  BY <1>2
<1>12. OpenInv'
  BY <1>7, <1>8, <1>9, <1>10, <1>11 DEF OpenInv
<1>13. ASSUME NEW g, Live(g)' PROVE g = d.g
  <2>1. g \in Gens /\ g \notin closed'
    BY <1>13 DEF Live
  <2>2. g # current'
    BY <1>2, <2>1 DEF Gens
  <2>3. QED
    BY <1>1, <1>6, <1>13, <2>2 DEF Live
<1>14. QED
  BY <1>2, <1>12, <1>13

LEMMA PutsOpen ==
    ASSUME OpenInv, NEW t \in Threads, NEW d, Turn(t, d), Puts(role[t], d), role[t].g # 0, role[t].from = "none"
    PROVE  OpenInv' /\ (\A g : Live(g)' => Live(g) /\ g = role[t].g) /\ (\A u \in Threads : ~ Looking(role'[u]))
<1>1. PICK c : c = role[t]
  OBVIOUS
<1>2. role'[t] = d /\ \A u \in Threads : u # t => role'[u] = role[u]
  BY DEF Turn
<1>3. /\ c.pc = "setInitial" /\ current' = c.g /\ dOwner' = {} /\ d.pc = "initial" /\ d.g = c.g /\ d.from = "none"
      /\ UNCHANGED <<listener, opened, closed, overlap>>
  BY <1>1 DEF Puts
<1>4. Looking(c) /\ ~ Looking(d) /\ ~ Closer(d) /\ ~ Closer(c)
  BY <1>1, <1>3 DEF Looking, Closer, ClosePCs
<1>5. dOwner = {t} /\ \A u \in Threads : Looking(role[u]) => u = t
  BY <1>1, <1>4 DEF OpenInv
<1>6. \A u \in Threads : ~ Looking(role'[u])
  BY <1>2, <1>4, <1>5
<1>7. \A u \in Threads : Looking(role'[u]) <=> dOwner' = {u}
  BY <1>3, <1>6
<1>8. ASSUME NEW u \in Threads, Committed(role'[u])
       PROVE  /\ role'[u].g \notin overlap' /\ role'[u].g # 0 => current' = role'[u].g
              /\ current' \notin overlap' /\ current' # 0 => current' = role'[u].g
              /\ role'[u].pc # "closeLock" => role'[u].g \in closed'
  <2>1. u # t /\ Committed(role[u]) /\ role'[u] = role[u] /\ Closer(role[u])
    BY <1>2, <1>4, <1>8 DEF Committed
  <2>2. {current, c.g} \ {0} \subseteq overlap
    BY <1>1, <1>4, <2>1 DEF OpenInv
  <2>3. c.g \in overlap /\ (current = 0 \/ current \in overlap)
    BY <1>1, <2>2
  <2>4. /\ role[u].g \notin overlap /\ role[u].g # 0 => current = role[u].g
        /\ role[u].pc # "closeLock" => role[u].g \in closed
    BY <2>1 DEF OpenInv
  <2>5. QED
    BY <1>3, <2>1, <2>3, <2>4
<1>9. current' # 0 /\ current' \notin closed' \cup overlap' => listener' = current' \/ Dying'
  BY <1>1, <1>3, <1>4 DEF OpenInv
<1>10. OpenInv'
  BY <1>6, <1>7, <1>8, <1>9 DEF OpenInv
<1>11. Dying' <=> Dying
  BY <1>1, <1>3, DyingIs DEF EarlyClose
<1>12. ASSUME NEW g, Live(g)' PROVE Live(g) /\ g = c.g
  <2>1. g = c.g /\ ~ Dying /\ g \in Gens \ (closed \cup overlap)
    BY <1>3, <1>6, <1>11, <1>12 DEF Live
  <2>2. QED
    BY <1>1, <1>4, <2>1 DEF Live
<1>13. QED
  BY <1>1, <1>6, <1>10, <1>12

LEMMA ClosesOpen ==
    ASSUME OpenInv, RoleInv, CallsInv, NEW t \in Threads, NEW d, Turn(t, d), Closes(role[t], d)
    PROVE  OpenInv' /\ Dying' /\ \A u \in Threads : Looking(role'[u]) => role'[u] = role[u]
<1>1. role'[t] = d /\ \A u \in Threads : u # t => role'[u] = role[u]
  BY DEF Turn
<1>2. /\ role[t] = Idle /\ listener' = 0 /\ d.pc = "closeLoad" /\ d.from = "none"
      /\ overlap' = IF dOwner # {} THEN overlap \cup ({current, opened} \ {0}) ELSE overlap
      /\ UNCHANGED <<current, opened, closed, dOwner>>
  BY DEF Closes
<1>3. overlap \subseteq overlap' /\ ~ Looking(d) /\ ~ Looking(role[t]) /\ ~ Closer(role[t]) /\ ~ Committed(d)
  BY <1>2, IdleIs DEF Looking, Closer, ClosePCs, Committed
<1>4. Dying'
  BY <1>1, <1>2 DEF Dying
<1>5. \A u \in Threads : Looking(role'[u]) => Looking(role[u]) /\ role'[u] = role[u]
  BY <1>1, <1>3
<1>6. \A u \in Threads : Looking(role'[u]) <=> dOwner' = {u}
  BY <1>1, <1>2, <1>3 DEF OpenInv
<1>7. ASSUME NEW u \in Threads, Looking(role'[u])
      PROVE  /\ role'[u].g = opened' /\ (current' = 0 \/ current' \in closed')
             /\ role'[u].g \in overlap' /\ {current', role'[u].g} \ {0} \subseteq overlap'
  <2>1. Looking(role[u]) /\ role'[u] = role[u] /\ role[u].g = opened /\ dOwner = {u} /\ (current = 0 \/ current \in closed)
    BY <1>5, <1>7 DEF OpenInv
  <2>2. role[u].g # 0
    BY <2>1, RoleIs DEF CallOK, GenPCs, OpenPCs, Looking
  <2>3. overlap' = overlap \cup ({current, opened} \ {0})
    BY <1>2, <2>1
  <2>4. QED
    BY <1>2, <2>1, <2>2, <2>3
<1>8. ASSUME NEW u \in Threads, Committed(role'[u])
       PROVE  /\ role'[u].g \notin overlap' /\ role'[u].g # 0 => current' = role'[u].g
              /\ current' \notin overlap' /\ current' # 0 => current' = role'[u].g
              /\ role'[u].pc # "closeLock" => role'[u].g \in closed'
  <2>1. u # t /\ Committed(role[u]) /\ role'[u] = role[u]
    BY <1>1, <1>3, <1>8
  <2>2. QED
    BY <1>2, <1>3, <2>1 DEF OpenInv
<1>9. OpenInv'
  BY <1>4, <1>6, <1>7, <1>8 DEF OpenInv
<1>10. QED
  BY <1>4, <1>5, <1>9

LEMMA LocksOpen ==
    ASSUME OpenInv, NEW t \in Threads, NEW d, Turn(t, d), Locks(role[t], d)
    PROVE  OpenInv' /\ (\A g : ~ Live(g)') /\ (\A u \in Threads : ~ Looking(role'[u]))
<1>1. PICK c : c = role[t]
  OBVIOUS
<1>2. role'[t] = d /\ \A u \in Threads : u # t => role'[u] = role[u]
  BY DEF Turn
<1>3. /\ c.pc = "closeLock" /\ dOwner = {} /\ UNCHANGED <<listener, current, opened, overlap, dOwner>>
      /\ \/ (c.g = 0 \/ current \in closed) /\ d = Idle /\ closed' = closed
         \/ /\ c.g # 0 /\ current \notin closed /\ closed' = closed \cup {c.g}
            /\ d.pc = "closeWait" /\ d.g = c.g /\ d.from = "none"
  BY <1>1 DEF Locks
<1>4. ~ Looking(d) /\ closed \subseteq closed'
  BY <1>3, IdleIs DEF Looking
<1>5. \A u \in Threads : ~ Looking(role[u])
  BY <1>3 DEF OpenInv
<1>6. \A u \in Threads : ~ Looking(role'[u])
  BY <1>2, <1>4, <1>5
<1>7. /\ c.g \notin overlap /\ c.g # 0 => current = c.g
      /\ current \notin overlap /\ current # 0 => current = c.g
  BY <1>1, <1>3 DEF OpenInv, Committed, Closer, ClosePCs
<1>8. ~ (current' # 0 /\ current' \notin closed' \cup overlap')
  BY <1>3, <1>7
<1>9. ASSUME NEW u \in Threads, Committed(role'[u])
       PROVE  /\ role'[u].g \notin overlap' /\ role'[u].g # 0 => current' = role'[u].g
              /\ current' \notin overlap' /\ current' # 0 => current' = role'[u].g
              /\ role'[u].pc # "closeLock" => role'[u].g \in closed'
  <2>1. CASE u # t
    BY <1>2, <1>3, <1>4, <1>9, <2>1 DEF OpenInv
  <2>2. CASE u = t
    <3>1. d # Idle
      BY <1>2, <1>9, <2>2, IdleIs DEF Committed, Closer, ClosePCs
    <3>2. QED
      BY <1>2, <1>3, <1>7, <2>2, <3>1
  <2>3. QED
    BY <2>1, <2>2
<1>10. OpenInv'
  BY <1>3, <1>6, <1>8, <1>9 DEF OpenInv
<1>11. ASSUME NEW g, Live(g)' PROVE FALSE
  <2>1. g = current' /\ g \in Gens \ (closed' \cup overlap')
    BY <1>6, <1>11 DEF Live
  <2>2. QED
    BY <1>8, <2>1 DEF Gens
<1>12. QED
  BY <1>6, <1>10, <1>11

LEMMA LiveListens ==
    ASSUME OpenInv, NEW g, Live(g) PROVE listener = g /\ g \in Gens /\ g # 0 /\ g \notin closed \cup overlap
<1>1. g \in Gens /\ g # 0 /\ g \notin closed \cup overlap /\ ~ Dying
  BY DEF Live, Gens
<1>2. CASE g = current
  BY <1>1, <1>2 DEF OpenInv
<1>3. CASE \E t \in Threads : Looking(role[t]) /\ role[t].g = g
  BY <1>1, <1>3 DEF OpenInv
<1>4. QED
  BY <1>1, <1>2, <1>3 DEF Live

\* A generation that is open now was, or is being opened.
LEMMA OpenInvKeeps ==
    ASSUME IInv, RoleInv, OpenInv, NEW t \in Threads, NEW d, Turn(t, d), Acts(t, d)
    PROVE  OpenInv' /\ \A g : Live(g)' => Live(g) \/ (Opens(t, d) /\ g = d.g)
<1>1. PICK c : c = role[t]
  OBVIOUS
<1>2. CallOK(c) /\ Shape(c) /\ c \in CallType /\ CallsInv
  BY <1>1, TurnIs DEF IInv
<1>3. ASSUME SameOpen(c, d), SameTracker PROVE OpenInv' /\ \A g : Live(g)' => Live(g)
  BY <1>1, <1>3, OpenQuiet
<1>4. CASE Services(t, d)
  BY <1>1, <1>3, <1>4, ServicesOpen
<1>5. CASE Loads(c, d)
  BY <1>1, <1>5, LoadsOpen DEF Live
<1>6. CASE Plain(c, d) /\ ~ Loads(c, d)
  BY <1>2, <1>3, <1>6, PlainsOpen
<1>7. CASE Tracks(c, d) \/ Untracks(c, d) \/ Finals(c, d) \/ Initials(c, d)
  BY <1>2, <1>3, <1>7, TracksOpen
<1>8. CASE Opens(t, d)
  BY <1>8, OpensOpen
<1>9. CASE Puts(c, d)
  <2>1. c.g # 0 /\ c.from = "none"
    BY <1>2, <1>9, PlainIs DEF Puts, CallOK, GenPCs, OpenPCs
  <2>2. QED
    BY <1>1, <1>9, <2>1, PutsOpen
<1>10. CASE Closes(c, d)
  BY <1>1, <1>2, <1>10, ClosesOpen DEF Live
<1>11. CASE Locks(c, d)
  BY <1>1, <1>11, LocksOpen
<1>12. QED
  BY <1>1, <1>4, <1>5, <1>6, <1>7, <1>8, <1>9, <1>10, <1>11 DEF Acts

-----------------------------------------------------------------------------
(* Generations that are not open yet, and the threads that add. *)

\* The lists of the other generations stay as they are.
OnlyAt(g) == \A h \in Gens : h # g => initial'[h] = initial[h] /\ adding'[h] = adding[h] /\ tracked'[h] = tracked[h]

LEMMA OnlyAtIs ==
    ASSUME StateInv, NEW c, NEW d, c.g \in Gens, c.i \in Items \/ c.pc \in OpenPCs,
           Tracks(c, d) \/ Untracks(c, d) \/ Finals(c, d) \/ Puts(c, d) \/ Initials(c, d)
    PROVE  OnlyAt(c.g)
<1>1. /\ initial \in [Gens -> SUBSET Items] /\ adding \in [Gens -> SUBSET Items]
      /\ tracked \in [Gens -> [Items -> 0 .. MaxObjects]]
  BY DEF StateInv
<1>2. CASE Tracks(c, d)
  BY <1>1, <1>2 DEF Tracks, Starts, OnlyAt
<1>3. CASE Untracks(c, d)
  BY <1>1, <1>3 DEF Untracks, TakesOut, OnlyAt
<1>4. CASE Finals(c, d)
  BY <1>1, <1>4 DEF Finals, OnlyAt
<1>5. CASE Puts(c, d)
  BY <1>1, <1>5 DEF Puts, OnlyAt
<1>6. CASE Initials(c, d)
  BY <1>1, <1>6 DEF Initials, Starts, OnlyAt
<1>7. QED
  BY <1>2, <1>3, <1>4, <1>5, <1>6

LEMMA GenIs ==
    ASSUME RoleInv, CallsInv, NEW t \in Threads, NEW d, Turn(t, d), Acts(t, d)
    PROVE  d.g \in {role[t].g, 0, current, listener} \/ Opens(t, d)
<1>1. PICK c : c = role[t]
  OBVIOUS
<1>2. ASSUME After(c, d) PROVE d.g \in {c.g, 0}
  BY <1>2, IdleIs DEF After
<1>3. ASSUME NEW l, Onto(c, d, l) PROVE d.g = c.g
  BY <1>3 DEF Onto
<1>4. CASE Services(t, d)
  BY <1>1, <1>3, <1>4, IdleIs DEF Services
<1>5. CASE Plain(c, d)
  <2>1. CASE Notifies(c, d)
    BY <1>1, <1>2, <2>1 DEF Notifies
  <2>2. CASE After(c, d) \/ \E l : Onto(c, d, l)
    BY <1>1, <1>2, <1>3, <2>2
  <2>3. CASE \/ Looks(c, d) \/ Loads(c, d) \/ Waits(c, d) \/ Refs(c, d) \/ Eachs(c, d) \/ Removes(c, d)
             \/ Throws(c, d)
    BY <1>1, <2>3, IdleIs DEF Looks, Loads, Waits, Refs, Eachs, Removes, Throws
  <2>4. QED
    BY <1>5, <2>1, <2>2, <2>3 DEF Plain
<1>6. CASE Tracks(c, d) \/ Untracks(c, d) \/ Finals(c, d)
  <2>1. \/ After(c, d) \/ (\E l : Onto(c, d, l)) \/ d.g = c.g \/ d = Idle
    BY <1>6 DEF Tracks, Untracks, Finals, Starts
  <2>2. QED
    BY <1>1, <1>2, <1>3, <2>1, IdleIs
<1>7. CASE Puts(c, d) \/ Initials(c, d) \/ Closes(c, d) \/ Locks(c, d)
  BY <1>1, <1>7, IdleIs DEF Puts, Initials, Starts, Closes, Locks
<1>8. QED
  BY <1>1, <1>4, <1>5, <1>6, <1>7 DEF Acts

\* A step on one generation, by a call about it.
LEMMA WhereIs ==
    ASSUME IInv, RoleInv, NEW t \in Threads, NEW c, c = role[t], NEW d,
           Tracks(c, d) \/ Untracks(c, d) \/ Finals(c, d) \/ Puts(c, d) \/ Initials(c, d)
    PROVE  c.g \in Gens /\ (c.i \in Items \/ c.pc \in OpenPCs) /\ OnlyAt(c.g)
<1>1. c.pc \in TrackPCs \cup OpenPCs
  BY DEF Tracks, Untracks, Finals, Puts, Initials, TrackPCs, OpenPCs
<1>2. c.g \in Gens /\ (c.i \in Items \/ c.pc \in OpenPCs)
  BY <1>1, RoleIs DEF IInv, GenPCs, ItemPCs
<1>3. StateInv
  BY DEF IInv
<1>4. QED
  BY <1>2, <1>3, OnlyAtIs, SMTT(60)

\* Initial references are only taken away, except by the Open that puts them there.
LEMMA InitialShrinks ==
    ASSUME StateInv, NEW c, NEW d, Tracks(c, d) \/ Untracks(c, d) \/ Finals(c, d) \/ Initials(c, d)
    PROVE  \A g \in Gens : initial'[g] \subseteq initial[g]
<1>1. initial \in [Gens -> SUBSET Items]
  BY DEF StateInv
<1>2. initial' = initial \/ \E g, i : initial' = [initial EXCEPT ![g] = @ \ {i}]
  BY DEF Tracks, Untracks, TakesOut, Finals, Initials
<1>3. QED
  BY <1>1, <1>2

\* Who looks references up went on with it, or has just opened.
LEMMA LookingIs ==
    ASSUME IInv, RoleInv, OpenInv, NEW t \in Threads, NEW d, Turn(t, d), Acts(t, d), ~ Opens(t, d),
           NEW u \in Threads, Looking(role'[u])
    PROVE  /\ Looking(role[u]) /\ role'[u].g = role[u].g /\ role[u].g \in Gens /\ ~ Puts(role[t], d)
<1>1. PICK c : c = role[t]
  OBVIOUS
<1>2. CallsInv /\ CallOK(c) /\ Shape(c) /\ c \in CallType
  BY <1>1, TurnIs DEF IInv
<1>3. role'[t] = d /\ \A v \in Threads : v # t => role'[v] = role[v]
  BY DEF Turn
<1>4. ~ Puts(c, d)
  <2>1. SUFFICES ASSUME Puts(c, d) PROVE FALSE
    OBVIOUS
  <2>2. c.g # 0 /\ c.from = "none"
    BY <1>2, <2>1, PlainIs DEF Puts, CallOK, GenPCs, OpenPCs
  <2>3. QED
    BY <1>1, <2>1, <2>2, PutsOpen
<1>5. ~ Locks(c, d)
  BY <1>1, LocksOpen
<1>6. SameOpen(c, d) \/ Loads(c, d) \/ Closes(c, d)
  <2>1. CASE Services(t, d)
    BY <1>1, <2>1, ServicesOpen
  <2>2. CASE Plain(c, d)
    BY <1>2, <2>2, PlainsOpen
  <2>3. CASE Tracks(c, d) \/ Untracks(c, d) \/ Finals(c, d) \/ Initials(c, d)
    BY <1>2, <2>3, TracksOpen
  <2>4. QED
    BY <1>1, <1>4, <1>5, <2>1, <2>2, <2>3 DEF Acts
<1>7. Looking(d) => Looking(c) /\ d.g = c.g
  <2>1. CASE SameOpen(c, d)
    BY <2>1 DEF SameOpen
  <2>2. CASE Loads(c, d) \/ Closes(c, d)
    BY <2>2 DEF Loads, Closes, Looking
  <2>3. QED
    BY <1>6, <2>1, <2>2
<1>8. Looking(role[u]) /\ role'[u].g = role[u].g
  BY <1>1, <1>3, <1>7
<1>9. QED
  BY <1>1, <1>2, <1>4, <1>8, RoleIs DEF Looking, GenPCs, OpenPCs

LEMMA FreshKeeps ==
    ASSUME IInv, IInv', RoleInv, OpenInv, FreshInv, NEW t \in Threads, NEW d, Turn(t, d), Acts(t, d)
    PROVE  FreshInv'
<1>1. PICK c : c = role[t]
  OBVIOUS
<1>2. CallsInv /\ StateInv /\ StateInv' /\ CallOK(c) /\ Shape(c) /\ c \in CallType /\ d \in CallType
  BY <1>1, TurnIs DEF IInv
<1>3. role'[t] = d /\ \A u \in Threads : u # t => role'[u] = role[u]
  BY DEF Turn
<1>4. /\ opened \in Nat /\ opened' \in Nat /\ current \in Nat /\ listener \in Nat
      /\ \A u \in Threads : role[u].g \in Nat
  <2>1. /\ opened \in 0 .. MaxOpens /\ opened' \in 0 .. MaxOpens /\ current \in 0 .. MaxOpens /\ listener \in 0 .. MaxOpens
        /\ MaxOpens \in Nat
    BY <1>2, TrackerAssumption DEF StateInv
  <2>2. QED
    BY <1>2, <2>1, RoleIs
<1>5. /\ opened' \in {opened, opened + 1}
      /\ current' \in {current, c.g}
      /\ listener' \in {listener, 0, opened'}
      /\ Opens(t, d) => d.g = opened'
  <2>1. CASE SameTracker
    BY <2>1, <1>4 DEF SameTracker, Opens
  <2>2. CASE Opens(t, d)
    BY <2>2 DEF Opens
  <2>3. CASE Puts(c, d)
    BY <1>4, <2>3 DEF Puts, Opens
  <2>4. CASE Closes(c, d)
    BY <1>4, <2>4 DEF Closes, Opens
  <2>5. CASE Locks(c, d)
    <3>1. ~ Opens(t, d)
      BY <1>1, <2>5, IdleIs, SMTT(60) DEF Locks, Opens
    <3>2. QED
      BY <2>5, <3>1 DEF Locks
  <2>6. SameTracker \/ Opens(t, d) \/ Puts(c, d) \/ Closes(c, d) \/ Locks(c, d)
    BY <1>1 DEF Acts, Services, Changes, Plain, Kept, Tracks, Untracks, Finals, Initials
  <2>7. QED
    BY <2>1, <2>2, <2>3, <2>4, <2>5, <2>6
<1>6. current' <= opened' /\ listener' <= opened' /\ d.g <= opened'
  <2>1. c.g <= opened /\ current <= opened /\ listener <= opened
    BY <1>1 DEF FreshInv
  <2>2. d.g \in {c.g, 0, current, listener} \/ Opens(t, d)
    BY <1>1, <1>2, GenIs
  <2>3. QED
    BY <1>1, <1>4, <1>5, <2>1, <2>2
<1>7. \A u \in Threads : role'[u].g <= opened'
  BY <1>3, <1>4, <1>5, <1>6 DEF FreshInv
<1>8. SameLists \/ (c.g \in Gens /\ OnlyAt(c.g))
  <2>1. CASE Tracks(c, d) \/ Untracks(c, d) \/ Finals(c, d) \/ Puts(c, d) \/ Initials(c, d)
    BY <1>1, <2>1, WhereIs
  <2>2. QED
    BY <1>1, <2>1 DEF Acts, Services, Changes, Plain, Kept, Opens, Closes, Locks
<1>9. ASSUME NEW g \in Gens, g > opened' PROVE initial'[g] = {} /\ adding'[g] = {} /\ TrackedIn(g)' = {}
  <2>1. g > opened /\ g # c.g
    <3>1. g \in Nat
      BY DEF Gens
    <3>2. QED
      BY <1>1, <1>4, <1>5, <1>9, <3>1 DEF FreshInv
  <2>2. initial'[g] = initial[g] /\ adding'[g] = adding[g] /\ tracked'[g] = tracked[g]
    BY <1>8, <2>1 DEF SameLists, OnlyAt
  <2>3. TrackedIn(g)' = TrackedIn(g)
    BY <2>2 DEF TrackedIn
  <2>4. QED
    BY <2>1, <2>2, <2>3 DEF FreshInv
<1>10. ASSUME NEW u \in Threads, Looking(role'[u]) PROVE initial'[role'[u].g] = {}
  <2>1. CASE ~ Opens(t, d)
    <3>1. Looking(role[u]) /\ role'[u].g = role[u].g /\ role[u].g \in Gens /\ ~ Puts(c, d)
      BY <1>1, <1>10, <2>1, LookingIs
    <3>2. \A g \in Gens : initial'[g] \subseteq initial[g]
      <4>1. CASE Tracks(c, d) \/ Untracks(c, d) \/ Finals(c, d) \/ Initials(c, d)
        BY <1>2, <4>1, InitialShrinks
      <4>2. QED
        BY <1>1, <2>1, <3>1, <4>1 DEF Acts, Services, Changes, Plain, Kept, Closes, Locks, SameLists
    <3>3. QED
      BY <3>1, <3>2 DEF FreshInv
  <2>2. CASE Opens(t, d)
    <3>1. dOwner = {} /\ d.g = opened + 1 /\ d.g \in Gens /\ initial' = initial
      BY <2>2 DEF Opens, SameLists
    <3>2. u = t
      BY <1>3, <1>10, <3>1 DEF OpenInv
    <3>3. QED
      BY <1>3, <1>4, <3>1, <3>2 DEF FreshInv
  <2>3. QED
    BY <2>1, <2>2
<1>11. QED
  BY <1>6, <1>7, <1>9, <1>10 DEF FreshInv

LEMMA AddersKeeps ==
    ASSUME IInv, RoleInv, AddersInv, NEW t \in Threads, NEW d, Turn(t, d), Acts(t, d)
    PROVE  AddersInv'
<1>1. PICK c : c = role[t]
  OBVIOUS
<1>2. CallsInv /\ StateInv /\ CallOK(c) /\ Shape(c) /\ c \in CallType
  BY <1>1, TurnIs DEF IInv
<1>3. role'[t] = d /\ \A u \in Threads : u # t => role'[u] = role[u]
  BY DEF Turn
<1>4. adding \in [Gens -> SUBSET Items]
  BY <1>2 DEF StateInv
<1>5. ASSUME \A g \in Gens : \A i \in adding'[g] : i \in adding[g] \/ Adder(d, g, i),
             \A g \in Gens : \A i \in adding'[g] : Adder(c, g, i) => Adder(d, g, i)
      PROVE  AddersInv'
  <2>1. ASSUME NEW g \in Gens, NEW i \in adding'[g] PROVE \E u \in Threads : Adder(role'[u], g, i)
    <3>1. CASE Adder(d, g, i)
      BY <1>3, <3>1
    <3>2. CASE i \in adding[g]
      <4>1. PICK u \in Threads : Adder(role[u], g, i)
        BY <3>2 DEF AddersInv
      <4>2. CASE u = t
        BY <1>1, <1>3, <1>5, <4>1, <4>2
      <4>3. CASE u # t
        BY <1>3, <4>1, <4>3
      <4>4. QED
        BY <4>2, <4>3
    <3>3. QED
      BY <1>5, <3>1, <3>2
  <2>2. QED
    BY <2>1 DEF AddersInv
<1>6. ASSUME c.pc \notin AddPCs, \A g \in Gens : adding'[g] \subseteq adding[g] PROVE AddersInv'
  BY <1>5, <1>6 DEF Adder
<1>7. CASE Services(t, d)
  <2>1. c.pc \notin AddPCs /\ adding' = adding
    BY <1>1, <1>7, IdleIs DEF Services, Changes, SameLists, AddPCs
  <2>2. QED
    BY <1>6, <2>1
<1>8. CASE Plain(c, d)
  <2>1. adding' = adding
    BY <1>8 DEF Plain, Kept, SameLists
  <2>2. CASE c.pc = "adding" /\ (Onto(c, d, "final") \/ Onto(c, d, "threw"))
    <3>1. \A g, i : Adder(c, g, i) => Adder(d, g, i)
      BY <2>2 DEF Onto, Adder, AddPCs
    <3>2. QED
      BY <1>5, <2>1, <3>1
  <2>3. CASE c.pc \notin AddPCs
    BY <1>6, <2>1, <2>3
  <2>4. QED
    BY <1>8, <2>2, <2>3, IdleIs DEF Plain, Looks, Loads, Waits, Refs, Eachs, Removes, Throws, AddPCs
<1>9. ASSUME c.pc \notin AddPCs, c.g \in Gens, NEW i, NEW f, Starts(c, d, c.g, i, f) PROVE AddersInv'
  <2>1. \A g \in Gens : \A j \in adding'[g] : j \in adding[g] \/ (g = c.g /\ j = i)
    BY <1>4, <1>9 DEF Starts
  <2>2. Adder(d, c.g, i)
    BY <1>9 DEF Starts, Adder, AddPCs
  <2>3. QED
    BY <1>5, <1>9, <2>1, <2>2 DEF Adder
<1>10. CASE Tracks(c, d)
  <2>1. c.pc \notin AddPCs /\ c.g \in Gens
    BY <1>1, <1>10, WhereIs DEF Tracks, AddPCs
  <2>2. CASE adding' = adding
    BY <1>6, <2>1, <2>2
  <2>3. QED
    BY <1>9, <1>10, <2>1, <2>2 DEF Tracks
<1>11. CASE Initials(c, d)
  <2>1. c.pc \notin AddPCs /\ c.g \in Gens
    BY <1>1, <1>11, WhereIs DEF Initials, AddPCs
  <2>2. CASE adding' = adding
    BY <1>6, <2>1, <2>2
  <2>3. QED
    BY <1>9, <1>11, <2>1, <2>2 DEF Initials
<1>12. CASE Untracks(c, d)
  <2>1. c.pc \notin AddPCs
    BY <1>12 DEF Untracks, AddPCs
  <2>2. \A g \in Gens : adding'[g] \subseteq adding[g]
    BY <1>4, <1>12 DEF Untracks, TakesOut
  <2>3. QED
    BY <1>6, <2>1, <2>2
<1>13. CASE Finals(c, d)
  <2>1. c.g \in Gens
    BY <1>1, <1>13, WhereIs
  <2>2. \A g \in Gens : \A i \in adding'[g] : i \in adding[g] /\ ~ (g = c.g /\ i = c.i)
    BY <1>4, <1>13, <2>1 DEF Finals
  <2>3. QED
    BY <1>5, <2>2 DEF Adder
<1>14. CASE Opens(t, d) \/ Puts(c, d) \/ Closes(c, d) \/ Locks(c, d)
  <2>1. c.pc \notin AddPCs /\ adding' = adding
    BY <1>1, <1>14, IdleIs DEF Opens, Puts, Closes, Locks, SameLists, AddPCs
  <2>2. QED
    BY <1>6, <2>1
<1>15. QED
  BY <1>1, <1>7, <1>8, <1>10, <1>11, <1>12, <1>13, <1>14 DEF Acts
-----------------------------------------------------------------------------
(* No service is lost. *)

LEMMA CoveredKeeps ==
    ASSUME NEW t \in Threads, NEW d, Turn(t, d), NEW g, NEW i, Covered(g, i),
           tracked[g][i] # 0 \/ i \in adding[g] \/ i \in initial[g] => Covered(g, i)',
           Brings(role[t], g, i) => Covered(g, i)'
    PROVE  Covered(g, i)'
<1>1. role'[t] = d /\ \A u \in Threads : u # t => role'[u] = role[u]
  BY DEF Turn
<1>2. CASE \E u \in Threads : Brings(role[u], g, i)
  <2>1. PICK u \in Threads : Brings(role[u], g, i)
    BY <1>2
  <2>2. CASE u = t
    BY <2>1, <2>2
  <2>3. CASE u # t
    BY <1>1, <2>1, <2>3 DEF Covered
  <2>4. QED
    BY <2>2, <2>3
<1>3. QED
  BY <1>2 DEF Covered

LEMMA LivingIs == \A g : (g \in Living <=> Live(g)) /\ (g \in Living' <=> Live(g)')
BY DEF Living, Live

LEMMA RetractQuiet ==
    ASSUME RetractInv, NEW t \in Threads, NEW d, Turn(t, d), SameServices, Living' \subseteq Living,
           Retracts(d) /\ d.g \in Living => (Retracts(role[t]) /\ role[t].i = d.i /\ role[t].g = d.g) \/ d.i \notin matching
    PROVE  RetractInv'
<1>1. role'[t] = d /\ \A u \in Threads : u # t => role'[u] = role[u]
  BY DEF Turn
<1>2. UNCHANGED <<state, matching, raced>>
  BY DEF SameServices
<1>3. ASSUME NEW u \in Threads, Retracts(role'[u]), role'[u].g \in Living' PROVE role'[u].i \notin matching' \ raced'
  <2>1. role'[u].g \in Living
    BY <1>3
  <2>2. CASE u = t
    BY <1>1, <1>2, <1>3, <2>1, <2>2 DEF RetractInv
  <2>3. CASE u # t
    BY <1>1, <1>2, <1>3, <2>1, <2>3 DEF RetractInv
  <2>4. QED
    BY <2>2, <2>3
<1>4. QED
  BY <1>3 DEF RetractInv

LEMMA AfterRetract ==
    ASSUME NEW c, NEW d, After(c, d) PROVE ~ Retracts(d)
BY IdleIs DEF After, Retracts

LEMMA ServicesRetract ==
    ASSUME IInv, RoleInv, EventInv, OpenInv, RetractInv, NEW t \in Threads, NEW d, Turn(t, d), Services(t, d)
    PROVE  RetractInv'
<1>1. PICK c : c = role[t]
  OBVIOUS
<1>2. CallsInv /\ CallOK(c) /\ Shape(c)
  BY <1>1, TurnIs DEF IInv
<1>3. role'[t] = d /\ \A u \in Threads : u # t => role'[u] = role[u]
  BY DEF Turn
<1>4. Living' \subseteq Living
  BY ServicesOpen, OpenQuiet, LivingIs
<1>5. ~ Retracts(d)
  <2>1. CASE d = Idle
    BY <2>1, IdleIs DEF Retracts
  <2>2. CASE d.ev = "none"
    BY <2>2 DEF Retracts
  <2>3. CASE c.pc = "setProps" /\ Onto(c, d, "notify")
    BY <1>2, <2>3 DEF Onto, Shape, Retracts
  <2>4. QED
    BY <1>1, <2>1, <2>2, <2>3 DEF Services, Changes
<1>6. ASSUME NEW u \in Threads, Retracts(role'[u]), role'[u].g \in Living' PROVE role'[u].i \notin matching' \ raced'
  <2>1. u # t /\ role'[u] = role[u] /\ Retracts(role[u]) /\ role[u].g \in Living
    BY <1>3, <1>4, <1>5, <1>6
  <2>2. role[u].i \notin matching \ raced /\ role[u].i \in Items /\ role[u].from = "modify"
    BY <1>2, <2>1, RoleIs DEF RetractInv, Retracts, Events
  <2>3. About(role[u], role[u].i)
    BY <2>2 DEF About, Events
  <2>4. raced \subseteq raced'
    BY DEF Services, Changes
  <2>5. CASE matching' \subseteq matching
    BY <2>1, <2>2, <2>4, <2>5
  <2>6. ASSUME NEW i \in Items, Changes(t, i, d), matching' = matching \cup {i} PROVE role'[u].i \notin matching' \ raced'
    <3>1. role[u].i = i => i \in raced'
      BY <2>3, <2>6 DEF Changes
    <3>2. QED
      BY <2>1, <2>2, <2>4, <2>6, <3>1
  <2>7. ASSUME c.pc = "setProps", raced' = raced, matching' = matching \cup {c.i} PROVE role'[u].i \notin matching' \ raced'
    <3>1. About(c, c.i) /\ c.i \in Items
      BY <1>1, <1>2, <2>7, RoleIs DEF About, CallOK, EventPCs
    <3>2. role[u].i = c.i => c.i \in raced
      BY <1>1, <2>1, <2>3, <3>1 DEF EventInv
    <3>3. QED
      BY <2>1, <2>2, <2>7, <3>2
  <2>8. \/ matching' \subseteq matching
        \/ \E i \in Items : Changes(t, i, d) /\ matching' = matching \cup {i}
        \/ c.pc = "setProps" /\ raced' = raced /\ matching' = matching \cup {c.i}
    BY <1>1 DEF Services
  <2>9. QED
    BY <2>5, <2>6, <2>7, <2>8
<1>7. QED
  BY <1>6 DEF RetractInv

LEMMA RetractKeeps ==
    ASSUME IInv, IInv', RoleInv, EventInv, OpenInv, FreshInv, RetractInv, NEW t \in Threads, NEW d, Turn(t, d), Acts(t, d)
    PROVE  RetractInv'
<1>1. PICK c : c = role[t]
  OBVIOUS
<1>2. CallsInv /\ StateInv /\ CallOK(c) /\ Shape(c) /\ c \in CallType
  BY <1>1, TurnIs DEF IInv
<1>3. role'[t] = d /\ \A u \in Threads : u # t => role'[u] = role[u]
  BY DEF Turn
<1>4. CASE Services(t, d)
  BY <1>4, ServicesRetract
<1>5. CASE Opens(t, d)
  <2>1. \A g \in Living' : g = opened + 1
    BY <1>5, OpensOpen, LivingIs
  <2>2. \A u \in Threads : role[u].g \in Nat /\ role[u].g <= opened /\ opened \in Nat
    BY <1>2, RoleIs, TrackerAssumption DEF FreshInv, StateInv
  <2>3. ~ Retracts(d)
    BY <1>5 DEF Opens, Retracts
  <2>4. \A u \in Threads : Retracts(role'[u]) => role'[u].g # opened + 1
    BY <1>3, <2>2, <2>3
  <2>5. QED
    BY <2>1, <2>4 DEF RetractInv
<1>6. CASE ~ Services(t, d) /\ ~ Opens(t, d)
  <2>1. SameServices
    BY <1>1, <1>2, <1>6, PlainEvent, OtherEvent DEF Acts
  <2>2. Living' \subseteq Living
    BY <1>6, OpenInvKeeps, LivingIs
  <2>3. ASSUME Retracts(d), d.g \in Living PROVE (Retracts(c) /\ c.i = d.i /\ c.g = d.g) \/ d.i \notin matching
    <3>1. ~ After(c, d)
      BY <2>3, AfterRetract
    <3>2. CASE \E l : Onto(c, d, l)
      BY <2>3, <3>2 DEF Onto, Retracts
    <3>3. CASE Notifies(c, d)
      <4>1. listener # 0
        BY <2>3, LiveListens, LivingIs
      <4>2. QED
        BY <2>3, <3>1, <3>3, <4>1 DEF Notifies, Retracts
    <3>4. d # Idle
      BY <2>3, IdleIs DEF Retracts
    <3>5. CASE \/ Looks(c, d) \/ Loads(c, d) \/ Waits(c, d) \/ Refs(c, d) \/ Eachs(c, d) \/ Removes(c, d)
      <4>1. Looks(c, d) => c.from = "none"
        BY <1>2, PlainIs DEF Looks, OpenPCs
      <4>2. QED
        BY <2>3, <3>4, <3>5, <4>1 DEF Looks, Loads, Waits, Refs, Eachs, Removes, Retracts
    <3>6. CASE Plain(c, d)
      BY <3>1, <3>2, <3>3, <3>4, <3>5, <3>6 DEF Plain, Throws
    <3>7. CASE Tracks(c, d)
      <4>1. CASE Starts(c, d, c.g, c.i, c.from)
        BY <2>3, <4>1 DEF Starts, Retracts
      <4>2. QED
        BY <3>1, <3>2, <3>7, <4>1 DEF Tracks
    <3>8. CASE Untracks(c, d) \/ Finals(c, d)
      BY <3>1, <3>2, <3>4, <3>8 DEF Untracks, Finals
    <3>9. CASE Puts(c, d) \/ Initials(c, d) \/ Closes(c, d) \/ Locks(c, d)
      <4>1. Puts(c, d) \/ Initials(c, d) => c.from = "none"
        BY <1>2, PlainIs DEF Puts, Initials, OpenPCs
      <4>2. d.from \in {"none", "initial"}
        BY <3>4, <3>9, <4>1 DEF Puts, Initials, Starts, Closes, Locks
      <4>3. QED
        BY <2>3, <4>2 DEF Retracts
    <3>10. QED
      BY <1>1, <1>6, <3>6, <3>7, <3>8, <3>9 DEF Acts
  <2>4. QED
    BY <1>1, <2>1, <2>2, <2>3, RetractQuiet
<1>7. QED
  BY <1>4, <1>5, <1>6

\* Where a generation gets a service from, after a step that changes none of them.
LEMMA PlainCovers ==
    ASSUME IInv, OpenInv, NEW t \in Threads, NEW c, c = role[t], NEW d, Turn(t, d), CallOK(c), Shape(c), Plain(c, d),
           NEW g, Live(g), NEW i, Listed(i), Brings(c, g, i)
    PROVE  Brings(d, g, i)
<1>1. listener = g /\ g # 0 /\ g \notin closed
  BY LiveListens
<1>2. state[i] = "listed" /\ i \in matching
  BY DEF Listed
<1>3. CASE c.pc = "notify" /\ Notifies(c, d)
  <2>1. About(c, i) /\ c.from # "unregister"
    BY <1>3 DEF Brings
  <2>2. c.i \in matching /\ listener # 0
    BY <1>1, <1>2, <2>1 DEF About
  <2>3. d.pc = "countUp" /\ d.from = c.from /\ d.i = c.i /\ d.g = g /\ d.ev = "track"
    BY <1>1, <1>3, <2>1, <2>2 DEF Notifies
  <2>4. QED
    BY <2>1, <2>3 DEF Brings, About
<1>4. CASE c.pc \in {"countUp", "check"} /\ (Onto(c, d, "check") \/ Onto(c, d, c.ev))
  <2>1. About(c, i) /\ c.ev = "track" /\ c.g = g
    BY <1>4 DEF Brings
  <2>2. About(d, i) /\ d.ev = "track" /\ d.g = g /\ d.pc \in {"check", "track"}
    BY <1>4, <2>1 DEF Onto, About
  <2>3. QED
    BY <2>2 DEF Brings
<1>5. CASE c.pc = "check" /\ (c.g \in closed \/ state[c.i] = "gone") /\ After(c, d)
  <2>1. c.i = i /\ c.g = g
    BY <1>5 DEF Brings, About
  <2>2. QED
    BY <1>1, <1>2, <1>5, <2>1
<1>6. CASE Looks(c, d)
  <2>1. c.g = g
    BY <1>6 DEF Looks, Brings
  <2>2. QED
    BY <1>2, <1>6, <2>1 DEF Looks, Brings
<1>7. CASE c.pc \in {"modified", "removing", "adding"} \/ Loads(c, d) \/ Waits(c, d) \/ Refs(c, d) \/ Eachs(c, d) \/ Removes(c, d)
  <2>1. c.pc \in {"modified", "removing", "adding", "closeLoad", "closeWait", "closeRefs", "closeEach", "idle"}
    BY <1>7, IdleIs DEF Loads, Waits, Refs, Eachs, Removes
  <2>2. QED
    BY <2>1 DEF Brings
<1>8. QED
  BY <1>3, <1>4, <1>5, <1>6, <1>7 DEF Plain, Throws

LEMMA CoveredBy ==
    ASSUME NEW t \in Threads, NEW d, Turn(t, d), NEW g, NEW i, Brings(d, g, i)
    PROVE  Covered(g, i)'
BY DEF Turn, Covered

\* A service is listed and its generation open: nothing but a refusal takes it away.
LEMMA UntracksCovers ==
    ASSUME IInv, RoleInv, EventInv, OpenInv, RetractInv, NEW t \in Threads, NEW c, c = role[t], NEW d, Turn(t, d), Untracks(c, d),
           NEW g \in Living, NEW i \in Items \ raced, Listed(i), <<g, i>> \notin refused', Covered(g, i)
    PROVE  Covered(g, i)'
<1>1. CallsInv /\ StateInv /\ CallOK(c) /\ Shape(c) /\ c \in CallType /\ c.pc = "untrack"
  BY TurnIs DEF IInv, Untracks
<1>2. c.g \in Gens /\ c.i \in Items /\ g \in Gens /\ i \in Items
  BY <1>1, WhereIs DEF Untracks, OpenPCs, Living
<1>3. /\ initial \in [Gens -> SUBSET Items] /\ adding \in [Gens -> SUBSET Items]
      /\ tracked \in [Gens -> [Items -> 0 .. MaxObjects]]
  BY <1>1 DEF StateInv
<1>4. ~ Brings(c, g, i)
  BY <1>1 DEF Brings
<1>5. ~ (g = c.g /\ i = c.i)
  <2>1. SUFFICES ASSUME g = c.g, i = c.i PROVE FALSE
    OBVIOUS
  <2>2. Live(g) /\ g \notin closed
    BY LivingIs, LiveListens
  <2>3. c.from # "remove"
    BY <2>1 DEF Untracks
  <2>4. c.from # "close"
    BY <1>1, <2>1, <2>2 DEF OpenInv, Committed, Closer
  <2>5. c.from \in Events
    BY <1>1, <2>3, <2>4 DEF Shape, CallType, Froms, OpenPCs, ClosePCs, AddPCs
  <2>6. c.ev = "untrack"
    BY <1>1, <2>5 DEF Shape
  <2>7. c.from # "unregister"
    BY <2>1 DEF EventInv, Listed
  <2>8. c.from # "register"
    BY <1>1, <2>6 DEF Shape
  <2>9. Retracts(c)
    BY <2>5, <2>6, <2>7, <2>8 DEF Retracts, Events
  <2>10. i \notin matching
    BY <2>1, <2>9 DEF RetractInv
  <2>11. QED
    BY <2>10 DEF Listed
<1>6. (tracked'[g][i] = tracked[g][i]) /\ (i \in adding'[g] <=> i \in adding[g]) /\ (i \in initial'[g] <=> i \in initial[g])
  BY <1>2, <1>3, <1>5 DEF Untracks, TakesOut
<1>7. QED
  BY <1>4, <1>6, CoveredKeeps DEF Covered

LEMMA FinalsCovers ==
    ASSUME IInv, RoleInv, OpenInv, NEW t \in Threads, NEW c, c = role[t], NEW d, Turn(t, d), Finals(c, d),
           NEW g \in Living, NEW i \in Items, <<g, i>> \notin refused', <<g, i>> \notin refused => Covered(g, i)
    PROVE  Covered(g, i)'
<1>1. CallsInv /\ StateInv /\ c.pc \in {"final", "threw"}
  BY DEF IInv, Finals
<1>2. c.g \in Gens /\ c.i \in Items /\ g \in Gens /\ g \notin closed
  BY <1>1, WhereIs, LivingIs, LiveListens DEF Finals, OpenPCs, Living
<1>3. /\ initial \in [Gens -> SUBSET Items] /\ adding \in [Gens -> SUBSET Items]
      /\ tracked \in [Gens -> [Items -> 0 .. MaxObjects]]
  BY <1>1 DEF StateInv
<1>4. ~ Brings(c, g, i)
  BY <1>1 DEF Brings
<1>5. CASE g = c.g /\ i = c.i
  <2>1. CASE \E o : o # 0 /\ tracked' = [tracked EXCEPT ![c.g][c.i] = o]
    <3>1. tracked'[g][i] # 0
      BY <1>2, <1>3, <1>5, <2>1
    <3>2. QED
      BY <3>1 DEF Covered
  <2>2. CASE c.i \notin adding[c.g] /\ tracked' = tracked /\ refused' = refused
    <3>1. tracked' = tracked /\ initial' = initial /\ i \notin adding[g] /\ Covered(g, i)
      BY <1>5, <2>2 DEF Finals
    <3>2. tracked[g][i] # 0 \/ i \in initial[g] => Covered(g, i)'
      BY <3>1 DEF Covered
    <3>3. QED
      BY <1>4, <3>1, <3>2, CoveredKeeps
  <2>3. \/ \E o : o # 0 /\ tracked' = [tracked EXCEPT ![c.g][c.i] = o]
        \/ (c.i \notin adding[c.g] \/ c.g \in closed) /\ tracked' = tracked /\ refused' = refused
        \/ refused' = refused \cup {<<c.g, c.i>>}
    BY DEF Finals
  <2>4. refused' # refused \cup {<<c.g, c.i>>}
    BY <1>5
  <2>5. QED
    BY <1>2, <1>5, <2>1, <2>2, <2>3, <2>4
<1>6. CASE ~ (g = c.g /\ i = c.i)
  <2>1. <<g, i>> \notin refused
    BY <1>6 DEF Finals
  <2>2. initial' = initial /\ (i \in adding'[g] <=> i \in adding[g])
    BY <1>2, <1>3, <1>6 DEF Finals
  <2>3. tracked'[g][i] = tracked[g][i]
    <3>1. tracked' = tracked \/ \E o : tracked' = [tracked EXCEPT ![c.g][c.i] = o]
      BY DEF Finals
    <3>2. ASSUME NEW o, tracked' = [tracked EXCEPT ![c.g][c.i] = o] PROVE tracked'[g][i] = tracked[g][i]
      <4>1. CASE g = c.g
        BY <1>2, <1>3, <1>6, <3>2, <4>1
      <4>2. CASE g # c.g
        BY <1>2, <1>3, <3>2, <4>2
      <4>3. QED
        BY <4>1, <4>2
    <3>3. QED
      BY <3>1, <3>2
  <2>4. Covered(g, i)
    BY <2>1
  <2>5. QED
    BY <1>4, <2>2, <2>3, <2>4, CoveredKeeps DEF Covered
<1>7. QED
  BY <1>5, <1>6

LEMMA TracksCovers ==
    ASSUME IInv, RoleInv, OpenInv, NEW t \in Threads, NEW c, c = role[t], NEW d, Turn(t, d), Tracks(c, d),
           NEW g \in Living, NEW i \in Items, Covered(g, i)
    PROVE  Covered(g, i)'
<1>1. StateInv /\ c.pc = "track"
  BY DEF IInv, Tracks
<1>2. c.g \in Gens /\ c.i \in Items /\ g \in Gens /\ g \notin closed
  BY <1>1, WhereIs, LivingIs, LiveListens DEF OpenPCs, Living
<1>3. adding \in [Gens -> SUBSET Items]
  BY <1>1 DEF StateInv
<1>4. tracked' = tracked /\ initial' = initial /\ adding[g] \subseteq adding'[g]
  BY <1>2, <1>3 DEF Tracks, Starts
<1>5. tracked[g][i] # 0 \/ i \in adding[g] \/ i \in initial[g] => Covered(g, i)'
  BY <1>4 DEF Covered
<1>6. ASSUME Brings(c, g, i) PROVE Covered(g, i)'
  <2>1. c.g = g /\ c.i = i
    BY <1>1, <1>6 DEF Brings, About
  <2>2. tracked[g][i] # 0 \/ i \in adding'[g]
    BY <1>2, <1>3, <2>1 DEF Tracks, Starts
  <2>3. QED
    BY <1>4, <2>2 DEF Covered
<1>7. QED
  BY <1>5, <1>6, CoveredKeeps

LEMMA InitialsCovers ==
    ASSUME IInv, RoleInv, NEW t \in Threads, NEW c, c = role[t], NEW d, Turn(t, d), Initials(c, d),
           NEW g \in Living, NEW i \in Items, Covered(g, i)
    PROVE  Covered(g, i)'
<1>1. StateInv /\ c.pc = "initial" /\ tracked' = tracked
  BY DEF IInv, Initials
<1>2. c.g \in Gens /\ g \in Gens
  BY WhereIs DEF Living
<1>3. adding \in [Gens -> SUBSET Items] /\ initial \in [Gens -> SUBSET Items]
  BY <1>1 DEF StateInv
<1>4. ~ Brings(c, g, i)
  BY <1>1 DEF Brings
<1>5. adding[g] \subseteq adding'[g]
  BY <1>2, <1>3 DEF Initials, Starts
<1>6. ASSUME i \in initial[g] PROVE i \in initial'[g] \/ i \in adding'[g] \/ tracked[g][i] # 0
  <2>1. CASE initial' = initial
    BY <1>6, <2>1
  <2>2. ASSUME NEW j \in initial[c.g], initial' = [initial EXCEPT ![c.g] = @ \ {j}],
               tracked[c.g][j] # 0 \/ j \in adding'[c.g]
        PROVE  i \in initial'[g] \/ i \in adding'[g] \/ tracked[g][i] # 0
    BY <1>2, <1>3, <1>6, <2>2
  <2>3. initial' = initial \/ \E j \in initial[c.g] : /\ initial' = [initial EXCEPT ![c.g] = @ \ {j}]
                                                      /\ tracked[c.g][j] # 0 \/ j \in adding'[c.g]
    BY <1>2, <1>3 DEF Initials, Starts
  <2>4. QED
    BY <2>1, <2>2, <2>3
<1>7. tracked[g][i] # 0 \/ i \in adding[g] \/ i \in initial[g] => Covered(g, i)'
  BY <1>1, <1>5, <1>6 DEF Covered
<1>8. QED
  BY <1>4, <1>7, CoveredKeeps

LEMMA PutsCovers ==
    ASSUME IInv, RoleInv, FreshInv, NEW t \in Threads, NEW c, c = role[t], NEW d, Turn(t, d), Puts(c, d),
           NEW g \in Gens, NEW i \in Items, Covered(g, i)
    PROVE  Covered(g, i)'
<1>1. StateInv /\ c.pc = "setInitial" /\ tracked' = tracked /\ adding' = adding /\ initial' = [initial EXCEPT ![c.g] = c.refs]
  BY DEF IInv, Puts
<1>2. initial \in [Gens -> SUBSET Items]
  BY <1>1 DEF StateInv
<1>3. initial[c.g] = {}
  BY <1>1 DEF FreshInv, Looking
<1>4. i \in initial[g] => i \in initial'[g]
  BY <1>1, <1>2, <1>3
<1>5. tracked[g][i] # 0 \/ i \in adding[g] \/ i \in initial[g] => Covered(g, i)'
  BY <1>1, <1>4 DEF Covered
<1>6. ASSUME Brings(c, g, i) PROVE i \in initial'[g]
  BY <1>1, <1>2, <1>6 DEF Brings
<1>7. QED
  BY <1>5, <1>6, CoveredKeeps DEF Covered

LEMMA ServicesCovers ==
    ASSUME IInv, RoleInv, NEW t \in Threads, NEW d, Turn(t, d), Services(t, d), LostInv,
           NEW g \in Living, NEW i \in Items \ raced', Listed(i)', <<g, i>> \notin refused'
    PROVE  Covered(g, i)'
<1>1. PICK c : c = role[t]
  OBVIOUS
<1>2. CallsInv /\ StateInv /\ CallOK(c) /\ Shape(c)
  BY <1>1, TurnIs DEF IInv
<1>3. /\ SameLists /\ raced \subseteq raced'
      /\ c.pc \in {"idle", "setProps", "gone"}
  BY <1>1, IdleIs DEF Services, Changes
<1>4. ~ Brings(c, g, i) /\ <<g, i>> \notin refused /\ i \in Items \ raced
  BY <1>3 DEF Brings, SameLists
<1>5. state'[i] = "listed" /\ i \in matching'
  BY DEF Listed
<1>6. ASSUME Listed(i) PROVE Covered(g, i)'
  <2>1. Covered(g, i)
    BY <1>4, <1>6 DEF LostInv
  <2>2. QED
    BY <1>1, <1>3, <1>4, <2>1, CoveredKeeps DEF Covered, SameLists
<1>7. state \in [Items -> {"new", "listed", "unlisted", "gone"}]
  BY <1>2 DEF StateInv
<1>8. CASE \E j \in Items : /\ Changes(t, j, d) /\ d.pc = "notify" /\ d.from = "register"
                            /\ state' = [state EXCEPT ![j] = "listed"] /\ matching' \in {matching, matching \cup {j}}
  <2>1. PICK j \in Items : /\ Changes(t, j, d) /\ d.pc = "notify" /\ d.from = "register"
                           /\ state' = [state EXCEPT ![j] = "listed"] /\ matching' \in {matching, matching \cup {j}}
    BY <1>8
  <2>2. CASE i = j
    <3>1. Brings(d, g, i)
      BY <2>1, <2>2 DEF Brings, About, Changes, Events
    <3>2. QED
      BY <3>1, CoveredBy
  <2>3. CASE i # j
    BY <1>5, <1>6, <1>7, <2>1, <2>3 DEF Listed
  <2>4. QED
    BY <2>2, <2>3
<1>9. CASE \E j \in Items : /\ state[j] = "listed" /\ state' = [state EXCEPT ![j] = "unlisted"] /\ matching' = matching
  BY <1>5, <1>6, <1>7, <1>9 DEF Listed
<1>10. CASE state' = state /\ matching' = matching
  BY <1>5, <1>6, <1>10 DEF Listed
<1>11. CASE /\ c.pc = "setProps" /\ state' = state /\ matching' \in {matching \ {c.i}, matching \cup {c.i}}
            /\ Onto(c, d, "notify")
  <2>1. CASE i = c.i
    <3>1. c.from \in Events /\ c.from # "unregister"
      BY <1>2, <1>11 DEF CallOK, Shape, EventPCs
    <3>2. Brings(d, g, i)
      BY <1>11, <2>1, <3>1 DEF Onto, Brings, About
    <3>3. QED
      BY <3>2, CoveredBy
  <2>2. CASE i # c.i
    BY <1>5, <1>6, <1>11, <2>2 DEF Listed
  <2>3. QED
    BY <2>1, <2>2
<1>12. CASE c.pc = "gone" /\ state' = [state EXCEPT ![c.i] = "gone"] /\ matching' = matching
  BY <1>5, <1>6, <1>7, <1>12 DEF Listed
<1>13. QED
  BY <1>1, <1>8, <1>9, <1>10, <1>11, <1>12 DEF Services

LEMMA LostKeeps ==
    ASSUME IInv, IInv', RoleInv, EventInv, OpenInv, FreshInv, RetractInv, LostInv,
           NEW t \in Threads, NEW d, Turn(t, d), Acts(t, d)
    PROVE  LostInv'
<1>1. PICK c : c = role[t]
  OBVIOUS
<1>2. CallsInv /\ CallOK(c) /\ Shape(c) /\ c \in CallType
  BY <1>1, TurnIs DEF IInv
<1>3. SUFFICES ASSUME NEW g \in Living', NEW i \in Items \ raced', Listed(i)', <<g, i>> \notin refused'
               PROVE  Covered(g, i)'
  BY DEF LostInv
<1>4. CASE Opens(t, d)
  <2>1. Brings(d, g, i)
    BY <1>3, <1>4, OpensOpen, LivingIs DEF Opens, Brings
  <2>2. QED
    BY <2>1, CoveredBy
<1>5. CASE ~ Opens(t, d)
  <2>1. g \in Living
    BY <1>3, <1>5, OpenInvKeeps, LivingIs
  <2>2. CASE Services(t, d)
    BY <1>3, <2>1, <2>2, ServicesCovers
  <2>3. CASE ~ Services(t, d)
    <3>1. SameServices
      BY <1>1, <1>2, <1>5, <2>3, PlainEvent, OtherEvent DEF Acts
    <3>2. Listed(i) /\ i \in Items \ raced
      BY <1>3, <3>1 DEF Listed, SameServices
    <3>3. <<g, i>> \notin refused => Covered(g, i)
      BY <2>1, <3>2 DEF LostInv
    <3>4. CASE Finals(c, d)
      BY <1>1, <1>3, <2>1, <3>3, <3>4, FinalsCovers
    <3>5. CASE Untracks(c, d)
      <4>1. <<g, i>> \notin refused
        BY <1>3, <3>5 DEF Untracks
      <4>2. QED
        BY <1>1, <1>3, <2>1, <3>2, <3>3, <3>5, <4>1, UntracksCovers
    <3>6. CASE Tracks(c, d)
      BY <1>1, <1>3, <2>1, <3>3, <3>6, TracksCovers DEF Tracks
    <3>7. CASE Initials(c, d)
      BY <1>1, <1>3, <2>1, <3>3, <3>7, InitialsCovers DEF Initials
    <3>8. CASE Puts(c, d)
      <4>1. g \in Gens
        BY <2>1 DEF Living
      <4>2. QED
        BY <1>1, <1>3, <3>3, <3>8, <4>1, PutsCovers DEF Puts
    <3>9. CASE Plain(c, d)
      <4>1. SameLists /\ Covered(g, i) /\ Live(g)
        BY <1>3, <2>1, <3>3, <3>9, LivingIs DEF Plain, Kept, SameLists
      <4>2. Brings(c, g, i) => Covered(g, i)'
        BY <1>1, <1>2, <3>2, <3>9, <4>1, PlainCovers, CoveredBy
      <4>3. tracked[g][i] # 0 \/ i \in adding[g] \/ i \in initial[g] => Covered(g, i)'
        BY <4>1 DEF Covered, SameLists
      <4>4. QED
        BY <1>1, <4>1, <4>2, <4>3, CoveredKeeps
    <3>10. CASE Closes(c, d)
      BY <1>1, <1>2, <1>3, <3>10, ClosesOpen, LivingIs DEF Live
    <3>11. CASE Locks(c, d)
      BY <1>1, <1>3, <3>11, LocksOpen, LivingIs
    <3>12. QED
      BY <1>1, <1>5, <2>3, <3>4, <3>5, <3>6, <3>7, <3>8, <3>9, <3>10, <3>11 DEF Acts
  <2>4. QED
    BY <2>2, <2>3
<1>6. QED
  BY <1>4, <1>5

\* What NoServiceLost needs.
LosesInv == RoleInv /\ EventInv /\ OpenInv /\ FreshInv /\ AddersInv /\ RetractInv /\ LostInv

LEMMA LosesStill ==
    ASSUME LosesInv, Kept, role' = role PROVE EventInv' /\ OpenInv' /\ FreshInv' /\ AddersInv' /\ RetractInv' /\ LostInv'
<1>1. UNCHANGED <<state, matching, raced, listener, current, opened, closed, overlap, dOwner, initial, adding, tracked, refused>>
  BY DEF Kept, SameServices, SameTracker, SameLists
<1>2. EventInv'
  BY <1>1 DEF LosesInv, EventInv
<1>3. OpenInv' /\ (Dying' <=> Dying)
  BY <1>1 DEF LosesInv, OpenInv, Dying
<1>4. FreshInv'
  BY <1>1 DEF LosesInv, FreshInv, TrackedIn
<1>5. AddersInv'
  BY <1>1 DEF LosesInv, AddersInv
<1>6. Living' = Living
  BY <1>1, <1>3 DEF Living, Live
<1>7. RetractInv'
  BY <1>1, <1>6 DEF LosesInv, RetractInv
<1>8. LostInv'
  BY <1>1, <1>6 DEF LosesInv, LostInv, Listed, Covered
<1>9. QED
  BY <1>2, <1>3, <1>4, <1>5, <1>7, <1>8

LEMMA StepIs ==
    ASSUME IInv, IInv', RoleInv, [Next]_vars
    PROVE  RoleInv' /\ ((Kept /\ role' = role) \/ \E t \in Threads : \E d : Turn(t, d) /\ Acts(t, d))
<1>1. CASE UNCHANGED vars
  <2>1. Kept /\ call' = call
    BY <1>1 DEF vars, Kept, SameServices, SameTracker, SameLists, services, lists, history
  <2>2. role' = role
    BY <2>1 DEF role
  <2>3. QED
    BY <2>1, <2>2 DEF RoleInv
<1>2. CASE Next
  BY <1>2, StepTurn
<1>3. QED
  BY <1>1, <1>2

LEMMA LosesKeeps ==
    ASSUME IInv, IInv', LosesInv, [Next]_vars PROVE LosesInv'
<1>1. RoleInv /\ EventInv /\ OpenInv /\ FreshInv /\ AddersInv /\ RetractInv /\ LostInv
  BY DEF LosesInv
<1>2. RoleInv' /\ ((Kept /\ role' = role) \/ \E t \in Threads : \E d : Turn(t, d) /\ Acts(t, d))
  BY <1>1, StepIs
<1>3. ASSUME NEW t \in Threads, NEW d, Turn(t, d), Acts(t, d) PROVE LosesInv'
  <2>1. EventInv' /\ OpenInv'
    BY <1>1, <1>3, EventKeeps, OpenInvKeeps
  <2>2. FreshInv' /\ AddersInv'
    BY <1>1, <1>3, FreshKeeps, AddersKeeps
  <2>3. RetractInv' /\ LostInv'
    BY <1>1, <1>3, RetractKeeps, LostKeeps
  <2>4. QED
    BY <1>2, <2>1, <2>2, <2>3 DEF LosesInv
<1>4. CASE Kept /\ role' = role
  BY <1>2, <1>4, LosesStill DEF LosesInv
<1>5. QED
  BY <1>2, <1>3, <1>4

LEMMA LosesInit == ASSUME Init PROVE LosesInv
<1>1. \A t \in Threads : role[t] = Idle
  BY IdleIs DEF Init, role, Role
<1>2. /\ state \in [Items -> {"new", "listed"}] /\ dOwner = {} /\ current = 0 /\ listener = 0 /\ opened = 0 /\ closed = {}
      /\ overlap = {} /\ adding = [g \in Gens |-> {}] /\ initial = [g \in Gens |-> {}] /\ tracked = [g \in Gens |-> Empty]
  BY DEF Init
<1>3. ~ Looking(Idle) /\ ~ Closer(Idle) /\ Idle.from = "none" /\ Idle.g = 0 /\ Idle.pc = "idle"
  BY IdleIs DEF Looking, Closer, ClosePCs
<1>4. RoleInv
  BY <1>1, ShapeIdle, IdleIs DEF RoleInv, Init, ReadPCs
<1>5. EventInv
  BY <1>1, <1>2, <1>3 DEF EventInv, About, Events
<1>6. OpenInv
  <2>1. \A t \in Threads : ~ Looking(role[t]) /\ ~ Committed(role[t]) /\ ~ Closer(role[t]) /\ dOwner # {t}
    BY <1>1, <1>2, <1>3 DEF Committed
  <2>2. QED
    BY <1>2, <2>1 DEF OpenInv
<1>7. FreshInv
  <2>1. \A g \in Gens : initial[g] = {} /\ adding[g] = {} /\ TrackedIn(g) = {}
    BY <1>2 DEF TrackedIn, Empty
  <2>2. QED
    BY <1>1, <1>2, <1>3, <2>1 DEF FreshInv
<1>8. AddersInv
  BY <1>2 DEF AddersInv
<1>9. RetractInv
  BY <1>1, <1>3 DEF RetractInv, Retracts
<1>10. Living = {}
  BY <1>1, <1>2, <1>3 DEF Living, Live, Gens
<1>11. QED
  BY <1>4, <1>5, <1>6, <1>7, <1>8, <1>9, <1>10 DEF LosesInv, LostInv

LEMMA QuietIs ==
    ASSUME IInv, RoleInv, Quiet, NEW t \in Threads PROVE role[t] = Idle
<1>1. CASE call[t].pc \in ReadPCs
  BY <1>1, RoleIs DEF IInv
<1>2. CASE call[t].pc = "idle"
  BY <1>2, HereIs DEF Shape, ReadPCs
<1>3. QED
  BY <1>1, <1>2 DEF Quiet

\* An open tracker loses no service, for any number of threads, services, generations and calls:
\* when no call is in progress, what is registered and matches is tracked, in whatever order the
\* initial references, the events, Remove and Close came (ServiceTracker::Open,
\* BundleAbstractTracked::TrackInitial, Track, Untrack).
THEOREM NoServiceIsLost == Spec => []NoServiceLost
<1>1. Init => LosesInv
  BY LosesInit
<1>2. IInv /\ IInv' /\ LosesInv /\ [Next]_vars => LosesInv'
  BY LosesKeeps
<1>3. IInv /\ LosesInv => NoServiceLost
  <2> SUFFICES ASSUME IInv, LosesInv, Quiet, Open_, NEW i \in matching \ (raced \cup initial[current]),
                      state[i] = "listed", <<current, i>> \notin refused
               PROVE  tracked[current][i] # 0
    BY DEF NoServiceLost
  <2>1. \A t \in Threads : role[t] = Idle
    BY QuietIs DEF LosesInv
  <2>2. current \in Gens /\ current \notin closed \cup overlap /\ i \in Items \ raced /\ Listed(i)
    BY TrackerAssumption DEF Open_, IInv, StateInv, Gens, Listed
  <2>3. ~ Dying
    BY <2>1, IdleIs DEF Dying
  <2>4. current \in Living
    BY <2>2, <2>3 DEF Living, Live
  <2>5. Covered(current, i)
    BY <2>2, <2>4 DEF LosesInv, LostInv
  <2>6. \A t \in Threads : ~ Brings(role[t], current, i) /\ ~ Adder(role[t], current, i)
    BY <2>1, IdleIs DEF Brings, Adder, About, AddPCs, Events
  <2>7. i \notin adding[current]
    BY <2>2, <2>6 DEF LosesInv, AddersInv
  <2>8. QED
    BY <2>5, <2>6, <2>7 DEF Covered
<1>4. QED
  BY <1>1, <1>2, <1>3, AlwaysIInv, PTL DEF Spec

-----------------------------------------------------------------------------
(* The initial references. *)

LEMMA OpenerIs ==
    ASSUME NEW t \in Threads, NEW c, c = role[t], NEW d, CallOK(c), Shape(c), Acts(t, d), ~ Opens(t, d)
    PROVE  /\ Opener(d) => Opener(c) /\ d.g = c.g
           /\ Opener(c) => \/ Opener(d) /\ d.g = c.g
                           \/ Initials(c, d) /\ (c.g \in closed \/ initial[c.g] = {})
                           \/ initial[c.g] \subseteq during'
<1>1. c \in CallType /\ ~ Opener(Idle)
  BY IdleIs DEF CallOK, Opener, OpenPCs
<1>2. ASSUME After(c, d) PROVE (Opener(d) => Opener(c) /\ d.g = c.g) /\ (c.from = "initial" => Opener(d) /\ d.g = c.g)
  BY <1>1, <1>2 DEF After, Opener, OpenPCs
<1>3. ASSUME NEW l, Onto(c, d, l), l \notin OpenPCs
      PROVE  (Opener(d) => Opener(c) /\ d.g = c.g) /\ (c.from = "initial" => Opener(d) /\ d.g = c.g)
  BY <1>3 DEF Onto, Opener
<1>4. CASE Services(t, d)
  <2>1. ~ Opener(c)
    BY <1>1, <1>4 DEF Services, Changes, Opener, OpenPCs, Shape, AddPCs
  <2>2. d = Idle \/ d.from \in Events \/ Onto(c, d, "notify")
    BY <1>4 DEF Services, Events
  <2>3. d.from \in Events => ~ Opener(d) \/ d.pc \in OpenPCs
    BY DEF Opener, Events
  <2>4. d = Idle \/ Onto(c, d, "notify") \/ d.pc \notin OpenPCs
    BY <1>4 DEF Services, OpenPCs
  <2>5. QED
    BY <1>1, <1>3, <2>1, <2>2, <2>3, <2>4 DEF OpenPCs
<1>5. CASE Plain(c, d)
  <2>1. CASE c.pc = "notify" /\ Notifies(c, d)
    <3>1. c.from \in Events
      BY <2>1 DEF CallOK, EventPCs
    <3>2. ~ Opener(c)
      BY <2>1, <3>1 DEF Opener, OpenPCs, Events
    <3>3. CASE After(c, d)
      BY <1>2, <3>2, <3>3
    <3>4. CASE d.pc = "countUp" /\ d.from = c.from
      BY <3>1, <3>2, <3>4 DEF Opener, OpenPCs, Events
    <3>5. QED
      BY <2>1, <3>3, <3>4 DEF Notifies
  <2>2. CASE c.pc \notin OpenPCs /\ After(c, d)
    BY <1>2, <2>2 DEF Opener
  <2>3. CASE c.pc \notin OpenPCs /\ \E l : l \notin OpenPCs /\ Onto(c, d, l)
    BY <1>3, <2>3 DEF Opener
  <2>4. CASE Looks(c, d)
    BY <2>4 DEF Looks, Opener, OpenPCs
  <2>5. CASE Loads(c, d) \/ Waits(c, d) \/ Refs(c, d) \/ Eachs(c, d) \/ Removes(c, d)
    <3>1. ~ Opener(d)
      BY <1>1, <2>5 DEF Loads, Waits, Refs, Eachs, Removes, Opener, OpenPCs
    <3>2. c.pc \in {"closeLoad", "closeWait", "closeRefs", "closeEach"} \/ c = Idle
      BY <2>5 DEF Loads, Waits, Refs, Eachs, Removes
    <3>3. ~ Opener(c)
      BY <1>1, <3>2 DEF Opener, OpenPCs, Shape, AddPCs
    <3>4. QED
      BY <3>1, <3>3
  <2>6. CASE Throws(c, d)
    <3>1. ~ Opener(d) /\ c.pc = "removing"
      BY <1>1, <2>6 DEF Throws
    <3>2. c.from = "initial" => initial[c.g] \subseteq during'
      BY <2>6 DEF Throws
    <3>3. QED
      BY <3>1, <3>2 DEF Opener, OpenPCs
  <2>7. QED
    BY <1>5, <2>1, <2>2, <2>3, <2>4, <2>5, <2>6 DEF Plain, OpenPCs
<1>6. CASE Tracks(c, d) \/ Untracks(c, d)
  <2>1. c.pc \in {"track", "untrack"} /\ c.from # "initial"
    BY <1>6 DEF Tracks, Untracks, Shape, AddPCs
  <2>2. ~ Opener(c)
    BY <2>1 DEF Opener, OpenPCs
  <2>3. CASE Starts(c, d, c.g, c.i, c.from)
    BY <2>1, <2>2, <2>3 DEF Starts, Opener, OpenPCs
  <2>4. After(c, d) \/ (\E l : l \notin OpenPCs /\ Onto(c, d, l)) \/ Starts(c, d, c.g, c.i, c.from)
    BY <1>6 DEF Tracks, Untracks, OpenPCs
  <2>5. QED
    BY <1>2, <1>3, <2>2, <2>3, <2>4
<1>7. CASE Finals(c, d)
  <2>1. c.pc \notin OpenPCs
    BY <1>7 DEF Finals, OpenPCs
  <2>2. After(c, d) \/ (\E l : l \notin OpenPCs /\ Onto(c, d, l)) \/ (d = Idle /\ during' = during \cup initial[c.g])
    BY <1>7 DEF Finals, OpenPCs
  <2>3. QED
    BY <1>1, <1>2, <1>3, <2>1, <2>2 DEF Opener
<1>8. CASE Puts(c, d)
  BY <1>8 DEF Puts, Opener, OpenPCs
<1>9. CASE Initials(c, d)
  <2>1. Opener(c)
    BY <1>9 DEF Initials, Opener, OpenPCs
  <2>2. \/ d = Idle /\ (c.g \in closed \/ initial[c.g] = {})
        \/ Opener(d) /\ d.g = c.g
    BY <1>9, <2>1 DEF Initials, Starts, Opener
  <2>3. QED
    BY <1>1, <1>9, <2>1, <2>2
<1>10. CASE Closes(c, d) \/ Locks(c, d)
  <2>1. ~ Opener(d)
    BY <1>1, <1>10 DEF Closes, Locks, Opener, OpenPCs
  <2>2. ~ Opener(c)
    BY <1>1, <1>10 DEF Closes, Locks, Opener, OpenPCs, Shape, AddPCs
  <2>3. QED
    BY <2>1, <2>2
<1>11. QED
  BY <1>4, <1>5, <1>6, <1>7, <1>8, <1>9, <1>10 DEF Acts

LEMMA DuringGrows ==
    ASSUME NEW t \in Threads, NEW d, Acts(t, d) PROVE during \subseteq during'
<1>1. CASE Services(t, d)
  BY <1>1 DEF Services, Changes
<1>2. CASE Plain(role[t], d)
  BY <1>2 DEF Plain, Kept
<1>3. CASE Tracks(role[t], d) \/ Untracks(role[t], d) \/ Puts(role[t], d) \/ Initials(role[t], d)
  BY <1>3 DEF Tracks, Untracks, Puts, Initials
<1>4. CASE Finals(role[t], d)
  <2>1. during' = during \/ during' = during \cup initial[role[t].g]
    BY <1>4 DEF Finals
  <2>2. QED
    BY <2>1
<1>5. CASE Closes(role[t], d) \/ Locks(role[t], d) \/ Opens(t, d)
  BY <1>5 DEF Closes, Locks, Opens
<1>6. QED
  BY <1>1, <1>2, <1>3, <1>4, <1>5 DEF Acts

\* While an Open is in progress, what changes is remembered.
LEMMA MeanwhileKeeps ==
    ASSUME IInv, RoleInv, MeanwhileInv, NEW t \in Threads, NEW d, Turn(t, d), Acts(t, d)
    PROVE  MeanwhileInv'
<1>1. PICK c : c = role[t]
  OBVIOUS
<1>2. CallsInv /\ CallOK(c) /\ Shape(c) /\ c \in CallType
  BY <1>1, TurnIs DEF IInv
<1>3. role'[t] = d /\ \A u \in Threads : u # t => role'[u] = role[u]
  BY DEF Turn
<1>4. SUFFICES ASSUME NEW u \in Threads, NEW v \in Threads, Opener(role'[u]), role'[v].from \in Events
               PROVE  role'[v].i \in during'
  BY DEF MeanwhileInv
<1>5. during \subseteq during'
  BY DuringGrows
<1>6. CASE Opens(t, d)
  <2>1. v # t /\ role'[v] = role[v]
    BY <1>3, <1>4, <1>6 DEF Opens, Events
  <2>2. About(role[v], role[v].i)
    BY <1>4, <2>1 DEF About
  <2>3. QED
    BY <1>6, <2>1, <2>2 DEF Opens
<1>7. CASE ~ Opens(t, d)
  <2>1. \E w \in Threads : Opener(role[w])
    BY <1>1, <1>2, <1>3, <1>4, <1>7, OpenerIs
  <2>2. CASE role[v].from \in Events /\ role[v].i = role'[v].i
    BY <1>5, <2>1, <2>2 DEF MeanwhileInv
  <2>3. CASE v # t
    BY <1>3, <1>4, <2>2, <2>3
  <2>4. CASE v = t /\ ~ Services(t, d)
    <3>1. SameEvent(c, d)
      BY <1>1, <1>2, <1>7, <2>4, PlainEvent, OtherEvent DEF Acts
    <3>2. QED
      BY <1>1, <1>3, <1>4, <2>2, <2>4, <3>1 DEF SameEvent
  <2>5. CASE v = t /\ Services(t, d)
    <3>1. CASE \E i \in Items : Changes(t, i, d)
      BY <1>3, <2>1, <2>5, <3>1 DEF Changes
    <3>2. CASE c.pc = "setProps" /\ Onto(c, d, "notify")
      BY <1>1, <1>3, <1>4, <2>2, <2>5, <3>2 DEF Onto
    <3>3. CASE d = Idle
      BY <1>3, <1>4, <2>5, <3>3, IdleIs DEF Events
    <3>4. QED
      BY <1>1, <2>5, <3>1, <3>2, <3>3 DEF Services
  <2>6. QED
    BY <2>3, <2>4, <2>5
<1>8. QED
  BY <1>6, <1>7

LEMMA ClosedGrows ==
    ASSUME NEW t \in Threads, NEW d, Acts(t, d) PROVE closed \subseteq closed'
<1>1. CASE SameTracker
  BY <1>1 DEF SameTracker
<1>2. CASE Opens(t, d) \/ Puts(role[t], d) \/ Closes(role[t], d) \/ Locks(role[t], d)
  <2>1. closed' = closed \/ closed' = closed \cup {role[t].g}
    BY <1>2, SMTT(60) DEF Opens, Puts, Closes, Locks
  <2>2. QED
    BY <2>1
<1>3. SameTracker \/ Opens(t, d) \/ Puts(role[t], d) \/ Closes(role[t], d) \/ Locks(role[t], d)
  BY DEF Acts, Services, Changes, Plain, Kept, Tracks, Untracks, Finals, Initials
<1>4. QED
  BY <1>1, <1>2, <1>3

\* What a thread adds on behalf of an event is in "during", so the other services stay untouched
\* but for those taken from the initial references.
LEMMA UntouchedKeeps ==
    ASSUME IInv, RoleInv, MeanwhileInv, NEW t \in Threads, NEW d, Turn(t, d), Acts(t, d),
           NEW g \in Gens, NEW i \in Items \ during, Untouched(g, i), g \in closed \/ \E u \in Threads : Opener(role[u])
    PROVE  Untouched(g, i)' \/ (i \in initial[g] /\ i \notin initial'[g])
<1>1. PICK c : c = role[t]
  OBVIOUS
<1>2. CallsInv /\ StateInv /\ CallOK(c) /\ Shape(c) /\ c \in CallType
  BY <1>1, TurnIs DEF IInv
<1>3. /\ initial \in [Gens -> SUBSET Items] /\ adding \in [Gens -> SUBSET Items]
      /\ tracked \in [Gens -> [Items -> 0 .. MaxObjects]]
  BY <1>2 DEF StateInv
<1>4. tracked[g][i] = 0 /\ i \notin adding[g] /\ i \in Items
  BY DEF Untouched
<1>5. CASE UNCHANGED <<adding, tracked>>
  BY <1>5 DEF Untouched
<1>6. CASE Tracks(c, d)
  <2>1. c.pc = "track" /\ tracked' = tracked /\ c.g \in Gens /\ c.i \in Items
    BY <1>1, <1>6, WhereIs DEF Tracks, OpenPCs
  <2>2. CASE c.g \notin closed /\ Starts(c, d, c.g, c.i, c.from)
    <3>1. c.from \in Events
      BY <1>2, <2>1 DEF Shape, CallType, Froms, OpenPCs, ClosePCs, AddPCs
    <3>2. c.g = g => c.i \in during
      BY <1>1, <2>2, <3>1 DEF MeanwhileInv
    <3>3. adding' = [adding EXCEPT ![c.g] = @ \cup {c.i}]
      BY <2>2 DEF Starts
    <3>4. i \notin adding'[g]
      BY <1>3, <1>4, <2>1, <3>2, <3>3
    <3>5. QED
      BY <1>4, <2>1, <3>4 DEF Untouched
  <2>3. QED
    BY <1>5, <1>6, <2>1, <2>2 DEF Tracks
<1>7. CASE Untracks(c, d)
  <2>1. c.g \in Gens /\ c.i \in Items
    BY <1>1, <1>7, WhereIs DEF Untracks, OpenPCs
  <2>2. /\ adding' = adding \/ adding' = [adding EXCEPT ![c.g] = @ \ {c.i}]
        /\ tracked' = tracked \/ tracked' = [tracked EXCEPT ![c.g][c.i] = 0]
    BY <1>7 DEF Untracks, TakesOut
  <2>3. i \notin adding'[g]
    BY <1>3, <1>4, <2>1, <2>2
  <2>4. tracked'[g][i] = 0
    <3>1. CASE g = c.g
      BY <1>3, <1>4, <2>1, <2>2, <3>1
    <3>2. CASE g # c.g
      BY <1>3, <1>4, <2>1, <2>2, <3>2
    <3>3. QED
      BY <3>1, <3>2
  <2>5. QED
    BY <2>3, <2>4 DEF Untouched
<1>8. CASE Finals(c, d)
  <2>1. c.g \in Gens /\ c.i \in Items /\ adding' = [adding EXCEPT ![c.g] = @ \ {c.i}]
    BY <1>1, <1>8, WhereIs DEF Finals, OpenPCs
  <2>2. i \notin adding'[g]
    BY <1>3, <1>4, <2>1
  <2>3. tracked' = tracked \/ (c.i \in adding[c.g] /\ \E o : tracked' = [tracked EXCEPT ![c.g][c.i] = o])
    BY <1>8 DEF Finals
  <2>4. ASSUME NEW o, c.i \in adding[c.g], tracked' = [tracked EXCEPT ![c.g][c.i] = o] PROVE tracked'[g][i] = 0
    <3>1. CASE g = c.g
      BY <1>3, <1>4, <2>1, <2>4, <3>1
    <3>2. CASE g # c.g
      BY <1>3, <1>4, <2>1, <2>4, <3>2
    <3>3. QED
      BY <3>1, <3>2
  <2>5. tracked'[g][i] = 0
    BY <1>4, <2>3, <2>4
  <2>6. QED
    BY <2>2, <2>5 DEF Untouched
<1>9. CASE Initials(c, d)
  <2>1. c.g \in Gens /\ tracked' = tracked
    BY <1>1, <1>9, WhereIs DEF Initials
  <2>2. ASSUME NEW j \in initial[c.g], initial' = [initial EXCEPT ![c.g] = @ \ {j}],
               adding' = [adding EXCEPT ![c.g] = @ \cup {j}]
        PROVE  Untouched(g, i)' \/ (i \in initial[g] /\ i \notin initial'[g])
    <3>1. CASE g = c.g /\ i = j
      BY <1>3, <2>1, <2>2, <3>1
    <3>2. CASE ~ (g = c.g /\ i = j)
      <4>1. i \notin adding'[g]
        BY <1>3, <1>4, <2>1, <2>2, <3>2
      <4>2. QED
        BY <1>4, <2>1, <4>1 DEF Untouched
    <3>3. QED
      BY <3>1, <3>2
  <2>3. \/ adding' = adding
        \/ \E j \in initial[c.g] : /\ initial' = [initial EXCEPT ![c.g] = @ \ {j}]
                                   /\ adding' = [adding EXCEPT ![c.g] = @ \cup {j}]
    BY <1>9 DEF Initials, Starts
  <2>4. QED
    BY <1>5, <2>1, <2>2, <2>3
<1>10. UNCHANGED <<adding, tracked>> \/ Tracks(c, d) \/ Untracks(c, d) \/ Finals(c, d) \/ Initials(c, d)
  BY <1>1 DEF Acts, Services, Changes, Plain, Kept, Opens, Puts, Closes, Locks, SameLists
<1>11. QED
  BY <1>5, <1>6, <1>7, <1>8, <1>9, <1>10

LEMMA LookingKeeps ==
    ASSUME IInv, IInv', RoleInv, OpenInv, FreshInv, MeanwhileInv, LookingInv, NEW t \in Threads, NEW d, Turn(t, d), Acts(t, d)
    PROVE  LookingInv'
<1>1. StateInv /\ \A i : i \in during => i \in during'
  BY DuringGrows DEF IInv
<1>2. SUFFICES ASSUME NEW u \in Threads, Looking(role'[u]), NEW i \in Items \ during'
               PROVE  tracked'[role'[u].g][i] = 0 /\ i \notin adding'[role'[u].g]
  BY DEF LookingInv, Untouched
<1>3. CASE Opens(t, d)
  <2>1. dOwner = {} /\ d.g = opened + 1 /\ d.g \in Gens /\ UNCHANGED <<adding, tracked>>
    BY <1>3 DEF Opens, SameLists
  <2>2. role'[u] = d
    BY <1>2, <2>1 DEF OpenInv, Turn
  <2>3. opened \in Nat
    BY <1>1, TrackerAssumption DEF StateInv
  <2>4. adding[d.g] = {} /\ TrackedIn(d.g) = {} /\ d.g # 0
    BY <2>1, <2>3 DEF FreshInv
  <2>5. tracked[d.g][i] = 0 /\ i \notin adding[d.g]
    BY <1>2, <2>4 DEF TrackedIn
  <2>6. QED
    BY <2>1, <2>2, <2>5
<1>4. CASE ~ Opens(t, d)
  <2>1. Looking(role[u]) /\ role'[u].g = role[u].g /\ role[u].g \in Gens
    BY <1>2, <1>4, LookingIs
  <2>2. PICK g \in Gens : g = role[u].g
    BY <2>1
  <2>3. initial[g] = {} /\ Opener(role[u])
    BY <2>1, <2>2 DEF FreshInv, Looking, Opener, OpenPCs
  <2>4. i \in Items \ during /\ Untouched(g, i)
    BY <1>1, <1>2, <2>1, <2>2 DEF LookingInv
  <2>5. Untouched(g, i)'
    BY <2>3, <2>4, UntouchedKeeps
  <2>6. QED
    BY <2>1, <2>2, <2>5 DEF Untouched
<1>5. QED
  BY <1>3, <1>4

LEMMA InitialFrom ==
    ASSUME IInv, RoleInv, NEW t \in Threads, NEW c, c = role[t], NEW d, Acts(t, d), NEW g \in Gens, NEW i \in initial'[g]
    PROVE  i \in initial[g] \/ (Puts(c, d) /\ g = c.g)
<1>1. CASE Puts(c, d)
  <2>1. OnlyAt(c.g)
    BY <1>1, WhereIs
  <2>2. QED
    BY <1>1, <2>1 DEF OnlyAt
<1>2. CASE Tracks(c, d) \/ Untracks(c, d) \/ Finals(c, d) \/ Initials(c, d)
  BY <1>2, InitialShrinks DEF IInv
<1>3. CASE initial' = initial
  BY <1>3
<1>4. QED
  BY <1>1, <1>2, <1>3 DEF Acts, Services, Changes, Plain, Kept, Opens, Closes, Locks, SameLists

LEMMA InitialKeeps ==
    ASSUME IInv, IInv', RoleInv, OpenInv, FreshInv, MeanwhileInv, LookingInv, InitialInv,
           NEW t \in Threads, NEW d, Turn(t, d), Acts(t, d)
    PROVE  InitialInv'
<1>1. PICK c : c = role[t]
  OBVIOUS
<1>2. CallsInv /\ StateInv /\ CallOK(c) /\ Shape(c) /\ c \in CallType
  BY <1>1, TurnIs DEF IInv
<1>3. role'[t] = d /\ \A u \in Threads : u # t => role'[u] = role[u]
  BY DEF Turn
<1>4. initial \in [Gens -> SUBSET Items] /\ initial' \in [Gens -> SUBSET Items]
  BY DEF IInv, StateInv
<1>5. SUFFICES ASSUME NEW g \in Gens, NEW i \in initial'[g] \ during'
               PROVE  Untouched(g, i)' /\ (g \in closed' \/ \E u \in Threads : Opener(role'[u]) /\ role'[u].g = g)
  BY DEF InitialInv
<1>6. i \in Items \ during /\ closed \subseteq closed'
  BY <1>4, <1>5, DuringGrows, ClosedGrows
<1>7. CASE Puts(c, d) /\ g = c.g
  <2>1. Looking(c) /\ Opener(d) /\ d.g = c.g /\ UNCHANGED <<adding, tracked>>
    BY <1>7 DEF Puts, Looking, Opener, OpenPCs
  <2>2. Untouched(g, i)
    BY <1>1, <1>6, <1>7, <2>1 DEF LookingInv
  <2>3. Untouched(g, i)'
    BY <2>1, <2>2 DEF Untouched
  <2>4. QED
    BY <1>3, <1>7, <2>1, <2>3
<1>8. CASE ~ (Puts(c, d) /\ g = c.g)
  <2>1. i \in initial[g]
    BY <1>1, <1>5, <1>8, InitialFrom
  <2>2. Untouched(g, i) /\ (g \in closed \/ \E u \in Threads : Opener(role[u]) /\ role[u].g = g)
    BY <1>6, <2>1 DEF InitialInv
  <2>3. Untouched(g, i)'
    BY <1>5, <1>6, <2>2, UntouchedKeeps
  <2>4. ASSUME NEW u \in Threads, Opener(role[u]), role[u].g = g
        PROVE  g \in closed' \/ \E v \in Threads : Opener(role'[v]) /\ role'[v].g = g
    <3>1. CASE u # t
      BY <1>3, <2>4, <3>1
    <3>2. CASE u = t
      <4>1. Opener(c) /\ c.g = g
        BY <1>1, <2>4, <3>2
      <4>2. ~ Opens(t, d)
        BY <1>1, <4>1, IdleIs DEF Opens, Opener, OpenPCs
      <4>3. \/ Opener(d) /\ d.g = c.g
            \/ c.g \in closed \/ initial[c.g] = {}
            \/ initial[c.g] \subseteq during'
        BY <1>1, <1>2, <4>1, <4>2, OpenerIs
      <4>4. (Opener(d) /\ d.g = c.g) \/ c.g \in closed
        BY <1>5, <2>1, <4>1, <4>3
      <4>5. QED
        BY <1>3, <1>6, <4>1, <4>4
    <3>3. QED
      BY <3>1, <3>2
  <2>5. QED
    BY <1>6, <2>2, <2>3, <2>4
<1>9. QED
  BY <1>7, <1>8

-----------------------------------------------------------------------------
(* A closed generation is emptied. *)

LEMMA OverlapGrows ==
    ASSUME NEW t \in Threads, NEW d, Acts(t, d) PROVE overlap \subseteq overlap'
<1>1. CASE overlap' = overlap
  BY <1>1
<1>2. CASE Opens(t, d) \/ Closes(role[t], d)
  <2>1. \/ overlap' = overlap
        \/ overlap' = overlap \cup ({current, opened + 1} \ {0})
        \/ overlap' = overlap \cup ({current, opened} \ {0})
    BY <1>2, SMTT(60) DEF Opens, Closes
  <2>2. QED
    BY <2>1
<1>3. overlap' = overlap \/ Opens(t, d) \/ Closes(role[t], d)
  BY DEF Acts, Services, Changes, Plain, Kept, Tracks, Untracks, Finals, Initials, Puts, Locks, SameTracker
<1>4. QED
  BY <1>1, <1>2, <1>3

\* What is tracked is untracked: it is neither an initial reference nor being added.
LEMMA TakenOut ==
    ASSUME IInv, InitialInv, NEW g \in Gens, NEW i \in Items \ during, tracked[g][i] # 0, TakesOut(g, i)
    PROVE  tracked'[g][i] = 0
<1>1. i \notin initial[g]
  BY DEF InitialInv, Untouched
<1>2. i \notin adding[g]
  BY DEF IInv, LifeInv
<1>3. tracked' = [tracked EXCEPT ![g][i] = 0]
  BY <1>1, <1>2 DEF TakesOut
<1>4. QED
  BY <1>3 DEF IInv, StateInv

\* Close goes on with taking a service out until it has done so.
LEMMA TakesKeeps ==
    ASSUME IInv, RoleInv, OpenInv, InitialInv, NEW t \in Threads, NEW c, c = role[t], NEW d, Turn(t, d), Acts(t, d),
           NEW g \in Gens \ overlap, NEW i \in Items \ during, tracked[g][i] # 0, tracked'[g][i] # 0, Takes(c, g, i)
    PROVE  Takes(d, g, i) \/ <<g, i>> \in left'
<1>1. CallOK(c) /\ Shape(c) /\ c \in CallType /\ StateInv
  BY TurnIs DEF IInv
<1>2. c.g = g /\ c.pc \in {"closeWait", "closeRefs", "closeEach", "untrack", "removing"}
  BY <1>1 DEF Takes, Shape
<1>3. Plain(c, d) \/ Untracks(c, d)
  <2>1. ~ Services(t, d) /\ ~ Opens(t, d) /\ ~ Closes(c, d)
    BY <1>2, IdleIs DEF Services, Changes, Opens, Closes
  <2>2. ~ Tracks(c, d) /\ ~ Finals(c, d) /\ ~ Puts(c, d) /\ ~ Initials(c, d) /\ ~ Locks(c, d)
    BY <1>2 DEF Tracks, Finals, Puts, Initials, Locks
  <2>3. QED
    BY <2>1, <2>2 DEF Acts
<1>4. CASE c.pc = "closeWait"
  <2>1. Waits(c, d)
    BY <1>3, <1>4, IdleIs DEF Plain, Throws, Untracks, Looks, Loads, Refs, Eachs, Removes
  <2>2. QED
    BY <1>2, <2>1 DEF Waits, Takes
<1>5. CASE c.pc = "closeRefs"
  <2>1. Refs(c, d)
    BY <1>3, <1>5, IdleIs DEF Plain, Throws, Untracks, Looks, Loads, Waits, Eachs, Removes
  <2>2. current = g /\ g # 0
    BY <1>2, <1>5 DEF OpenInv, Committed, Closer, ClosePCs, Gens
  <2>3. i \in TrackedIn(current)
    BY <2>2 DEF TrackedIn
  <2>4. QED
    BY <1>2, <2>1, <2>3 DEF Refs, Takes
<1>6. CASE c.pc = "closeEach"
  <2>1. Eachs(c, d)
    BY <1>3, <1>6, IdleIs DEF Plain, Throws, Untracks, Looks, Loads, Waits, Refs, Removes
  <2>2. i \in c.refs
    BY <1>6 DEF Takes
  <2>3. QED
    BY <1>2, <2>1, <2>2 DEF Eachs, Takes
<1>7. ASSUME c.from = "close", i \in c.refs, After(c, d) \/ Onto(c, d, "removing") PROVE Takes(d, g, i)
  BY <1>2, <1>7 DEF After, Onto, Takes
<1>8. CASE c.pc = "removing"
  <2>1. After(c, d) \/ Throws(c, d)
    BY <1>3, <1>8, IdleIs DEF Plain, Untracks, Looks, Loads, Waits, Refs, Eachs, Removes
  <2>2. c.from = "close" /\ i \in c.refs
    BY <1>8 DEF Takes
  <2>3. CASE Throws(c, d)
    <3>1. {c.g} \X c.refs \subseteq left'
      BY <2>2, <2>3 DEF Throws
    <3>2. QED
      BY <1>2, <2>2, <3>1
  <2>4. QED
    BY <1>7, <2>1, <2>2, <2>3
<1>9. CASE c.pc = "untrack"
  <2>1. Untracks(c, d)
    BY <1>3, <1>9, IdleIs DEF Plain, Throws, Looks, Loads, Waits, Refs, Eachs, Removes
  <2>2. After(c, d) \/ Onto(c, d, "removing")
    BY <2>1 DEF Untracks
  <2>3. CASE c.from = "close" /\ i \in c.refs
    BY <1>7, <2>2, <2>3
  <2>4. CASE c.i = i
    <3>1. TakesOut(g, i)
      BY <1>2, <2>1, <2>4 DEF Untracks
    <3>2. QED
      BY <3>1, TakenOut
  <2>5. QED
    BY <1>9, <2>3, <2>4 DEF Takes
<1>10. QED
  BY <1>2, <1>4, <1>5, <1>6, <1>8, <1>9

LEMMA ClosedKeeps ==
    ASSUME IInv, IInv', RoleInv, OpenInv, InitialInv, ClosedInv, left \subseteq left',
           NEW t \in Threads, NEW d, Turn(t, d), Acts(t, d)
    PROVE  ClosedInv'
<1>1. PICK c : c = role[t]
  OBVIOUS
<1>2. StateInv /\ StateInv'
  BY DEF IInv
<1>3. role'[t] = d /\ \A u \in Threads : u # t => role'[u] = role[u]
  BY DEF Turn
<1>4. tracked \in [Gens -> [Items -> 0 .. MaxObjects]]
  BY <1>2 DEF StateInv
<1>5. SUFFICES ASSUME NEW g \in closed' \ overlap', NEW i \in TrackedIn(g)' \ during', <<g, i>> \notin left'
               PROVE  \E u \in Threads : Takes(role'[u], g, i)
  BY DEF ClosedInv
<1>6. g \in Gens \ overlap /\ i \in Items \ during /\ tracked'[g][i] # 0 /\ g # 0
  BY <1>2, <1>5, OverlapGrows, DuringGrows DEF StateInv, TrackedIn, Gens
<1>7. CASE g \notin closed
  <2>1. Locks(c, d)
    BY <1>1, <1>5, <1>7 DEF Acts, Services, Changes, Plain, Kept, Tracks, Untracks, Finals, Initials, Puts, Opens, Closes, SameTracker
  <2>2. d.pc = "closeWait" /\ d.g = g
    BY <1>5, <1>7, <2>1 DEF Locks
  <2>3. QED
    BY <1>3, <2>2 DEF Takes
<1>8. CASE g \in closed
  <2>1. tracked[g][i] # 0
    <3>1. CASE tracked' = tracked
      BY <1>6, <3>1
    <3>2. CASE Untracks(c, d)
      <4>1. c.g \in Gens /\ c.i \in Items
        BY <1>1, <3>2, WhereIs DEF Untracks, OpenPCs
      <4>2. tracked' = tracked \/ tracked' = [tracked EXCEPT ![c.g][c.i] = 0]
        BY <3>2 DEF Untracks, TakesOut
      <4>3. QED
        BY <1>4, <1>6, <4>1, <4>2
    <3>3. CASE Finals(c, d)
      <4>1. c.g \in Gens /\ c.i \in Items
        BY <1>1, <3>3, WhereIs DEF Finals, OpenPCs
      <4>2. tracked' = tracked \/ (c.g \notin closed /\ \E o : tracked' = [tracked EXCEPT ![c.g][c.i] = o])
        BY <3>3 DEF Finals
      <4>3. QED
        BY <1>4, <1>6, <1>8, <4>1, <4>2
    <3>4. tracked' = tracked \/ Untracks(c, d) \/ Finals(c, d)
      BY <1>1 DEF Acts, Services, Changes, Plain, Kept, Tracks, Initials, Puts, Opens, Closes, Locks, SameLists
    <3>5. QED
      BY <3>1, <3>2, <3>3, <3>4
  <2>2. PICK u \in Threads : Takes(role[u], g, i)
    BY <1>5, <1>6, <1>8, <2>1 DEF ClosedInv, TrackedIn
  <2>3. CASE u # t
    BY <1>3, <2>2, <2>3
  <2>4. CASE u = t
    <3>1. Takes(d, g, i)
      BY <1>1, <1>5, <1>6, <2>1, <2>2, <2>4, TakesKeeps
    <3>2. QED
      BY <1>3, <3>1
  <2>5. QED
    BY <2>3, <2>4
<1>9. QED
  BY <1>7, <1>8

\* What ClosedIsEmpty needs besides.
EmptiesInv == LosesInv /\ MeanwhileInv /\ LookingInv /\ InitialInv /\ ClosedInv

LEMMA LeftGrows ==
    ASSUME [Next]_vars PROVE left \subseteq left'
<1>1. CASE UNCHANGED vars
  BY <1>1 DEF vars, history
<1>2. CASE Next
  <2>1. PICK t \in Threads :
           \/ Step(t)
           \/ Open(t) \/ CloseRemoveListener(t)
           \/ \E i \in Items : Register(t, i) \/ Modify(t, i) \/ Unregister(t, i) \/ Remove(t, i)
           \/ \E from \in {"get", "wait"} : StartRead(t, from)
    BY <1>2 DEF Next
  <2>2. CASE CustomizerRemovedThrows(t)
    BY <2>2 DEF CustomizerRemovedThrows
  <2>3. CASE SetProps(t) \/ Notify(t) \/ Gone(t) \/ CountUp(t) \/ Check(t)
    BY <2>3 DEF SetProps, Notify, Gone, CountUp, Check, history
  <2>4. CASE \/ Track(t) \/ Untrack(t) \/ CustomizerAdding(t) \/ CustomizerAddingFinal(t)
             \/ CustomizerModified(t) \/ CustomizerRemoved(t)
    BY <2>4 DEF Track, Untrack, CustomizerAdding, CustomizerAddingFinal, CustomizerModified, CustomizerRemoved, history
  <2>5. CASE OpenLookup(t) \/ OpenSetInitial(t) \/ TrackInitial(t)
    BY <2>5 DEF OpenLookup, OpenSetInitial, TrackInitial, history
  <2>6. CASE CloseLoad(t) \/ CloseLock(t) \/ CloseWait(t) \/ CloseRefs(t) \/ CloseEach(t)
    BY <2>6 DEF CloseLoad, CloseLock, CloseWait, CloseRefs, CloseEach, history
  <2>7. CASE Reads(t)
    <3>1. left' = left
      BY <2>7 DEF Reads, StartRead, GetService, StoreRef, GetObject, StoreService, WaitTracked, WaitLock, Sleep, history
    <3>2. QED
      BY <3>1
  <2>8. CASE \E i \in Items : Register(t, i) \/ Modify(t, i) \/ Unregister(t, i) \/ Remove(t, i)
    BY <2>8 DEF Register, Modify, Unregister, Remove, Change, history
  <2>9. CASE Open(t) \/ CloseRemoveListener(t)
    BY <2>9 DEF Open, CloseRemoveListener
  <2>10. QED
    BY <2>1, <2>2, <2>3, <2>4, <2>5, <2>6, <2>7, <2>8, <2>9 DEF Step, Reads
<1>3. QED
  BY <1>1, <1>2

LEMMA EmptiesKeeps ==
    ASSUME IInv, IInv', EmptiesInv, [Next]_vars PROVE EmptiesInv'
<1>1. LosesInv'
  BY LosesKeeps DEF EmptiesInv
<1>2. RoleInv /\ OpenInv /\ FreshInv /\ MeanwhileInv /\ LookingInv /\ InitialInv /\ ClosedInv
  BY DEF EmptiesInv, LosesInv
<1>3. ASSUME Kept, role' = role PROVE EmptiesInv'
  <2>1. UNCHANGED <<closed, overlap, initial, adding, tracked>> /\ during \subseteq during' /\ left \subseteq left'
    BY <1>3, LeftGrows DEF Kept, SameTracker, SameLists
  <2>2. MeanwhileInv'
    BY <1>2, <1>3, <2>1 DEF MeanwhileInv
  <2>3. LookingInv' /\ InitialInv'
    BY <1>2, <1>3, <2>1 DEF LookingInv, InitialInv, Untouched
  <2>4. ClosedInv'
    BY <1>2, <1>3, <2>1 DEF ClosedInv, TrackedIn
  <2>5. QED
    BY <1>1, <2>2, <2>3, <2>4 DEF EmptiesInv
<1>4. ASSUME NEW t \in Threads, NEW d, Turn(t, d), Acts(t, d) PROVE EmptiesInv'
  <2>1. MeanwhileInv' /\ LookingInv'
    BY <1>2, <1>4, MeanwhileKeeps, LookingKeeps
  <2>2. InitialInv' /\ ClosedInv'
    BY <1>2, <1>4, InitialKeeps, ClosedKeeps, LeftGrows
  <2>3. QED
    BY <1>1, <2>1, <2>2 DEF EmptiesInv
<1>5. (Kept /\ role' = role) \/ \E t \in Threads : \E d : Turn(t, d) /\ Acts(t, d)
  BY <1>2, StepIs
<1>6. QED
  BY <1>3, <1>4, <1>5

LEMMA EmptiesInit == ASSUME Init PROVE EmptiesInv
<1>1. LosesInv
  BY LosesInit
<1>2. \A t \in Threads : role[t] = Idle
  BY IdleIs DEF Init, role, Role
<1>3. closed = {} /\ \A g \in Gens : initial[g] = {}
  BY DEF Init
<1>4. MeanwhileInv /\ LookingInv
  BY <1>2, IdleIs DEF MeanwhileInv, LookingInv, Looking, Events
<1>5. InitialInv /\ ClosedInv
  BY <1>3 DEF InitialInv, ClosedInv
<1>6. QED
  BY <1>1, <1>4, <1>5 DEF EmptiesInv

\* A closed generation is empty, for any number of threads, services, generations and calls: when
\* no call is in progress Close has untracked every service, so that the customizer was given each
\* of its objects back, unless an Open ran at the same time. Left out are services that changed
\* during an Open or that it left behind, and those a Close had yet to untrack when RemovedService
\* threw (ServiceTracker::Close, BundleAbstractTracked::Close, Untrack).
THEOREM ClosedTrackerIsEmpty == Spec => []ClosedIsEmpty
<1>1. Init => EmptiesInv
  BY EmptiesInit
<1>2. IInv /\ IInv' /\ EmptiesInv /\ [Next]_vars => EmptiesInv'
  BY EmptiesKeeps
<1>3. IInv /\ EmptiesInv => ClosedIsEmpty
  <2> SUFFICES ASSUME IInv, EmptiesInv, Quiet, NEW g \in closed \ overlap, NEW i \in TrackedIn(g), i \notin during
               PROVE  <<g, i>> \in left
    BY DEF ClosedIsEmpty
  <2>1. ASSUME NEW t \in Threads, Takes(role[t], g, i) PROVE FALSE
    <3>1. role[t] = Idle
      BY QuietIs DEF EmptiesInv, LosesInv
    <3>2. QED
      BY <2>1, <3>1, IdleIs DEF Takes
  <2>2. QED
    BY <2>1 DEF EmptiesInv, ClosedInv
<1>4. QED
  BY <1>1, <1>2, <1>3, AlwaysIInv, PTL DEF Spec

-----------------------------------------------------------------------------
(* No stale service is kept. *)

LEMMA RacedGrows ==
    ASSUME NEW t \in Threads, NEW d, Acts(t, d) PROVE raced \subseteq raced'
<1>1. raced' = raced \/ \E i \in Items : Changes(t, i, d)
  BY DEF Acts, Services, Plain, Kept, Tracks, Untracks, Finals, Initials, Puts, Opens, Closes, Locks, SameServices
<1>2. ASSUME NEW i \in Items, Changes(t, i, d) PROVE raced' = raced \/ raced' = raced \cup {i}
  BY <1>2 DEF Changes
<1>3. QED
  BY <1>1, <1>2, SMTT(60)

\* Only Unregister and SetProperties make a listed service unlisted or not match.
LEMMA Unlists ==
    ASSUME IInv, RoleInv, EventInv, NEW t \in Threads, NEW c, c = role[t], NEW d, Turn(t, d), Acts(t, d),
           NEW i \in Items, Listed(i), ~ Listed(i)'
    PROVE  \/ Changes(t, i, d) /\ d.from = "unregister" /\ d.pc = "notify" /\ i \in matching'
           \/ /\ c.pc = "setProps" /\ c.i = i /\ c.from = "modify" /\ Onto(c, d, "notify") /\ i \notin matching'
              /\ UNCHANGED <<state, raced, during>>
<1>1. CallOK(c) /\ Shape(c) /\ c \in CallType /\ StateInv
  BY TurnIs DEF IInv
<1>2. state \in [Items -> {"new", "listed", "unlisted", "gone"}] /\ state[i] = "listed" /\ i \in matching
  BY <1>1 DEF StateInv, Listed
<1>3. state'[i] # "listed" \/ i \notin matching'
  BY DEF Listed
<1>4. Services(t, d)
  <2>1. ~ SameServices
    BY <1>2, <1>3 DEF SameServices
  <2>2. QED
    BY <1>1, <2>1, PlainEvent, OtherEvent DEF Acts
<1>5. ~ \E j \in Items : Changes(t, j, d) /\ state' = [state EXCEPT ![j] = "listed"] /\ matching' \in {matching, matching \cup {j}}
  BY <1>2, <1>3
<1>6. CASE \E j \in Items : /\ Changes(t, j, d) /\ d.pc = "notify" /\ d.from = "unregister"
                            /\ state' = [state EXCEPT ![j] = "unlisted"] /\ matching' = matching
  BY <1>2, <1>3, <1>6
<1>7. CASE /\ c.pc = "setProps" /\ UNCHANGED <<state, raced, during>> /\ Onto(c, d, "notify")
           /\ matching' \in {matching \ {c.i}, matching \cup {c.i}}
  <2>1. c.i = i /\ i \notin matching'
    BY <1>2, <1>3, <1>7
  <2>2. c.from = "modify"
    BY <1>1, <1>7 DEF CallOK, Shape, EventPCs, Events
  <2>3. QED
    BY <1>7, <2>1, <2>2
<1>8. CASE c.pc = "gone" /\ state' = [state EXCEPT ![c.i] = "gone"] /\ matching' = matching
  <2>1. c.from = "unregister"
    BY <1>1, <1>8 DEF CallOK, Shape, EventPCs, Events
  <2>2. state[c.i] = "unlisted"
    BY <2>1 DEF EventInv
  <2>3. QED
    BY <1>2, <1>3, <1>8, <2>2
<1>9. CASE state' = state /\ matching' = matching
  BY <1>2, <1>3, <1>9
<1>10. QED
  BY <1>4, <1>5, <1>6, <1>7, <1>8, <1>9 DEF Services

LEMMA OpenListed ==
    ASSUME IInv, RoleInv, EventInv, MeanwhileInv, NEW t \in Threads, NEW d, Turn(t, d), Acts(t, d),
           NEW u \in Threads, Opener(role[u]), NEW i \in Items \ during', Listed(i)
    PROVE  Listed(i)'
<1>1. SUFFICES ASSUME ~ Listed(i)' PROVE FALSE
  OBVIOUS
<1>2. PICK c : c = role[t]
  OBVIOUS
<1>3. CASE Changes(t, i, d)
  BY <1>3 DEF Changes
<1>4. CASE c.i = i /\ c.from = "modify" /\ during' = during
  BY <1>2, <1>4 DEF MeanwhileInv, Events
<1>5. QED
  BY <1>1, <1>2, <1>3, <1>4, Unlists

LEMMA AddingListed ==
    ASSUME IInv, RoleInv, EventInv, MeanwhileInv, NEW t \in Threads, NEW d, Turn(t, d), Acts(t, d),
           NEW g, NEW i \in Items \ (raced' \cup during'), NEW u \in Threads, Adder(role[u], g, i), Listed(i)
    PROVE  Listed(i)'
<1>1. role[u].pc \in AddPCs /\ role[u].i = i /\ Shape(role[u]) /\ role[u] \in CallType
  BY RoleIs DEF Adder, RoleInv, IInv
<1>2. CASE role[u].from = "initial"
  BY <1>2, OpenListed DEF Opener
<1>3. CASE role[u].from \in Events
  <2>1. SUFFICES ASSUME ~ Listed(i)' PROVE FALSE
    OBVIOUS
  <2>2. About(role[u], i)
    BY <1>1, <1>3 DEF About
  <2>3. CASE Changes(t, i, d)
    BY <2>2, <2>3 DEF Changes
  <2>4. CASE role[t].pc = "setProps" /\ role[t].i = i /\ role[t].from = "modify" /\ raced' = raced
    <3>1. About(role[t], i) /\ i \in Items \ raced
      BY <2>4 DEF About, Events
    <3>2. t = u
      BY <2>2, <3>1 DEF EventInv
    <3>3. QED
      BY <1>1, <2>4, <3>2 DEF AddPCs
  <2>5. QED
    BY <2>1, <2>3, <2>4, Unlists
<1>4. QED
  BY <1>1, <1>2, <1>3 DEF Shape, CallType, Froms, AddPCs, OpenPCs, ClosePCs

LEMMA ListedKeeps ==
    ASSUME IInv, IInv', RoleInv, EventInv, OpenInv, AddersInv, MeanwhileInv, InitialInv, ListedInv,
           NEW t \in Threads, NEW d, Turn(t, d), Acts(t, d)
    PROVE  ListedInv'
<1>1. PICK c : c = role[t]
  OBVIOUS
<1>2. CallsInv /\ StateInv /\ StateInv' /\ CallOK(c) /\ Shape(c) /\ c \in CallType /\ d \in CallType
  BY <1>1, TurnIs DEF IInv
<1>3. role'[t] = d /\ \A u \in Threads : u # t => role'[u] = role[u]
  BY DEF Turn
<1>4. during \subseteq during' /\ raced \subseteq raced' /\ closed \subseteq closed'
  BY DuringGrows, RacedGrows, ClosedGrows
<1>5. ASSUME NEW u \in Threads, role'[u].pc = "setInitial", NEW i \in role'[u].refs, i \notin during' PROVE Listed(i)'
  <2>1. ~ Opens(t, d)
    <3>1. SUFFICES ASSUME Opens(t, d) PROVE FALSE
      OBVIOUS
    <3>2. dOwner = {} /\ d.pc = "lookup"
      BY <3>1 DEF Opens
    <3>3. u # t /\ Looking(role[u])
      BY <1>3, <1>5, <3>2 DEF Looking
    <3>4. QED
      BY <3>2, <3>3 DEF OpenInv
  <2>2. Looking(role[u]) /\ ~ Puts(c, d)
    BY <1>1, <1>5, <2>1, LookingIs DEF Looking
  <2>3. CASE u # t
    <3>1. role[u].pc = "setInitial" /\ i \in role[u].refs \ during
      BY <1>3, <1>4, <1>5, <2>3
    <3>2. Listed(i) /\ Opener(role[u]) /\ i \in Items
      BY <1>2, <3>1, RoleIs DEF ListedInv, Opener, OpenPCs
    <3>3. QED
      BY <1>5, <3>2, OpenListed
  <2>4. CASE u = t
    <3>1. c.pc \in {"lookup", "setInitial"}
      BY <1>1, <2>2, <2>4 DEF Looking
    <3>2. Plain(c, d)
      <4>1. ~ Services(t, d) /\ ~ Closes(c, d)
        BY <1>1, <3>1, IdleIs DEF Services, Changes, Closes
      <4>2. ~ Tracks(c, d) /\ ~ Untracks(c, d) /\ ~ Finals(c, d) /\ ~ Initials(c, d) /\ ~ Locks(c, d)
        BY <3>1 DEF Tracks, Untracks, Finals, Initials, Locks
      <4>3. QED
        BY <1>1, <2>1, <2>2, <4>1, <4>2 DEF Acts
    <3>3. Looks(c, d)
      BY <3>1, <3>2, IdleIs DEF Plain, Loads, Waits, Refs, Eachs, Removes, Throws
    <3>4. i \in matching /\ state[i] = "listed" /\ UNCHANGED <<state, matching>>
      BY <1>3, <1>5, <2>4, <3>3 DEF Looks, Kept, SameServices
    <3>5. QED
      BY <3>4 DEF Listed
  <2>5. QED
    BY <2>3, <2>4
<1>6. ASSUME NEW g \in Gens \ closed', NEW i \in initial'[g], i \notin during' PROVE Listed(i)'
  <2>1. i \in Items
    BY <1>2, <1>6 DEF StateInv
  <2>2. CASE i \in initial[g]
    <3>1. Listed(i) /\ \E u \in Threads : Opener(role[u])
      BY <1>4, <1>6, <2>2 DEF ListedInv, InitialInv
    <3>2. QED
      BY <1>6, <2>1, <3>1, OpenListed
  <2>3. CASE Puts(c, d) /\ g = c.g
    <3>1. c.pc = "setInitial" /\ initial' = [initial EXCEPT ![g] = c.refs] /\ UNCHANGED <<state, matching>>
      BY <2>3 DEF Puts, SameServices
    <3>2. i \in c.refs
      BY <1>2, <1>6, <3>1 DEF StateInv
    <3>3. Listed(i)
      BY <1>1, <1>4, <1>6, <3>1, <3>2 DEF ListedInv
    <3>4. QED
      BY <3>1, <3>3 DEF Listed
  <2>4. QED
    BY <1>1, <1>6, <2>2, <2>3, InitialFrom
<1>7. ASSUME NEW g \in Gens, NEW i \in adding'[g], i \notin raced' \cup during' PROVE Listed(i)'
  <2>1. i \in Items /\ i \notin raced \cup during
    BY <1>2, <1>4, <1>7 DEF StateInv
  <2>2. CASE i \in adding[g]
    <3>1. Listed(i) /\ \E u \in Threads : Adder(role[u], g, i)
      BY <1>7, <2>1, <2>2 DEF ListedInv, AddersInv
    <3>2. QED
      BY <1>7, <2>1, <3>1, AddingListed
  <2>3. CASE i \notin adding[g]
    <3>1. Tracks(c, d) \/ Initials(c, d)
      <4>1. CASE Untracks(c, d) \/ Finals(c, d)
        <5>1. adding' = adding \/ adding' = [adding EXCEPT ![c.g] = @ \ {c.i}]
          BY <4>1 DEF Untracks, TakesOut, Finals
        <5>2. adding \in [Gens -> SUBSET Items]
          BY <1>2 DEF StateInv
        <5>3. QED
          BY <1>7, <2>3, <5>1, <5>2
      <4>2. CASE adding' = adding
        BY <1>7, <2>3, <4>2
      <4>3. QED
        BY <1>1, <4>1, <4>2 DEF Acts, Services, Changes, Plain, Kept, Opens, Puts, Closes, Locks, SameLists
    <3>2. UNCHANGED <<state, matching>>
      BY <3>1 DEF Tracks, Initials, SameServices
    <3>3. CASE Tracks(c, d)
      <4>1. c.pc = "track" /\ adding' = [adding EXCEPT ![c.g] = @ \cup {c.i}]
        BY <1>7, <2>3, <3>3 DEF Tracks, Starts
      <4>2. c.i = i
        BY <1>2, <1>7, <2>3, <4>1 DEF StateInv
      <4>3. c.from \in Events
        BY <1>2, <4>1 DEF Shape, CallType, Froms, OpenPCs, ClosePCs, AddPCs
      <4>4. c.ev = "track" /\ c.from # "unregister" /\ About(c, i)
        BY <1>2, <4>1, <4>2, <4>3 DEF Shape, About
      <4>5. Listed(i)
        BY <1>1, <2>1, <4>4 DEF EventInv, Listed
      <4>6. QED
        BY <3>2, <4>5 DEF Listed
    <3>4. CASE Initials(c, d)
      <4>1. PICK j \in initial[c.g] : c.g \notin closed /\ adding' = [adding EXCEPT ![c.g] = @ \cup {j}]
        BY <1>7, <2>3, <3>4 DEF Initials, Starts
      <4>2. j = i /\ c.g \in Gens
        BY <1>1, <1>2, <1>7, <2>3, <3>4, <4>1, WhereIs DEF StateInv
      <4>3. Listed(i)
        BY <2>1, <4>1, <4>2 DEF ListedInv
      <4>4. QED
        BY <3>2, <4>3 DEF Listed
    <3>5. QED
      BY <3>1, <3>3, <3>4
  <2>4. QED
    BY <2>2, <2>3
<1>8. QED
  BY <1>5, <1>6, <1>7 DEF ListedInv

\* Whether a service matches is only changed by who is changing the service.
LEMMA Matches ==
    ASSUME RoleInv, NEW t \in Threads, NEW c, c = role[t], NEW d, CallOK(c), Shape(c), Acts(t, d), NEW i
    PROVE  (i \in matching' <=> i \in matching) \/ Changes(t, i, d) \/ (c.pc = "setProps" /\ c.i = i)
<1>1. CASE SameServices
  BY <1>1 DEF SameServices
<1>2. CASE Services(t, d)
  <2>1. \/ matching' = matching
        \/ \E j \in Items : Changes(t, j, d) /\ matching' = matching \cup {j}
        \/ c.pc = "setProps" /\ matching' \in {matching \ {c.i}, matching \cup {c.i}}
    BY <1>2 DEF Services
  <2>2. QED
    BY <2>1
<1>3. QED
  BY <1>1, <1>2, PlainEvent, OtherEvent DEF Acts

LEMMA Modifies ==
    ASSUME NEW t \in Threads, NEW c, c = role[t], NEW d, Acts(t, d), d.pc = "setProps"
    PROVE  \E i \in Items : Changes(t, i, d) /\ d.g = IF i \in matching THEN listener ELSE 0
<1>1. ~ After(c, d) /\ d # Idle /\ \A l : l # "setProps" => ~ Onto(c, d, l)
  BY IdleIs DEF After, Onto
<1>2. ~ Plain(c, d)
  BY <1>1 DEF Plain, Notifies, Looks, Loads, Waits, Refs, Eachs, Removes, Throws
<1>3. ~ Tracks(c, d) /\ ~ Untracks(c, d) /\ ~ Finals(c, d)
  BY <1>1 DEF Tracks, Starts, Untracks, Finals
<1>4. ~ Opens(t, d) /\ ~ Puts(c, d) /\ ~ Initials(c, d) /\ ~ Closes(c, d) /\ ~ Locks(c, d)
  BY <1>1 DEF Opens, Puts, Initials, Starts, Closes, Locks
<1>5. Services(t, d)
  BY <1>2, <1>3, <1>4 DEF Acts
<1>6. QED
  BY <1>1, <1>5 DEF Services

\* An event that takes a service out of the open generation gets there.
LEMMA DropsKeeps ==
    ASSUME IInv, RoleInv, EventInv, InitialInv, NEW t \in Threads, NEW c, c = role[t], NEW d, Turn(t, d), Acts(t, d),
           NEW g \in Gens \ closed, listener = g, NEW i \in Items \ (raced \cup during),
           tracked[g][i] # 0, tracked'[g][i] # 0, Drops(matching, c, g, i)
    PROVE  Drops(matching', d, g, i)
<1>1. CallOK(c) /\ Shape(c) /\ c \in CallType /\ g # 0
  BY TurnIs DEF IInv, Gens
<1>2. c.pc \in {"notify", "countUp", "check", "untrack"} /\ About(c, i) /\ c.from # "register" /\ c.i = i
  BY DEF Drops, About
<1>3. Plain(c, d) \/ Untracks(c, d)
  <2>1. ~ Services(t, d) /\ ~ Opens(t, d) /\ ~ Closes(c, d)
    BY <1>2, IdleIs DEF Services, Changes, Opens, Closes
  <2>2. ~ Tracks(c, d) /\ ~ Finals(c, d) /\ ~ Puts(c, d) /\ ~ Initials(c, d) /\ ~ Locks(c, d)
    BY <1>2 DEF Tracks, Finals, Puts, Initials, Locks
  <2>3. QED
    BY <2>1, <2>2 DEF Acts
<1>4. CASE c.pc = "notify"
  <2>1. Notifies(c, d)
    BY <1>3, <1>4, IdleIs DEF Plain, Untracks, Looks, Loads, Waits, Refs, Eachs, Removes, Throws
  <2>2. (c.from = "unregister" /\ i \in matching) \/ (c.from = "modify" /\ i \notin matching /\ c.g = g)
    BY <1>4 DEF Drops
  <2>3. d.pc = "countUp" /\ d.from = c.from /\ d.i = i /\ d.ev = "untrack" /\ d.g = g
    BY <1>1, <1>2, <2>1, <2>2 DEF Notifies
  <2>4. QED
    BY <1>2, <2>3 DEF Drops, About
<1>5. ASSUME c.ev = "untrack", c.g = g, NEW l \in {"check", "untrack"}, Onto(c, d, l) PROVE Drops(matching', d, g, i)
  BY <1>2, <1>5 DEF Drops, About, Onto
<1>6. c.pc # "notify" => c.ev = "untrack" /\ c.g = g
  BY DEF Drops
<1>7. CASE c.pc = "countUp"
  <2>1. Onto(c, d, "check")
    BY <1>3, <1>7, IdleIs DEF Plain, Untracks, Looks, Loads, Waits, Refs, Eachs, Removes, Throws
  <2>2. QED
    BY <1>5, <1>6, <1>7, <2>1
<1>8. CASE c.pc = "check"
  <2>1. state[i] # "gone"
    BY <1>2 DEF EventInv
  <2>2. Onto(c, d, c.ev)
    BY <1>2, <1>3, <1>6, <1>8, <2>1, IdleIs DEF Plain, Untracks, Looks, Loads, Waits, Refs, Eachs, Removes, Throws
  <2>3. QED
    BY <1>5, <1>6, <1>8, <2>2
<1>9. CASE c.pc = "untrack"
  <2>1. Untracks(c, d)
    BY <1>3, <1>9, IdleIs DEF Plain, Looks, Loads, Waits, Refs, Eachs, Removes, Throws
  <2>2. TakesOut(g, i)
    BY <1>2, <1>6, <1>9, <2>1 DEF Untracks
  <2>3. QED
    BY <2>2, TakenOut
<1>10. QED
  BY <1>2, <1>4, <1>7, <1>8, <1>9

\* A generation that is open after a step was current before it, or its Open has just ended.
LEMMA StillOpen ==
    ASSUME IInv, RoleInv, OpenInv, FreshInv, NEW t \in Threads, NEW d, Turn(t, d), Acts(t, d), current' \in Living'
    PROVE  \/ Puts(role[t], d)
           \/ current' = current /\ current \in Living /\ SameTracker
<1>1. PICK c : c = role[t]
  OBVIOUS
<1>2. CallsInv /\ StateInv /\ CallOK(c) /\ Shape(c) /\ c \in CallType
  BY <1>1, TurnIs DEF IInv
<1>3. PICK g : g = current'
  OBVIOUS
<1>4. Live(g)' /\ g \in Gens /\ g \notin closed'
  BY <1>3, LivingIs DEF Living, Live
<1>5. CASE SameTracker
  <2>1. g = current /\ opened' = opened /\ opened \in Nat
    BY <1>2, <1>3, <1>5, TrackerAssumption DEF SameTracker, StateInv
  <2>2. ~ Opens(t, d)
    BY <2>1 DEF Opens
  <2>3. current \in Living
    BY <1>4, <2>1, <2>2, OpenInvKeeps, LivingIs
  <2>4. QED
    BY <1>3, <1>5, <2>1, <2>3
<1>6. ~ Opens(t, d)
  BY <1>3, <1>4 DEF Opens, Gens
<1>7. ~ Closes(c, d) /\ ~ Locks(c, d)
  <2>1. ~ Closes(c, d)
    BY <1>1, <1>2, <1>4, ClosesOpen DEF Live
  <2>2. ASSUME Locks(c, d) PROVE FALSE
    <3>1. \A h : ~ Live(h)'
      BY <1>1, <2>2, LocksOpen, SMTT(60)
    <3>2. QED
      BY <1>4, <3>1
  <2>3. QED
    BY <2>1, <2>2
<1>8. SameTracker \/ Puts(c, d)
  BY <1>1, <1>6, <1>7 DEF Acts, Services, Changes, Plain, Kept, Tracks, Untracks, Finals, Initials
<1>9. QED
  BY <1>1, <1>5, <1>8

\* What is tracked from now on is listed, and nobody changes it.
LEMMA AcceptedListed ==
    ASSUME IInv, RoleInv, EventInv, MeanwhileInv, ListedInv, NEW t \in Threads, NEW c, c = role[t], NEW d, Turn(t, d), Finals(c, d),
           NEW g \in Gens, NEW i \in Items \ (raced \cup during), tracked[g][i] = 0, tracked'[g][i] # 0
    PROVE  Listed(i)' /\ \A u \in Threads : role'[u].pc # "setProps" \/ role'[u].i # i
<1>1. CallsInv /\ StateInv /\ CallOK(c) /\ Shape(c) /\ c \in CallType /\ c.pc \in {"final", "threw"} /\ SameServices
  BY TurnIs DEF IInv, Finals
<1>2. c.g \in Gens /\ c.i \in Items /\ tracked \in [Gens -> [Items -> 0 .. MaxObjects]]
  BY <1>1, WhereIs DEF OpenPCs, StateInv
<1>3. c.i \in adding[c.g] /\ After(c, d) /\ \E o : tracked' = [tracked EXCEPT ![c.g][c.i] = o]
  BY DEF Finals
<1>4. c.g = g /\ c.i = i
  BY <1>2, <1>3
<1>5. Listed(i)
  BY <1>3, <1>4 DEF ListedInv
<1>6. ASSUME NEW u \in Threads, role'[u].pc = "setProps", role'[u].i = i PROVE FALSE
  <2>1. role'[t] = d /\ d.pc # "setProps"
    BY <1>3, IdleIs DEF Turn, After
  <2>2. u # t /\ role[u].pc = "setProps" /\ role[u].i = i
    BY <1>6, <2>1 DEF Turn
  <2>3. About(role[u], i)
    BY <1>1, <2>2, RoleIs DEF CallOK, EventPCs, About
  <2>4. CASE c.from = "initial"
    BY <2>3, <2>4 DEF MeanwhileInv, Opener, About
  <2>5. CASE c.from \in Events
    BY <1>4, <2>2, <2>3, <2>5 DEF EventInv, About
  <2>6. QED
    BY <1>1, <2>4, <2>5 DEF Shape, CallType, Froms, OpenPCs, ClosePCs
<1>7. QED
  BY <1>1, <1>5, <1>6 DEF Listed, SameServices

LEMMA StaleKeeps ==
    ASSUME IInv, IInv', RoleInv, EventInv, OpenInv, FreshInv, MeanwhileInv, LookingInv, InitialInv, ListedInv, StaleInv,
           NEW t \in Threads, NEW d, Turn(t, d), Acts(t, d)
    PROVE  StaleInv'
<1>1. PICK c : c = role[t]
  OBVIOUS
<1>2. CallsInv /\ StateInv /\ StateInv' /\ CallOK(c) /\ Shape(c) /\ c \in CallType
  BY <1>1, TurnIs DEF IInv
<1>3. role'[t] = d /\ \A u \in Threads : u # t => role'[u] = role[u]
  BY DEF Turn
<1>4. SUFFICES ASSUME current' \in Living', NEW i \in TrackedIn(current)', i \notin raced' \cup during'
               PROVE  /\ Listed(i)' \/ \E u \in Threads : Drops(matching', role'[u], current', i)
                      /\ \A u \in Threads : role'[u].pc = "setProps" /\ role'[u].i = i => role'[u].g = current'
  BY DEF StaleInv
<1>5. i \in Items \ (raced \cup during) /\ tracked'[current'][i] # 0
  BY <1>4, DuringGrows, RacedGrows DEF TrackedIn
<1>6. ~ Puts(c, d)
  <2>1. SUFFICES ASSUME Puts(c, d) PROVE FALSE
    OBVIOUS
  <2>2. Looking(c) /\ current' = c.g /\ tracked' = tracked
    BY <2>1 DEF Puts, Looking
  <2>3. QED
    BY <1>1, <1>5, <2>2 DEF LookingInv, Untouched
<1>7. PICK g : g = current
  OBVIOUS
<1>8. current' = g /\ g \in Living /\ SameTracker
  BY <1>1, <1>4, <1>6, <1>7, StillOpen
<1>9. g \in Gens \ closed /\ listener = g /\ tracked'[g][i] # 0
  BY <1>5, <1>8, LivingIs, LiveListens
<1>10. CASE tracked[g][i] = 0
  <2>1. Finals(c, d)
    <3>1. tracked' # tracked
      BY <1>9, <1>10
    <3>2. ~ Untracks(c, d)
      <4>1. SUFFICES ASSUME Untracks(c, d) PROVE FALSE
        OBVIOUS
      <4>2. c.g \in Gens /\ c.i \in Items /\ tracked \in [Gens -> [Items -> 0 .. MaxObjects]]
        BY <1>1, <1>2, <4>1, WhereIs DEF Untracks, OpenPCs, StateInv
      <4>3. tracked' = [tracked EXCEPT ![c.g][c.i] = 0]
        BY <3>1, <4>1 DEF Untracks, TakesOut
      <4>4. QED
        BY <1>5, <1>9, <1>10, <4>2, <4>3
    <3>3. QED
      BY <1>1, <3>1, <3>2 DEF Acts, Services, Changes, Plain, Kept, Tracks, Initials, Puts, Opens, Closes, Locks, SameLists
  <2>2. Listed(i)' /\ \A u \in Threads : role'[u].pc # "setProps" \/ role'[u].i # i
    BY <1>1, <1>5, <1>9, <1>10, <2>1, AcceptedListed
  <2>3. \A u \in Threads : role'[u].pc = "setProps" /\ role'[u].i = i => role'[u].g = current'
    BY <2>2
  <2>4. QED
    BY <2>2, <2>3, SMTT(60)
<1>11. CASE tracked[g][i] # 0
  <2>1. /\ Listed(i) \/ \E u \in Threads : Drops(matching, role[u], g, i)
        /\ \A u \in Threads : role[u].pc = "setProps" /\ role[u].i = i => role[u].g = g
    BY <1>5, <1>7, <1>8, <1>9, <1>11 DEF StaleInv, TrackedIn, Gens
  <2>2. ASSUME NEW u \in Threads, About(role[u], i) PROVE ~ Changes(t, i, d)
    BY <1>4, <2>2 DEF Changes
  <2>3. Listed(i)' \/ \E u \in Threads : Drops(matching', role'[u], g, i)
    <3>1. CASE Listed(i) /\ Listed(i)'
      BY <3>1
    <3>2. CASE Listed(i) /\ ~ Listed(i)'
      <4>1. CASE Changes(t, i, d) /\ d.from = "unregister" /\ d.pc = "notify" /\ i \in matching'
        <5>1. Drops(matching', d, g, i)
          BY <4>1 DEF Changes, Drops, About, Events
        <5>2. QED
          BY <1>3, <5>1
      <4>2. CASE c.pc = "setProps" /\ c.i = i /\ c.from = "modify" /\ Onto(c, d, "notify") /\ i \notin matching'
        <5>1. c.g = g
          BY <1>1, <2>1, <4>2
        <5>2. Drops(matching', d, g, i)
          BY <4>2, <5>1 DEF Onto, Drops, About, Events
        <5>3. QED
          BY <1>3, <5>2
      <4>3. QED
        BY <1>1, <1>5, <3>2, <4>1, <4>2, Unlists
    <3>3. ASSUME NEW u \in Threads, Drops(matching, role[u], g, i)
          PROVE  \E v \in Threads : Drops(matching', role'[v], g, i)
      <4>1. About(role[u], i) /\ role[u].pc # "setProps"
        BY <3>3 DEF Drops
      <4>2. CASE u = t
        <5>1. Drops(matching', d, g, i)
          BY <1>1, <1>5, <1>9, <1>11, <3>3, <4>2, DropsKeeps
        <5>2. QED
          BY <1>3, <5>1
      <4>3. CASE u # t
        <5>1. ~ (c.pc = "setProps" /\ c.i = i)
          <6>1. SUFFICES ASSUME c.pc = "setProps", c.i = i PROVE FALSE
            OBVIOUS
          <6>2. About(c, i)
            BY <1>2, <6>1 DEF CallOK, EventPCs, About
          <6>3. QED
            BY <1>1, <1>5, <4>1, <4>3, <6>2 DEF EventInv
        <5>2. i \in matching' <=> i \in matching
          BY <1>1, <1>2, <2>2, <4>1, <5>1, Matches
        <5>3. Drops(matching', role'[u], g, i)
          BY <1>3, <3>3, <4>3, <5>2 DEF Drops
        <5>4. QED
          BY <5>3
      <4>4. QED
        BY <4>2, <4>3
    <3>4. QED
      BY <2>1, <3>1, <3>2, <3>3
  <2>4. ASSUME NEW u \in Threads, role'[u].pc = "setProps", role'[u].i = i PROVE role'[u].g = g
    <3>1. CASE u # t
      BY <1>3, <2>1, <2>4, <3>1
    <3>2. CASE u = t
      <4>1. d.pc = "setProps" /\ d.i = i
        BY <1>3, <2>4, <3>2
      <4>2. PICK j \in Items : Changes(t, j, d) /\ d.g = IF j \in matching THEN listener ELSE 0
        BY <1>1, <4>1, Modifies
      <4>3. j = i
        BY <4>1, <4>2 DEF Changes
      <4>4. Listed(i)
        BY <2>1, <2>2, <4>2, <4>3 DEF Drops
      <4>5. QED
        BY <1>3, <1>9, <3>2, <4>2, <4>3, <4>4 DEF Listed
    <3>3. QED
      BY <3>1, <3>2
  <2>5. QED
    BY <1>8, <2>3, <2>4
<1>12. QED
  BY <1>10, <1>11

\* What NoStaleService needs besides.
StalesInv == EmptiesInv /\ ListedInv /\ StaleInv

LEMMA StalesKeeps ==
    ASSUME IInv, IInv', StalesInv, [Next]_vars PROVE StalesInv'
<1>1. EmptiesInv'
  BY EmptiesKeeps DEF StalesInv
<1>2. /\ RoleInv /\ EventInv /\ OpenInv /\ FreshInv /\ AddersInv
      /\ MeanwhileInv /\ LookingInv /\ InitialInv /\ ListedInv /\ StaleInv
  BY DEF StalesInv, EmptiesInv, LosesInv
<1>3. ASSUME Kept, role' = role PROVE StalesInv'
  <2>1. UNCHANGED <<state, matching, raced, current, closed, overlap, initial, adding, tracked>> /\ during \subseteq during'
    BY <1>3 DEF Kept, SameServices, SameTracker, SameLists
  <2>2. Living' = Living /\ \A i : Listed(i)' <=> Listed(i)
    BY <1>3, <2>1 DEF Living, Live, Dying, Listed
  <2>3. ListedInv'
    BY <1>2, <1>3, <2>1, <2>2 DEF ListedInv
  <2>4. StaleInv'
    BY <1>2, <1>3, <2>1, <2>2 DEF StaleInv, TrackedIn
  <2>5. QED
    BY <1>1, <2>3, <2>4 DEF StalesInv
<1>4. ASSUME NEW t \in Threads, NEW d, Turn(t, d), Acts(t, d) PROVE StalesInv'
  <2>1. ListedInv' /\ StaleInv'
    BY <1>2, <1>4, ListedKeeps, StaleKeeps
  <2>2. QED
    BY <1>1, <2>1 DEF StalesInv
<1>5. (Kept /\ role' = role) \/ \E t \in Threads : \E d : Turn(t, d) /\ Acts(t, d)
  BY <1>2, StepIs
<1>6. QED
  BY <1>3, <1>4, <1>5

LEMMA StalesInit == ASSUME Init PROVE StalesInv
<1>1. EmptiesInv
  BY EmptiesInit
<1>2. \A t \in Threads : role[t] = Idle
  BY IdleIs DEF Init, role, Role
<1>3. current = 0 /\ \A g \in Gens : initial[g] = {} /\ adding[g] = {}
  BY DEF Init
<1>4. ListedInv
  BY <1>2, <1>3, IdleIs DEF ListedInv
<1>5. StaleInv
  BY <1>3 DEF StaleInv, Living, Gens
<1>6. QED
  BY <1>1, <1>4, <1>5 DEF StalesInv

\* An open tracker keeps no stale service, for any number of threads, services, generations and
\* calls: when no call is in progress, what it tracks is registered and matches its filter, unless
\* it changed while an Open was in progress or on two threads at once, or was among the initial
\* references an Open that a customizer left by an exception had yet to look at
\* (TrackedService::ServiceChanged, BundleAbstractTracked::Untrack).
THEOREM NoServiceIsStale == Spec => []NoStaleService
<1>1. Init => StalesInv
  BY StalesInit
<1>2. IInv /\ IInv' /\ StalesInv /\ [Next]_vars => StalesInv'
  BY StalesKeeps
<1>3. IInv /\ StalesInv => NoStaleService
  <2> SUFFICES ASSUME IInv, StalesInv, Quiet, Open_, NEW i \in TrackedIn(current), i \notin raced \cup during
               PROVE  state[i] = "listed" /\ i \in matching
    BY DEF NoStaleService
  <2>1. \A t \in Threads : role[t] = Idle
    BY QuietIs DEF StalesInv, EmptiesInv, LosesInv
  <2>2. current \in Gens /\ current \notin closed \cup overlap
    BY TrackerAssumption DEF Open_, IInv, StateInv, Gens
  <2>3. ~ Dying
    BY <2>1, IdleIs DEF Dying
  <2>4. current \in Living
    BY <2>2, <2>3 DEF Living, Live
  <2>5. Listed(i) \/ \E t \in Threads : Drops(matching, role[t], current, i)
    BY <2>4 DEF StalesInv, StaleInv
  <2>6. QED
    BY <2>1, <2>5, IdleIs DEF Drops, About, Events, Listed
<1>4. QED
  BY <1>1, <1>2, <1>3, AlwaysIInv, PTL DEF Spec
=============================================================================
