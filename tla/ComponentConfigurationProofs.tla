-------------------- MODULE ComponentConfigurationProofs --------------------
(***************************************************************************)
(* Theorems about ComponentConfiguration, for any threads, references and  *)
(* numbers of calls and failures: a deactivation excludes the calls of the *)
(* state it replaced, and a configuration nobody is at work on is settled. *)
(***************************************************************************)
EXTENDS ComponentConfiguration, FiniteSetTheorems, TLAPS

ObjType   == [kind : Kinds, ready : BOOLEAN, latch : {CLOSED} \cup Nat, busy : BOOLEAN]
Fault     == [pc |-> "fault"]
FrameType == Frames \cup {Idle, Fault}
Ids       == 1 .. Len(objects)

TypeInv ==
    /\ immediate \in BOOLEAN
    /\ objects \in Seq(ObjType) /\ state \in Ids
    /\ serviceReg \in BOOLEAN /\ visible \in BOOLEAN /\ instance \in BOOLEAN
    /\ data = {} \/ \E t \in Threads : data = {t}
    /\ satisfied \subseteq Refs /\ enabled \in BOOLEAN
    /\ frame \in [Threads -> FrameType]
    /\ calls \in 0 .. MaxCalls /\ failures \in 0 .. MaxFailures
    /\ crossed \in BOOLEAN /\ early \in BOOLEAN /\ refused \in BOOLEAN

-----------------------------------------------------------------------------
(* The inductive invariant. *)

\* Where a call registers the component, is at work on an active state, and deactivates it.
RegisterPCs   == {"registerWait", "registerService", "registerStore", "setRegistered", "registerFailed"}
ActivePCs     == Inside \cup {"countUp", "activateFailed"}
DeactivatePCs == {"deactivateWait", "unregister", "destroy", "setValue"}
ClientPCs     == {"activate", "countUp", "lock", "create", "countDown", "activateFailed"}

Unsatisfied == KindOf(state) = "UNSATISFIED_REFERENCE"

\* What a call knows of the objects it replaced and installed.
FrameInv(f) ==
    /\ f.pc \in RegisterPCs => /\ f.old \in Ids /\ f.new \in Ids
                               /\ KindOf(f.new) = "SATISFIED" /\ ~ objects[f.new].ready
    /\ f.pc \in ActivePCs => f.new \in Ids /\ KindOf(f.new) = "ACTIVE"
    /\ f.pc = "join" => f.old \in Ids
    /\ f.pc = "deactivate" => f.new = 0 /\ f.body # "modify"
    /\ f.pc \in DeactivatePCs => /\ f.old \in Ids /\ KindOf(f.old) # "UNSATISFIED_REFERENCE"
                                 /\ f.new \in Ids /\ KindOf(f.new) = "UNSATISFIED_REFERENCE"
    /\ f.pc = "deactivateLoop" /\ f.new # 0 => f.new \in Ids /\ KindOf(f.new) = "UNSATISFIED_REFERENCE"

\* Clients activate and do nothing else.
CallInv(f) ==
    /\ f.pc \notin {"idle", "fault"} /\ f.client => f.pc \in ClientPCs /\ f.body = "create"
    /\ f.pc \notin {"idle", "fault"} /\ f.ok => f.pc = "countDown"
    /\ f.pc \in RegisterPCs \cup {"refSatisfied", "register", "reregister"} => f.body # "modify"
    /\ f.pc \in {"create", "modify", "bind"} => f.body = f.pc

FramesInv ==
    /\ \A t \in Threads : FrameInv(F(t)) /\ CallInv(F(t))
    /\ \A t, u \in Threads : F(t).pc \in RegisterPCs /\ F(u).pc \in RegisterPCs /\ F(t).new = F(u).new => t = u
    /\ \A t \in data : F(t).pc = "create"

\* The latch of an active state counts the threads at work on it. Once it is closed there are none,
\* and whoever has waited for it has closed it.
Within(o) == {t \in Threads : F(t).pc \in Inside /\ F(t).new = o}
LatchInv ==
    /\ \A o \in Ids : objects[o].latch # CLOSED =>
            /\ objects[o].latch <= Cardinality(Threads)
            /\ Crashed \/ objects[o].latch = Cardinality(Within(o))
    /\ \A o \in Ids : objects[o].latch = CLOSED => Within(o) = {}
    /\ \A t \in Threads : F(t).pc \in {"unregister", "destroy"} /\ KindOf(F(t).old) = "ACTIVE" =>
                              objects[F(t).old].latch = CLOSED

\* A future that is not ready has a thread that will make it ready.
ReadyInv == \A o \in Ids : ~ objects[o].ready =>
                \E t \in Threads : F(t).pc \in RegisterPCs \cup DeactivatePCs /\ F(t).new = o

\* An instance of a configuration that is unsatisfied, or was a moment ago, has a thread that will
\* destroy it, and one that is being made too.
Unsettled   == Unsatisfied \/ (KindOf(state) = "SATISFIED" /\ ~ objects[state].ready)
InstanceInv == Unsettled /\ (instance \/ data # {}) =>
                   \E t \in Threads : F(t).pc \in {"deactivateWait", "unregister", "destroy"}

\* A service in the registry has its registration stored, or will have; the registration of an
\* unsatisfied configuration has a thread that will take it away.
Undone == Unsatisfied \/ \E t \in Threads : F(t).pc \in {"registerWait", "registerService", "registerFailed"}
                                            /\ F(t).new = state
RegistryInv ==
    /\ visible => serviceReg \/ \E t \in Threads : F(t).pc = "registerStore"
    /\ ~ early /\ serviceReg /\ Undone => \E t \in Threads : F(t).pc \in {"deactivateWait", "unregister"}

\* One notification at a time: what is true at each place of the only one, and without any.
Notifier(t) == F(t).pc \notin {"idle", "fault"} /\ ~ F(t).client
Wanted      == enabled /\ Refs \subseteq satisfied
Even        == (visible <=> serviceReg) /\ (visible <=> ~ Unsatisfied)
Rest        == Even /\ (visible <=> Wanted)
Gone        == ~ visible /\ ~ serviceReg /\ Unsatisfied

PlaceInv(f) ==
    /\ f.pc = "refSatisfied" => Gone /\ enabled /\ f.ref \in satisfied
    /\ f.pc = "register" => Even /\ Wanted
    /\ f.pc \in {"registerWait", "registerService"} => ~ visible /\ ~ serviceReg /\ ~ Unsatisfied /\ Wanted
    /\ f.pc = "registerStore" => visible /\ ~ serviceReg /\ ~ Unsatisfied /\ Wanted
    /\ f.pc = "setRegistered" => Rest /\ visible
    /\ f.pc # "registerFailed"
    /\ f.pc \in {"activate"} \cup ActivePCs => Rest /\ (f.body = "modify" => enabled)
    /\ f.pc = "reregister" => Even /\ enabled /\ (visible => Wanted)
    /\ f.pc \in {"deactivate", "join"} => Even /\ ~ Wanted
    /\ f.pc = "join" => Unsatisfied
    /\ f.pc \in {"deactivateLoop"} \cup DeactivatePCs => IF f.body = "modify" THEN enabled ELSE ~ Wanted
    /\ f.pc = "deactivateLoop" => Even /\ (f.new # 0 => Unsatisfied)
    /\ f.pc \in {"deactivateWait", "unregister"} => visible /\ serviceReg /\ Unsatisfied
    /\ f.pc \in {"destroy", "setValue"} => Gone
    /\ f.pc \in DeactivatePCs => ~ objects[f.new].ready

OneNotifier == \A t, u \in Threads : Notifier(t) /\ Notifier(u) => t = u
Alone ==
    /\ (\A t \in Threads : ~ Notifier(t)) => Rest
    /\ \A t \in Threads : Notifier(t) => PlaceInv(F(t))
NotifyInv == ~ crossed => OneNotifier /\ (~ refused => Alone)

IInv == TypeInv /\ FramesInv /\ LatchInv /\ ReadyInv /\ InstanceInv /\ RegistryInv /\ NotifyInv
-----------------------------------------------------------------------------
(* What a step of a thread does to the parts of the invariant. *)

\* The thread goes on as g; the objects stay and keep their kinds, and there may be another one.
Moves(t, g) == g \in FrameType /\ frame' = [frame EXCEPT ![t] = g]
Grows == /\ objects' \in Seq(ObjType) /\ Len(objects') \in Nat /\ Len(objects) <= Len(objects')
         /\ \A o \in Ids : objects'[o].kind = objects[o].kind

\* An object is installed, or one object changes a field other than its kind.
LEMMA Appends ==
    ASSUME NEW S, NEW s \in Seq(S), NEW e \in S
    PROVE  /\ Append(s, e) \in Seq(S) /\ Len(Append(s, e)) = Len(s) + 1 /\ Append(s, e)[Len(s) + 1] = e
           /\ \A i \in 1 .. Len(s) : Append(s, e)[i] = s[i]
           /\ Len(s) \in Nat
OBVIOUS

LEMMA Sets ==
    ASSUME NEW S, NEW s \in Seq(S), NEW e \in S, NEW k \in 1 .. Len(s)
    PROVE  /\ [s EXCEPT ![k] = e] \in Seq(S) /\ Len([s EXCEPT ![k] = e]) = Len(s)
           /\ [s EXCEPT ![k] = e][k] = e
           /\ \A i \in 1 .. Len(s) : i # k => [s EXCEPT ![k] = e][i] = s[i]
           /\ Len(s) \in Nat
OBVIOUS

\* Frames: what the thread knows is true of the objects after the step, and a call that registers has
\* begun with a new object or has the one it had.
LEMMA FramesKept ==
    ASSUME NEW t \in Threads, NEW g, TypeInv, FramesInv, Moves(t, g), Grows,
           \A u \in Threads \ {t} : F(u).pc \in RegisterPCs => ~ objects'[F(u).new].ready,
           FrameInv(g)', CallInv(g)',
           g.pc \in RegisterPCs => (F(t).pc \in RegisterPCs /\ g.new = F(t).new) \/ g.new \notin Ids,
           \A u \in data' : (u # t => u \in data) /\ (u = t => g.pc = "create")
    PROVE  FramesInv'
<1>1. \A u \in Threads : F(u)' = IF u = t THEN g ELSE F(u)
  BY DEF Moves, F, TypeInv
<1>2. \A u \in Threads : FrameInv(F(u))'
  <2> SUFFICES ASSUME NEW u \in Threads PROVE FrameInv(F(u))'
    OBVIOUS
  <2>1. CASE u = t
    BY <1>1, <2>1
  <2>2. CASE u # t
    <3>1. PICK h : h = F(u)
      OBVIOUS
    <3>2. F(u)' = h
      BY <1>1, <2>2, <3>1
    <3>3. FrameInv(h)
      BY <3>1 DEF FramesInv
    <3>4. FrameInv(h)'
      <4>1. \A o \in Ids : o \in Ids' /\ KindOf(o)' = KindOf(o)
        BY DEF Grows, KindOf, Ids, TypeInv
      <4>2. h.pc \in RegisterPCs => ~ objects'[h.new].ready
        BY <2>2, <3>1
      <4>3. QED
        BY <3>3, <4>1, <4>2 DEF FrameInv
    <3> QED
      BY <3>2, <3>4
  <2> QED
    BY <2>1, <2>2
<1>3. \A u \in Threads : CallInv(F(u))'
  <2> SUFFICES ASSUME NEW u \in Threads PROVE CallInv(F(u))'
    OBVIOUS
  <2>1. CASE u = t
    BY <1>1, <2>1
  <2>2. CASE u # t
    BY <1>1, <2>2 DEF FramesInv, CallInv
  <2> QED
    BY <2>1, <2>2
<1>4. \A u, v \in Threads : F(u)'.pc \in RegisterPCs /\ F(v)'.pc \in RegisterPCs /\ F(u)'.new = F(v)'.new => u = v
  BY <1>1 DEF FramesInv, FrameInv
<1>5. \A u \in data' : F(u)'.pc = "create"
  BY <1>1 DEF FramesInv, TypeInv
<1> QED
  BY <1>2, <1>3, <1>4, <1>5 DEF FramesInv

\* Latches: none changes, and the thread stays in or out.
LEMMA LatchKept ==
    ASSUME NEW t \in Threads, NEW g, TypeInv, FramesInv, LatchInv, Moves(t, g), Grows, ~ Crashed,
           g.pc # "fault",
           \A o \in Ids : objects'[o].latch = objects[o].latch,
           \A o \in Ids' \ Ids : objects'[o].latch = 0,
           (g.pc \in Inside) <=> (F(t).pc \in Inside),
           g.pc \in Inside => g.new = F(t).new,
           g.pc \in {"unregister", "destroy"} => F(t).pc \in {"unregister", "destroy"} /\ g.old = F(t).old
    PROVE  LatchInv'
<1>1. \A u \in Threads : F(u)' = IF u = t THEN g ELSE F(u)
  BY DEF Moves, F, TypeInv
<1>2. \A o : Within(o)' = Within(o)
  BY <1>1 DEF Within
<1>3. \A o \in Ids' \ Ids : Within(o) = {}
  BY DEF Within, FramesInv, FrameInv, ActivePCs
<1>4. Cardinality({}) = 0 /\ Cardinality(Threads) \in Nat
  BY FS_EmptySet, FS_CardinalityType, ConfigurationAssumption
<1>5. ~ Crashed'
  BY <1>1 DEF Crashed, F
<1>6. Ids \subseteq Ids'
  BY DEF Ids, Grows, TypeInv
<1>7. \A o \in Ids' : objects'[o].latch # CLOSED =>
          objects'[o].latch <= Cardinality(Threads) /\ objects'[o].latch = Cardinality(Within(o)')
  <2> SUFFICES ASSUME NEW o \in Ids', objects'[o].latch # CLOSED
               PROVE  objects'[o].latch <= Cardinality(Threads) /\ objects'[o].latch = Cardinality(Within(o)')
    OBVIOUS
  <2>1. CASE o \in Ids
    BY <1>2, <2>1 DEF LatchInv
  <2>2. CASE o \notin Ids
    <3>1. objects'[o].latch = 0 /\ Within(o)' = {}
      BY <1>2, <1>3, <2>2
    <3> QED
      BY <3>1, <1>4
  <2> QED
    BY <2>1, <2>2
<1>8. \A o \in Ids' : objects'[o].latch = CLOSED => Within(o)' = {}
  BY <1>2, <1>3 DEF LatchInv
<1>9. \A u \in Threads : F(u)'.pc \in {"unregister", "destroy"} /\ (objects'[F(u)'.old]).kind = "ACTIVE" =>
          objects'[F(u)'.old].latch = CLOSED
  <2>1. \A u \in Threads : F(u).pc \in {"unregister", "destroy"} => F(u).old \in Ids
    BY DEF FramesInv, FrameInv, DeactivatePCs
  <2> QED
    BY <1>1, <2>1 DEF LatchInv, Grows, KindOf
<1> QED
  BY <1>5, <1>7, <1>8, <1>9 DEF LatchInv, KindOf

\* Futures: whatever the thread was to make ready is ready or still its business.
LEMMA ReadyKept ==
    ASSUME NEW t \in Threads, NEW g, TypeInv, ReadyInv, Moves(t, g), Grows,
           \A o \in Ids : objects[o].ready => objects'[o].ready,
           \A o \in Ids' \ Ids : ~ objects'[o].ready => g.pc \in RegisterPCs \cup DeactivatePCs /\ g.new = o,
           F(t).pc \in RegisterPCs \cup DeactivatePCs =>
               \/ g.pc \in RegisterPCs \cup DeactivatePCs /\ g.new = F(t).new
               \/ objects'[F(t).new].ready
    PROVE  ReadyInv'
<1>1. \A u \in Threads : F(u)' = IF u = t THEN g ELSE F(u)
  BY DEF Moves, F, TypeInv
<1> SUFFICES ASSUME NEW o \in Ids', ~ objects'[o].ready
             PROVE  \E u \in Threads : F(u)'.pc \in RegisterPCs \cup DeactivatePCs /\ F(u)'.new = o
  BY DEF ReadyInv
<1>2. CASE o \in Ids
  <2>1. PICK u \in Threads : F(u).pc \in RegisterPCs \cup DeactivatePCs /\ F(u).new = o
    BY <1>2 DEF ReadyInv
  <2> QED
    BY <1>1, <2>1
<1>3. CASE o \notin Ids
  BY <1>1, <1>3
<1> QED
  BY <1>2, <1>3

\* The instance: the thread is on its way to destroy it, or the step gives no reason to.
LEMMA InstanceKept ==
    ASSUME NEW t \in Threads, NEW g, TypeInv, InstanceInv, Moves(t, g),
           \/ g.pc \in {"deactivateWait", "unregister", "destroy"}
           \/ Unsettled' /\ (instance' \/ data' # {}) =>
                  /\ Unsettled /\ (instance \/ data # {})
                  /\ F(t).pc \notin {"deactivateWait", "unregister", "destroy"}
    PROVE  InstanceInv'
<1>1. \A u \in Threads : F(u)' = IF u = t THEN g ELSE F(u)
  BY DEF Moves, F, TypeInv
<1> QED
  BY <1>1 DEF InstanceInv

\* The registration, in the same way.
LEMMA RegistryKept ==
    ASSUME NEW t \in Threads, NEW g, TypeInv, RegistryInv, Moves(t, g),
           visible' => serviceReg' \/ g.pc = "registerStore" \/ (visible /\ ~ serviceReg /\ F(t).pc # "registerStore"),
           \/ g.pc \in {"deactivateWait", "unregister"}
           \/ ~ early' /\ serviceReg' /\ Undone' => /\ ~ early /\ serviceReg /\ Undone
                                                    /\ F(t).pc \notin {"deactivateWait", "unregister"}
    PROVE  RegistryInv'
<1>1. \A u \in Threads : F(u)' = IF u = t THEN g ELSE F(u)
  BY DEF Moves, F, TypeInv
<1>2. visible' => serviceReg' \/ \E u \in Threads : F(u)'.pc = "registerStore"
  BY <1>1 DEF RegistryInv
<1>3. ~ early' /\ serviceReg' /\ Undone' => \E u \in Threads : F(u)'.pc \in {"deactivateWait", "unregister"}
  BY <1>1 DEF RegistryInv
<1> QED
  BY <1>2, <1>3 DEF RegistryInv

\* A state that is replaced by none of the steps of a registration is not undone.
LEMMA UndoneKept ==
    ASSUME NEW t \in Threads, NEW g, TypeInv, Moves(t, g), state' = state, Unsatisfied' => Unsatisfied,
           g.pc \in {"registerWait", "registerService", "registerFailed"} =>
               F(t).pc \in {"registerWait", "registerService", "registerFailed"} /\ g.new = F(t).new,
           Undone'
    PROVE  Undone
<1>1. \A u \in Threads : F(u)' = IF u = t THEN g ELSE F(u)
  BY DEF Moves, F, TypeInv
<1> QED
  BY <1>1 DEF Undone

\* Notifications: a client changes nothing that matters; a notification goes on at a place that fits.
LEMMA ClientKept ==
    ASSUME NEW t \in Threads, NEW g, TypeInv, NotifyInv, Moves(t, g), ~ Notifier(t), F(t).pc # "idle" \/ g.client,
           g.pc \in {"idle", "fault"} \/ g.client,
           UNCHANGED <<visible, serviceReg, enabled, satisfied>>, Unsatisfied' = Unsatisfied,
           crossed' = crossed, refused' = refused,
           \A o \in Ids : objects'[o].ready = objects[o].ready, FramesInv
    PROVE  NotifyInv'
<1>1. \A u \in Threads : F(u)' = IF u = t THEN g ELSE F(u)
  BY DEF Moves, F, TypeInv
<1>2. \A u \in Threads : Notifier(u)' = Notifier(u)
  BY <1>1 DEF Notifier
<1>3. Rest' = Rest /\ Even' = Even /\ Wanted' = Wanted /\ Gone' = Gone
  BY DEF Rest, Even, Wanted, Gone
<1>4. \A u \in Threads : Notifier(u) /\ PlaceInv(F(u)) => PlaceInv(F(u))'
  <2> SUFFICES ASSUME NEW u \in Threads, Notifier(u), PlaceInv(F(u)) PROVE PlaceInv(F(u))'
    OBVIOUS
  <2>1. PICK h : h = F(u)
    OBVIOUS
  <2>2. F(u)' = h
    BY <1>1, <2>1
  <2>3. h.pc \in DeactivatePCs => h.new \in Ids
    BY <2>1 DEF FramesInv, FrameInv
  <2>4. PlaceInv(h)'
    BY <1>3, <2>1, <2>3 DEF PlaceInv
  <2> QED
    BY <2>2, <2>4
<1> QED
  BY <1>2, <1>3, <1>4 DEF NotifyInv, OneNotifier, Alone

LEMMA NotifierKept ==
    ASSUME NEW t \in Threads, NEW g, TypeInv, NotifyInv, Moves(t, g), Notifier(t),
           g.pc \in {"idle", "fault"} \/ ~ g.client,
           crossed' = crossed, ~ refused' => ~ refused,
           ~ refused' /\ PlaceInv(F(t)) => IF g.pc \in {"idle", "fault"} THEN Rest' ELSE PlaceInv(g)'
    PROVE  NotifyInv'
<1>1. \A u \in Threads : F(u)' = IF u = t THEN g ELSE F(u)
  BY DEF Moves, F, TypeInv
<1>2. \A u \in Threads : Notifier(u)' => Notifier(u)
  BY <1>1 DEF Notifier
<1> SUFFICES ASSUME ~ crossed' PROVE OneNotifier' /\ (~ refused' => Alone')
  BY DEF NotifyInv
<1>3. OneNotifier'
  BY <1>2 DEF NotifyInv, OneNotifier
<1>4. ASSUME ~ refused' PROVE Alone'
  <2>1. PlaceInv(F(t))
    BY <1>4 DEF NotifyInv, Alone
  <2>2. \A u \in Threads : Notifier(u)' => u = t
    BY <1>2 DEF NotifyInv, OneNotifier
  <2>3. g.pc \notin {"idle", "fault"} => Notifier(t)'
    BY <1>1 DEF Notifier
  <2>4. (\A u \in Threads : ~ Notifier(u)') => Rest'
    BY <2>1, <2>3, <1>4
  <2>5. Notifier(t)' => PlaceInv(F(t))'
    <3>1. F(t)' = g
      BY <1>1
    <3> QED
      BY <3>1, <2>1, <1>4 DEF Notifier
  <2> QED
    BY <2>2, <2>4, <2>5 DEF Alone
<1> QED
  BY <1>3, <1>4
\* A step that leaves the objects alone.
LEMMA PlainKept ==
    ASSUME NEW t \in Threads, NEW g, IInv, Moves(t, g), UNCHANGED objects, ~ Crashed, g.pc # "fault",
           FrameInv(g), CallInv(g),
           g.pc \in RegisterPCs => F(t).pc \in RegisterPCs /\ g.new = F(t).new,
           \A u \in data' : (u # t => u \in data) /\ (u = t => g.pc = "create"),
           (g.pc \in Inside) <=> (F(t).pc \in Inside),
           g.pc \in Inside => g.new = F(t).new,
           g.pc \in {"unregister", "destroy"} => F(t).pc \in {"unregister", "destroy"} /\ g.old = F(t).old,
           F(t).pc \in RegisterPCs \cup DeactivatePCs =>
               g.pc \in RegisterPCs \cup DeactivatePCs /\ g.new = F(t).new
    PROVE  FramesInv' /\ LatchInv' /\ ReadyInv'
<1> USE DEF IInv
<1>1. Grows /\ Ids' = Ids
  BY DEF Grows, Ids, TypeInv
<1>2. objects' = objects
  OBVIOUS
<1>3. FrameInv(g)' /\ CallInv(g)'
  BY <1>1, <1>2 DEF FrameInv, CallInv, KindOf
<1>4. \A u \in Threads \ {t} : F(u).pc \in RegisterPCs => ~ objects'[F(u).new].ready
  BY <1>2 DEF FramesInv, FrameInv
<1>5. FramesInv'
  BY <1>1, <1>3, <1>4, FramesKept
<1>6. LatchInv'
  BY <1>1, <1>2, LatchKept
<1>7. ReadyInv'
  BY <1>1, <1>2, ReadyKept
<1> QED
  BY <1>5, <1>6, <1>7

\* Thread t makes a step: it is not idle, and no thread has crashed.
LEMMA FrameOf ==
    ASSUME TypeInv, NEW t \in Threads, ~ Crashed, F(t).pc # "idle"
    PROVE  F(t) \in Frames
BY DEF TypeInv, FrameType, Idle, Fault, Crashed, F

LEMMA IdlePlaces ==
    /\ Idle.pc = "idle" /\ Idle \in FrameType
    /\ FrameInv(Idle) /\ CallInv(Idle)
BY DEF Idle, FrameType, FrameInv, CallInv, RegisterPCs, ActivePCs, Inside, DeactivatePCs

\* What places say does not change with the threads.
LEMMA SameOutlook ==
    ASSUME UNCHANGED <<objects, state, visible, serviceReg, enabled, satisfied>>
    PROVE  /\ Rest' = Rest /\ Even' = Even /\ Wanted' = Wanted /\ Gone' = Gone /\ Unsatisfied' = Unsatisfied
           /\ \A g : PlaceInv(g)' = PlaceInv(g)
<1>1. Rest' = Rest /\ Even' = Even /\ Wanted' = Wanted /\ Gone' = Gone /\ Unsatisfied' = Unsatisfied
  BY DEF Rest, Even, Wanted, Gone, Unsatisfied, KindOf
<1>2. ASSUME NEW g PROVE PlaceInv(g)' = PlaceInv(g)
  BY <1>1 DEF PlaceInv
<1> QED
  BY <1>1, <1>2

-----------------------------------------------------------------------------
(* Register. *)

\* A step in which the thread goes on and nothing else changes.
LEMMA GoKept ==
    ASSUME NEW t \in Threads, NEW f \in Frames, NEW g, IInv, f = F(t), Moves(t, g), ~ Crashed,
           UNCHANGED <<machine, registry, inst, inputs, counts, history>>,
           g.pc # "fault", FrameInv(g), CallInv(g), t \notin data,
           f.pc \notin DeactivatePCs \cup {"registerStore"}, g.pc \notin DeactivatePCs,
           f.pc \in RegisterPCs => g.pc \in RegisterPCs,
           g.pc \in RegisterPCs => /\ g.new = f.new
                                   /\ f.pc \in {"registerWait", "registerService", "registerFailed"},
           (g.pc \in Inside) <=> (f.pc \in Inside),
           g.pc \in Inside => g.new = f.new,
           g.pc # "idle" => g.client = f.client,
           ~ f.client /\ PlaceInv(f) => IF g.pc = "idle" THEN Rest ELSE PlaceInv(g)
    PROVE  IInv'
<1> USE DEF IInv
<1>1. TypeInv'
  BY DEF TypeInv, Moves, machine, registry, inst, inputs, counts, history, Ids
<1>2. FramesInv' /\ LatchInv' /\ ReadyInv'
  <2>1. \A u \in data' : u # t /\ u \in data
    BY DEF inst
  <2> QED
    BY <2>1, PlainKept DEF machine, RegisterPCs, DeactivatePCs
<1>3. InstanceInv'
  BY InstanceKept DEF DeactivatePCs, Unsettled, Unsatisfied, KindOf, machine, inst
<1>4. RegistryInv'
  <2>1. Undone' => Undone
    BY UndoneKept DEF RegisterPCs, Unsatisfied, KindOf, machine
  <2> QED
    BY <2>1, RegistryKept DEF DeactivatePCs, registry, history
<1>5. NotifyInv'
  <2>1. f.pc \notin {"idle", "fault"}
    BY DEF Frames, PCs
  <2>2. CASE f.client
    <3>1. ~ Notifier(t) /\ (g.pc = "idle" \/ g.client)
      BY <2>2 DEF Notifier
    <3> QED
      BY <2>1, <3>1, ClientKept DEF machine, registry, inputs, history, Unsatisfied, KindOf
  <2>3. CASE ~ f.client
    <3>1. Notifier(t) /\ (g.pc = "idle" \/ ~ g.client)
      BY <2>1, <2>3 DEF Notifier
    <3>2. PlaceInv(F(t)) => IF g.pc \in {"idle", "fault"} THEN Rest' ELSE PlaceInv(g)'
      BY <2>3, SameOutlook DEF machine, registry, inputs
    <3> QED
      BY <3>1, <3>2, NotifierKept DEF history
  <2> QED
    BY <2>2, <2>3
<1> QED
  BY <1>1, <1>2, <1>3, <1>4, <1>5

\* The call goes on with what it has.
Same(f, g) == g.client = f.client /\ g.ok = f.ok /\ g.body = f.body /\ g.old = f.old /\ g.new = f.new
              /\ g.via = f.via /\ g.made = f.made

LEMMA RefSatisfiedStep == ASSUME IInv, NEW t \in Threads, RefSatisfied(t) PROVE IInv'
<1> USE DEF RefSatisfied, At
<1>1. PICK f \in Frames : f = F(t)
  BY FrameOf DEF IInv
<1>2. PICK g : g = IF Refs \ {f.ref} \subseteq satisfied THEN [f EXCEPT !.pc = "register"] ELSE Idle
  OBVIOUS
<1>3. Moves(t, g)
  BY <1>1, <1>2 DEF Moves, Goto, Do, FrameType, Frames, PCs
<1>4. f.pc = "refSatisfied" /\ ((g.pc = "register" /\ Same(f, g)) \/ g.pc = "idle")
  BY <1>1, <1>2, IdlePlaces DEF Frames, Same
<1>5. FrameInv(f) /\ CallInv(f) /\ t \notin data
  BY <1>1, <1>4 DEF IInv, FramesInv
<1>6. FrameInv(g) /\ CallInv(g)
  BY <1>1, <1>4, <1>5 DEF Same, FrameInv, CallInv, RegisterPCs, ActivePCs, Inside, DeactivatePCs, ClientPCs
<1>7. ASSUME ~ f.client, PlaceInv(f) PROVE IF g.pc = "idle" THEN Rest ELSE PlaceInv(g)
  <2>1. Gone /\ enabled /\ f.ref \in satisfied
    BY <1>4, <1>7 DEF PlaceInv
  <2>2. (g.pc = "register") <=> Wanted
    BY <1>2, <1>4, <2>1, IdlePlaces DEF Wanted, IInv, TypeInv
  <2>3. g.pc = "register" => PlaceInv(g)
    BY <2>1, <2>2 DEF PlaceInv, Gone, Even, RegisterPCs, ActivePCs, Inside, DeactivatePCs
  <2>4. g.pc = "idle" => Rest
    BY <2>1, <2>2 DEF Rest, Gone, Even
  <2> QED
    BY <1>4, <2>3, <2>4
<1> QED
  BY <1>1, <1>3, <1>4, <1>5, <1>6, <1>7, GoKept DEF Same, RegisterPCs, Inside, DeactivatePCs

LEMMA ReregisterStep == ASSUME IInv, NEW t \in Threads, Reregister(t) PROVE IInv'
<1> USE DEF Reregister, At
<1>1. PICK f \in Frames : f = F(t)
  BY FrameOf DEF IInv
<1>2. PICK g : g = IF Refs \subseteq satisfied THEN [f EXCEPT !.pc = "register"] ELSE Idle
  OBVIOUS
<1>3. Moves(t, g)
  BY <1>1, <1>2 DEF Moves, Goto, Do, FrameType, Frames, PCs
<1>4. f.pc = "reregister" /\ ((g.pc = "register" /\ Same(f, g)) \/ g.pc = "idle")
  BY <1>1, <1>2, IdlePlaces DEF Frames, Same
<1>5. FrameInv(f) /\ CallInv(f) /\ t \notin data
  BY <1>1, <1>4 DEF IInv, FramesInv
<1>6. FrameInv(g) /\ CallInv(g)
  BY <1>1, <1>4, <1>5 DEF Same, FrameInv, CallInv, RegisterPCs, ActivePCs, Inside, DeactivatePCs, ClientPCs
<1>7. ASSUME ~ f.client, PlaceInv(f) PROVE IF g.pc = "idle" THEN Rest ELSE PlaceInv(g)
  <2>1. Even /\ enabled /\ (visible => Wanted)
    BY <1>4, <1>7 DEF PlaceInv
  <2>2. (g.pc = "register") <=> Wanted
    BY <1>2, <1>4, <2>1, IdlePlaces DEF Wanted
  <2>3. g.pc = "register" => PlaceInv(g)
    BY <2>1, <2>2 DEF PlaceInv, RegisterPCs, ActivePCs, Inside, DeactivatePCs
  <2>4. g.pc = "idle" => Rest
    BY <2>1, <2>2 DEF Rest
  <2> QED
    BY <1>4, <2>3, <2>4
<1> QED
  BY <1>1, <1>3, <1>4, <1>5, <1>6, <1>7, GoKept DEF Same, RegisterPCs, Inside, DeactivatePCs

LEMMA RegisterWaitStep == ASSUME IInv, NEW t \in Threads, RegisterWait(t) PROVE IInv'
<1> USE DEF RegisterWait, At
<1>1. PICK f \in Frames : f = F(t)
  BY FrameOf DEF IInv
<1>2. PICK g : g = [f EXCEPT !.pc = "registerService"]
  OBVIOUS
<1>3. Moves(t, g)
  BY <1>1, <1>2 DEF Moves, Goto, Do, FrameType, Frames, PCs
<1>4. f.pc = "registerWait" /\ g.pc = "registerService" /\ Same(f, g)
  BY <1>1, <1>2, IdlePlaces DEF Frames, Same
<1>5. FrameInv(f) /\ CallInv(f) /\ t \notin data
  BY <1>1, <1>4 DEF IInv, FramesInv
<1>6. FrameInv(g) /\ CallInv(g)
  BY <1>1, <1>4, <1>5 DEF Same, FrameInv, CallInv, RegisterPCs, ActivePCs, Inside, DeactivatePCs, ClientPCs
<1>7. ASSUME ~ f.client, PlaceInv(f) PROVE IF g.pc = "idle" THEN Rest ELSE PlaceInv(g)
  BY <1>4, <1>7 DEF PlaceInv, RegisterPCs, ActivePCs, Inside, DeactivatePCs
<1> QED
  BY <1>1, <1>3, <1>4, <1>5, <1>6, <1>7, GoKept DEF Same, RegisterPCs, Inside, DeactivatePCs

LEMMA RegisterServiceStep == ASSUME IInv, NEW t \in Threads, RegisterService(t) PROVE IInv'
<1> USE DEF IInv, RegisterService, At
<1>1. PICK f \in Frames : f = F(t)
  BY FrameOf
<1>2. PICK g : /\ g.pc \in {"setRegistered", "registerStore", "registerFailed"}
                /\ g = [f EXCEPT !.pc = g.pc] /\ Do(t, g)
                /\ \/ serviceReg /\ g.pc = "setRegistered" /\ UNCHANGED <<visible, failures, refused>>
                   \/ ~ serviceReg /\ g.pc = "registerStore" /\ visible' = TRUE /\ UNCHANGED <<failures, refused>>
                   \/ ~ serviceReg /\ g.pc = "registerFailed" /\ Fails /\ refused' = TRUE /\ UNCHANGED visible
  <2>1. \A l \in {"setRegistered", "registerStore", "registerFailed"} :
            [f EXCEPT !.pc = l].pc = l /\ (Goto(t, l) => Do(t, [f EXCEPT !.pc = l]))
    BY <1>1 DEF Frames, Goto
  <2>2. CASE serviceReg /\ Goto(t, "setRegistered") /\ UNCHANGED <<visible, failures, refused>>
    BY <2>1, <2>2
  <2>3. CASE ~ serviceReg /\ visible' = TRUE /\ Goto(t, "registerStore") /\ UNCHANGED <<failures, refused>>
    BY <2>1, <2>3
  <2>4. CASE ~ serviceReg /\ Fails /\ refused' = TRUE /\ Goto(t, "registerFailed") /\ UNCHANGED visible
    BY <2>1, <2>4
  <2> QED
    BY <2>2, <2>3, <2>4
<1>3. Moves(t, g)
  BY <1>1, <1>2 DEF Moves, Do, FrameType, Frames, PCs
<1>4. f.pc = "registerService" /\ g.pc \in {"setRegistered", "registerStore", "registerFailed"} /\ Same(f, g)
  BY <1>1, <1>2, IdlePlaces DEF Frames, Same
<1>5. TypeInv'
  <2>1. failures' \in 0 .. MaxFailures
    BY <1>2, ConfigurationAssumption DEF TypeInv, Fails
  <2>2. visible' \in BOOLEAN /\ refused' \in BOOLEAN
    BY <1>2 DEF TypeInv
  <2> QED
    BY <1>3, <2>1, <2>2 DEF TypeInv, Moves, machine, inst, inputs, Ids
<1>6. FramesInv' /\ LatchInv' /\ ReadyInv'
  <2>1. FrameInv(f) /\ CallInv(f)
    BY <1>1 DEF FramesInv
  <2>2. FrameInv(g) /\ CallInv(g)
    BY <1>1, <1>4, <2>1 DEF Same, FrameInv, CallInv, RegisterPCs, ActivePCs, Inside, DeactivatePCs, ClientPCs
  <2>3. \A u \in data' : u # t /\ u \in data
    BY <1>1, <1>4 DEF inst, FramesInv
  <2> QED
    BY <1>1, <1>3, <1>4, <2>2, <2>3, PlainKept DEF machine, Same, RegisterPCs, Inside, DeactivatePCs
<1>7. InstanceInv'
  BY <1>1, <1>3, <1>4, InstanceKept DEF Unsettled, Unsatisfied, KindOf, machine, inst
<1>8. RegistryInv'
  <2>1. Undone' => Undone
    BY <1>1, <1>3, <1>4, UndoneKept DEF Unsatisfied, KindOf, machine, Same
  <2> QED
    BY <1>1, <1>2, <1>3, <1>4, <2>1, RegistryKept
<1>9. NotifyInv'
  <2>1. Notifier(t)
    BY <1>1, <1>4 DEF Notifier, FramesInv, CallInv, ClientPCs
  <2>2. ASSUME ~ refused', PlaceInv(f) PROVE PlaceInv(g)'
    <3>1. ~ visible /\ ~ serviceReg /\ ~ Unsatisfied /\ Wanted
      BY <1>4, <2>2 DEF PlaceInv
    <3>2. g.pc = "registerStore" /\ visible' /\ ~ serviceReg' /\ ~ Unsatisfied' /\ Wanted'
      BY <1>2, <2>2, <3>1 DEF machine, inputs, Unsatisfied, KindOf, Wanted
    <3> QED
      BY <3>2 DEF PlaceInv, RegisterPCs, ActivePCs, Inside, DeactivatePCs
  <2> QED
    BY <1>1, <1>2, <1>3, <1>4, <2>1, <2>2, NotifierKept DEF history, Notifier, Same
<1> QED
  BY <1>5, <1>6, <1>7, <1>8, <1>9


LEMMA RegisterStoreStep == ASSUME IInv, NEW t \in Threads, RegisterStore(t) PROVE IInv'
<1> USE DEF IInv, RegisterStore, At
<1>1. PICK f \in Frames : f = F(t)
  BY FrameOf
<1>2. PICK g : g = [f EXCEPT !.pc = "setRegistered"]
  OBVIOUS
<1>3. Moves(t, g)
  BY <1>1, <1>2 DEF Moves, Goto, Do, FrameType, Frames, PCs
<1>4. f.pc = "registerStore" /\ g.pc = "setRegistered" /\ Same(f, g)
  BY <1>1, <1>2, IdlePlaces DEF Frames, Same
<1>5. TypeInv'
  BY <1>1, <1>3
     DEF TypeInv, Moves, machine, registry, inst, inputs, counts, history, Ids
<1>6. FramesInv' /\ LatchInv' /\ ReadyInv'
  <2>1. FrameInv(f) /\ CallInv(f)
    BY <1>1 DEF FramesInv
  <2>2. FrameInv(g) /\ CallInv(g)
    BY <1>1, <1>4, <2>1 DEF Same, FrameInv, CallInv, RegisterPCs, ActivePCs, Inside, DeactivatePCs, ClientPCs
  <2>3. \A u \in data' : u # t /\ u \in data
    BY <1>1, <1>4 DEF inst, FramesInv
  <2> QED
    BY <1>1, <1>3, <1>4, <2>2, <2>3, PlainKept DEF machine, Same, RegisterPCs, Inside, DeactivatePCs
<1>7. InstanceInv'
  BY <1>1, <1>3, <1>4, InstanceKept DEF Unsettled, Unsatisfied, KindOf, machine, inst
<1>8. RegistryInv'
  <2>2. ASSUME ~ early' PROVE ~ Undone'
    <3>1. state = f.new /\ state' = state
      BY <1>1, <2>2 DEF machine, TypeInv
    <3>2. f.pc \in RegisterPCs /\ ~ Unsatisfied'
      BY <1>1, <1>4, <3>1 DEF RegisterPCs, FramesInv, FrameInv, Unsatisfied, KindOf, machine
    <3>3. \A u \in Threads : F(u)' = IF u = t THEN g ELSE F(u)
      BY <1>3 DEF Moves, F, TypeInv
    <3>4. ASSUME NEW u \in Threads, F(u)'.pc \in {"registerWait", "registerService", "registerFailed"} PROVE F(u)'.new # state
      BY <1>1, <1>4, <3>1, <3>2, <3>3, <3>4 DEF FramesInv, RegisterPCs
    <3> QED
      BY <3>1, <3>2, <3>4 DEF Undone
  <2> QED
    BY <1>1, <1>3, <1>4, <2>2, RegistryKept
<1>9. NotifyInv'
  <2>1. Notifier(t)
    BY <1>1, <1>4 DEF Notifier, FramesInv, CallInv, ClientPCs
  <2>2. ASSUME PlaceInv(f) PROVE PlaceInv(g)'
    <3>1. visible /\ ~ Unsatisfied /\ Wanted
      BY <1>4, <2>2 DEF PlaceInv
    <3>2. visible' /\ serviceReg' /\ ~ Unsatisfied' /\ Wanted'
      BY <3>1 DEF machine, inputs, Unsatisfied, KindOf, Wanted
    <3> QED
      BY <1>4, <3>2 DEF PlaceInv, Rest, Even, RegisterPCs, ActivePCs, Inside, DeactivatePCs
  <2> QED
    BY <1>1, <1>3, <1>4, <2>1, <2>2, NotifierKept DEF history, Notifier, Same
<1> QED
  BY <1>5, <1>6, <1>7, <1>8, <1>9
-----------------------------------------------------------------------------
(* Steps that install or change an object. *)

LEMMA NewObject ==
    ASSUME NEW k \in Kinds, NEW r \in BOOLEAN
    PROVE  /\ New(k, r) \in ObjType
           /\ New(k, r).kind = k /\ New(k, r).ready = r /\ New(k, r).latch = 0
BY DEF New, ObjType

LEMMA Installed ==
    ASSUME TypeInv, NEW e \in ObjType, Install(e)
    PROVE  /\ Grows /\ Ids \subseteq Ids' /\ state' = Len(objects) + 1 /\ state' \in Ids' /\ state' \notin Ids
           /\ Len(objects) + 1 \in Nat \ {0}
           /\ \A o \in Ids' \ Ids : o = state'
           /\ objects'[state'] = e /\ \A o \in Ids : objects'[o] = objects[o]
<1>1. objects' = Append(objects, e) /\ state' = Len(objects) + 1 /\ objects \in Seq(ObjType)
  BY DEF Install, TypeInv
<1>2. /\ objects' \in Seq(ObjType) /\ Len(objects') = Len(objects) + 1 /\ objects'[Len(objects) + 1] = e
      /\ \A o \in Ids : objects'[o] = objects[o]
      /\ Len(objects) \in Nat
  BY <1>1, Appends DEF Ids
<1> QED
  BY <1>1, <1>2 DEF Grows, Ids

LEMMA Changed ==
    ASSUME TypeInv, NEW o \in Ids, NEW e \in ObjType, e.kind = objects[o].kind, objects' = [objects EXCEPT ![o] = e]
    PROVE  /\ Grows /\ Ids' = Ids
           /\ objects'[o] = e /\ \A i \in Ids \ {o} : objects'[i] = objects[i]
<1>1. /\ objects' \in Seq(ObjType) /\ Len(objects') = Len(objects) /\ Len(objects) \in Nat
      /\ objects'[o] = e /\ \A i \in Ids : i # o => objects'[i] = objects[i]
  BY Sets DEF Ids, TypeInv
<1> QED
  BY <1>1 DEF Grows, Ids

\* The future of an object is made ready.
LEMMA Readied ==
    ASSUME TypeInv, NEW o \in Ids, objects' = [objects EXCEPT ![o].ready = TRUE]
    PROVE  /\ Grows /\ Ids' = Ids
           /\ objects'[o].ready /\ objects'[o].latch = objects[o].latch
           /\ \A i \in Ids \ {o} : objects'[i] = objects[i]
<1>1. PICK e : e = [objects[o] EXCEPT !.ready = TRUE]
  OBVIOUS
<1>2. objects[o] \in ObjType
  BY DEF TypeInv, Ids
<1>3. e \in ObjType /\ e.kind = objects[o].kind /\ e.ready /\ e.latch = objects[o].latch
  BY <1>1, <1>2 DEF ObjType
<1>4. objects' = [objects EXCEPT ![o] = e]
  BY <1>1, <1>2 DEF TypeInv, Ids
<1> QED
  BY <1>3, <1>4, Changed

LEMMA RegisterStep == ASSUME IInv, NEW t \in Threads, Register(t) PROVE IInv'
<1> USE DEF IInv, Register, At
<1>1. PICK f \in Frames : f = F(t)
  BY FrameOf
<1>2. FrameInv(f) /\ CallInv(f) /\ f.pc = "register"
  BY <1>1 DEF FramesInv
<1>3. CASE Unsatisfied
  <2>1. Install(New("SATISFIED", FALSE))
    BY <1>3 DEF Unsatisfied
  <2>2. PICK g : g = [f EXCEPT !.pc = "registerWait", !.old = state, !.new = Len(objects) + 1]
    OBVIOUS
  <2>3. /\ Grows /\ Ids \subseteq Ids' /\ state' = Len(objects) + 1 /\ state' \in Ids' /\ state' \notin Ids
        /\ Len(objects) + 1 \in Nat /\ state \in Nat
        /\ \A o \in Ids' \ Ids : o = state'
        /\ objects'[state'].kind = "SATISFIED" /\ ~ objects'[state'].ready /\ objects'[state'].latch = 0
        /\ \A o \in Ids : objects'[o] = objects[o]
    <3>1. PICK e : e = New("SATISFIED", FALSE)
      OBVIOUS
    <3>2. e \in ObjType /\ e.kind = "SATISFIED" /\ ~ e.ready /\ e.latch = 0
      BY <3>1, NewObject DEF Kinds
    <3>3. state \in Nat
      BY DEF TypeInv, Ids
    <3> QED
      BY <2>1, <3>1, <3>2, <3>3, Installed
  <2>4. Moves(t, g)
    BY <1>1, <1>3, <2>2, <2>3 DEF Moves, Do, FrameType, Frames, PCs, Unsatisfied
  <2>5. /\ g.pc = "registerWait" /\ g.old = state /\ g.new = state'
        /\ g.client = f.client /\ g.ok = f.ok /\ g.body = f.body
    BY <1>1, <2>2, <2>3 DEF Frames
  <2>6. TypeInv'
    BY <2>3, <2>4 DEF TypeInv, Moves, Grows, registry, inst, inputs, counts, history
  <2>7. FramesInv'
    <3>1. FrameInv(g)'
      BY <2>3, <2>5 DEF TypeInv, FrameInv, KindOf, RegisterPCs, ActivePCs, Inside, DeactivatePCs
    <3>2. CallInv(g)'
      BY <1>2, <2>5 DEF CallInv, RegisterPCs, ClientPCs
    <3>3. \A u \in data' : u # t /\ u \in data
      BY <1>1, <1>2 DEF inst, FramesInv
    <3>4. \A u \in Threads \ {t} : F(u).pc \in RegisterPCs => ~ objects'[F(u).new].ready
      BY <2>3 DEF FramesInv, FrameInv
    <3> QED
      BY <2>3, <2>4, <2>5, <3>1, <3>2, <3>3, <3>4, FramesKept
  <2>8. LatchInv'
    BY <1>1, <1>2, <2>3, <2>4, <2>5, LatchKept DEF Inside
  <2>9. ReadyInv'
    BY <1>1, <1>2, <2>3, <2>4, <2>5, ReadyKept DEF RegisterPCs, DeactivatePCs
  <2>10. InstanceInv'
    BY <1>1, <1>2, <1>3, <2>4, InstanceKept DEF Unsettled, inst
  <2>11. RegistryInv'
    BY <1>1, <1>2, <1>3, <2>4, RegistryKept DEF Undone, registry, history
  <2>12. NotifyInv'
    <3>1. Notifier(t)
      BY <1>1, <1>2 DEF Notifier, CallInv, ClientPCs
    <3>2. ASSUME PlaceInv(f) PROVE PlaceInv(g)'
      <4>1. ~ visible /\ ~ serviceReg /\ Wanted
        BY <1>2, <1>3, <3>2 DEF PlaceInv, Even
      <4>2. ~ visible' /\ ~ serviceReg' /\ Wanted' /\ ~ Unsatisfied'
        BY <4>1, <2>3 DEF registry, inputs, Wanted, Unsatisfied, KindOf
      <4> QED
        BY <2>5, <4>2 DEF PlaceInv, RegisterPCs, ActivePCs, Inside, DeactivatePCs
    <3> QED
      BY <1>1, <2>4, <2>5, <3>1, <3>2, NotifierKept DEF history, Notifier
  <2> QED
    BY <2>6, <2>7, <2>8, <2>9, <2>10, <2>11, <2>12
<1>4. CASE ~ Unsatisfied
  <2>1. Moves(t, Idle) /\ UNCHANGED machine
    BY <1>4, IdlePlaces DEF Moves, Do, Unsatisfied
  <2>2. t \notin data
    BY <1>1, <1>2 DEF FramesInv
  <2>3. PlaceInv(f) => Rest
    BY <1>2, <1>4 DEF PlaceInv, Rest, Even
  <2> QED
    BY <1>1, <1>2, <2>1, <2>2, <2>3, IdlePlaces, GoKept DEF RegisterPCs, Inside, DeactivatePCs
<1> QED
  BY <1>3, <1>4

LEMMA SetRegisteredStep == ASSUME IInv, NEW t \in Threads, SetRegistered(t) PROVE IInv'
<1> USE DEF IInv, SetRegistered, At
<1>1. PICK f \in Frames : f = F(t)
  BY FrameOf
<1>2. FrameInv(f) /\ CallInv(f) /\ f.pc = "setRegistered" /\ f.new \in Ids
  BY <1>1 DEF FramesInv, FrameInv, RegisterPCs
<1>3. PICK g : g = IF immediate THEN [f EXCEPT !.pc = "activate"] ELSE Idle
  OBVIOUS
<1>4. Moves(t, g)
  BY <1>1, <1>3 DEF Moves, Goto, Do, FrameType, Frames, PCs
<1>5. (g.pc = "activate" /\ Same(f, g)) \/ g.pc = "idle"
  BY <1>1, <1>3, IdlePlaces DEF Frames, Same
<1>6. /\ Grows /\ Ids' = Ids /\ objects'[f.new].ready /\ objects'[f.new].latch = objects[f.new].latch
      /\ \A i \in Ids \ {f.new} : objects'[i] = objects[i]
  BY <1>1, <1>2, Readied
<1>7. TypeInv'
  BY <1>4, <1>6 DEF TypeInv, Moves, Grows, registry, inst, inputs, counts, history
<1>8. FramesInv'
  <2>1. FrameInv(g)' /\ CallInv(g)'
    BY <1>2, <1>5 DEF Same, FrameInv, CallInv, RegisterPCs, ActivePCs, Inside, DeactivatePCs, ClientPCs
  <2>2. \A u \in data' : u # t /\ u \in data
    BY <1>1, <1>2 DEF inst, FramesInv
  <2>3. \A u \in Threads \ {t} : F(u).pc \in RegisterPCs => ~ objects'[F(u).new].ready
    BY <1>1, <1>2, <1>6 DEF FramesInv, FrameInv, RegisterPCs
  <2> QED
    BY <1>4, <1>5, <1>6, <2>1, <2>2, <2>3, FramesKept DEF RegisterPCs
<1>9. LatchInv'
  BY <1>1, <1>2, <1>4, <1>5, <1>6, LatchKept DEF Inside
<1>10. ReadyInv'
  BY <1>1, <1>2, <1>4, <1>6, ReadyKept
<1>11. InstanceInv'
  <2>1. Unsettled' => Unsettled
    BY <1>6 DEF Unsettled, Unsatisfied, KindOf, Grows, TypeInv
  <2> QED
    BY <1>1, <1>2, <1>4, <2>1, InstanceKept DEF inst
<1>12. RegistryInv'
  <2>1. Unsatisfied' = Unsatisfied
    BY <1>6 DEF Unsatisfied, KindOf, Grows, TypeInv
  <2>2. Undone' => Undone
    BY <1>1, <1>2, <1>4, <1>5, <2>1, UndoneKept
  <2> QED
    BY <1>1, <1>2, <1>4, <2>2, RegistryKept DEF registry, history
<1>13. NotifyInv'
  <2>1. Notifier(t)
    BY <1>1, <1>2 DEF Notifier, CallInv, ClientPCs
  <2>2. ASSUME PlaceInv(f) PROVE IF g.pc \in {"idle", "fault"} THEN Rest' ELSE PlaceInv(g)'
    <3>1. Unsatisfied' = Unsatisfied
      BY <1>6 DEF Unsatisfied, KindOf, Grows, TypeInv
    <3>2. Rest
      BY <1>2, <2>2 DEF PlaceInv
    <3>3. Rest'
      BY <3>1, <3>2 DEF Rest, Even, Wanted, registry, inputs
    <3>4. f.body # "modify"
      BY <1>2 DEF CallInv, RegisterPCs
    <3> QED
      BY <1>5, <3>3, <3>4 DEF Same, PlaceInv, RegisterPCs, ActivePCs, Inside, DeactivatePCs
  <2> QED
    BY <1>1, <1>4, <1>5, <2>1, <2>2, NotifierKept DEF history, Notifier, Same
<1> QED
  BY <1>7, <1>8, <1>9, <1>10, <1>11, <1>12, <1>13
LEMMA RegisterFailedStep == ASSUME IInv, NEW t \in Threads, RegisterFailed(t) PROVE IInv'
<1> USE DEF IInv, RegisterFailed, At
<1>1. PICK f \in Frames : f = F(t)
  BY FrameOf
<1>2. /\ FrameInv(f) /\ f.pc = "registerFailed" /\ f.new \in Ids
      /\ KindOf(f.new) = "SATISFIED" /\ ~ objects[f.new].ready
  BY <1>1 DEF FramesInv, FrameInv, RegisterPCs
<1>3. Moves(t, Idle)
  BY IdlePlaces DEF Moves, Do
<1>4. PICK e : e = [objects[f.new] EXCEPT !.ready = TRUE]
  OBVIOUS
<1>5. objects[f.new] \in ObjType
  BY <1>2 DEF TypeInv, Ids
<1>6. e \in ObjType /\ e.kind = "SATISFIED" /\ e.ready /\ e.latch = objects[f.new].latch
  BY <1>2, <1>4, <1>5 DEF ObjType, KindOf
<1>7. PICK done : done = [objects EXCEPT ![f.new] = e]
  OBVIOUS
<1>8. done = [objects EXCEPT ![f.new].ready = TRUE]
  BY <1>4, <1>5, <1>7 DEF TypeInv, Ids
<1>9. /\ done \in Seq(ObjType) /\ Len(done) = Len(objects) /\ Len(objects) \in Nat
      /\ done[f.new] = e /\ \A i \in Ids : i # f.new => done[i] = objects[i]
  BY <1>2, <1>6, <1>7, Sets DEF Ids, TypeInv
<1>10. PICK n : n = New("UNSATISFIED_REFERENCE", TRUE)
  OBVIOUS
<1>11. n \in ObjType /\ n.kind = "UNSATISFIED_REFERENCE" /\ n.ready /\ n.latch = 0
  BY <1>10, NewObject DEF Kinds
<1>12. /\ Append(done, n) \in Seq(ObjType) /\ Len(Append(done, n)) = Len(objects) + 1 /\ Append(done, n)[Len(objects) + 1] = n
       /\ \A i \in Ids : Append(done, n)[i] = done[i]
  BY <1>9, <1>11, Appends DEF Ids
<1>13. \/ state = f.new /\ objects' = Append(done, n) /\ state' = Len(objects) + 1
       \/ state # f.new /\ objects' = done /\ state' = state
  BY <1>1, <1>8, <1>10
<1>14. /\ objects' \in Seq(ObjType) /\ Len(objects') \in Nat /\ Len(objects) <= Len(objects')
       /\ \A i \in Ids : objects'[i] = IF i = f.new THEN e ELSE objects[i]
  <2>1. objects' \in Seq(ObjType) /\ Len(objects') \in {Len(objects), Len(objects) + 1}
    BY <1>9, <1>12, <1>13
  <2>2. \A i \in Ids : objects'[i] = done[i]
    BY <1>12, <1>13
  <2>3. QED
    BY <1>9, <2>1, <2>2
<1>15. /\ Grows /\ Ids \subseteq Ids' /\ state' \in Ids' /\ \A i \in Ids' \ Ids : objects'[i] = n
       /\ state # f.new => state' = state
       /\ state' = state => state # f.new
  <2>1. Grows
    BY <1>2, <1>6, <1>14 DEF Grows, KindOf
  <2>2. Ids \subseteq Ids' /\ state' \in Ids'
    BY <1>9, <1>12, <1>13 DEF TypeInv, Ids
  <2>3. \A i \in Ids' \ Ids : objects'[i] = n
    BY <1>9, <1>12, <1>13 DEF Ids
  <2> QED
    BY <1>2, <1>9, <1>13, <2>1, <2>2, <2>3 DEF Ids
<1>16. TypeInv'
  BY <1>3, <1>14, <1>15 DEF TypeInv, Moves, registry, inst, inputs, counts, history
<1>17. FramesInv'
  <2>1. FrameInv(Idle)' /\ CallInv(Idle)'
    BY DEF Idle, FrameInv, CallInv, RegisterPCs, ActivePCs, Inside, DeactivatePCs
  <2>2. \A u \in data' : u # t /\ u \in data
    BY <1>1, <1>2 DEF inst, FramesInv
  <2>3. \A u \in Threads \ {t} : F(u).pc \in RegisterPCs => ~ objects'[F(u).new].ready
    BY <1>1, <1>2, <1>14 DEF FramesInv, FrameInv, RegisterPCs
  <2> QED
    BY <1>3, <1>15, <2>1, <2>2, <2>3, IdlePlaces, FramesKept DEF RegisterPCs
<1>18. LatchInv'
  <2>1. \A i \in Ids : objects'[i].latch = objects[i].latch
    BY <1>6, <1>14
  <2>2. \A i \in Ids' \ Ids : objects'[i].latch = 0
    BY <1>11, <1>15
  <2> QED
    BY <1>1, <1>2, <1>3, <1>15, <2>1, <2>2, IdlePlaces, LatchKept DEF Inside
<1>19. ReadyInv'
  <2>1. \A i \in Ids : objects[i].ready => objects'[i].ready
    BY <1>6, <1>14
  <2>2. \A i \in Ids' \ Ids : objects'[i].ready
    BY <1>11, <1>15
  <2>3. objects'[f.new].ready
    BY <1>2, <1>6, <1>14
  <2> QED
    BY <1>1, <1>2, <1>3, <1>15, <2>1, <2>2, <2>3, ReadyKept
<1>20. InstanceInv'
  <2>1. state' = state => (Unsettled' => Unsettled)
    BY <1>14, <1>15 DEF Unsettled, Unsatisfied, KindOf, TypeInv
  <2>2. state' # state => Unsettled
    BY <1>2, <1>15 DEF Unsettled
  <2> QED
    BY <1>1, <1>2, <1>3, <2>1, <2>2, InstanceKept DEF inst
<1>21. RegistryInv'
  <2>1. state' # state => Undone
    BY <1>1, <1>2, <1>15 DEF Undone
  <2>2. ASSUME state' = state, Undone' PROVE Undone
    <3>1. Unsatisfied' => Unsatisfied
      BY <1>14, <1>15, <2>2 DEF Unsatisfied, KindOf, TypeInv
    <3> QED
      BY <1>3, <2>2, <3>1, IdlePlaces, UndoneKept
  <2> QED
    BY <1>1, <1>2, <1>3, <2>1, <2>2, RegistryKept DEF registry, history
<1>22. NotifyInv'
  <2>1. Notifier(t)
    BY <1>1, <1>2 DEF Notifier, FramesInv, CallInv, ClientPCs
  <2>2. ~ PlaceInv(f)
    BY <1>2 DEF PlaceInv
  <2> QED
    BY <1>1, <1>3, <2>1, <2>2, IdlePlaces, NotifierKept DEF history
<1> QED
  BY <1>16, <1>17, <1>18, <1>19, <1>20, <1>21, <1>22
-----------------------------------------------------------------------------
(* Activate. *)

\* The thread goes on, by itself or for a client, while nothing that notifications are about changes.
LEMMA NotifyKept ==
    ASSUME NEW t \in Threads, NEW f \in Frames, NEW g, TypeInv, FramesInv, NotifyInv, f = F(t), Moves(t, g),
           UNCHANGED <<registry, inputs, history>>, Unsatisfied' = Unsatisfied,
           \A o \in Ids : objects'[o].ready = objects[o].ready,
           g.pc \notin {"idle", "fault"} => g.client = f.client,
           g.pc \in DeactivatePCs => g.new \in Ids,
           ~ f.client /\ PlaceInv(f) => IF g.pc \in {"idle", "fault"} THEN Rest ELSE PlaceInv(g)
    PROVE  NotifyInv'
<1>1. f.pc \notin {"idle", "fault"}
  BY DEF Frames, PCs
<1>2. CASE f.client
  <2>1. ~ Notifier(t) /\ (g.pc \in {"idle", "fault"} \/ g.client)
    BY <1>2 DEF Notifier
  <2> QED
    BY <1>1, <2>1, ClientKept DEF registry, inputs, history
<1>3. CASE ~ f.client
  <2>1. Notifier(t) /\ (g.pc \in {"idle", "fault"} \/ ~ g.client)
    BY <1>1, <1>3 DEF Notifier
  <2>2. Rest' = Rest /\ Even' = Even /\ Wanted' = Wanted /\ Gone' = Gone
    BY DEF Rest, Even, Wanted, Gone, registry, inputs
  <2>3. PlaceInv(g) => PlaceInv(g)'
    BY <2>2 DEF PlaceInv, inputs, registry
  <2>4. PlaceInv(F(t)) => IF g.pc \in {"idle", "fault"} THEN Rest' ELSE PlaceInv(g)'
    BY <1>3, <2>2, <2>3
  <2> QED
    BY <2>1, <2>4, NotifierKept DEF history
<1> QED
  BY <1>2, <1>3

\* A satisfied or active state is replaced by another one that needs no transition.
LEMMA InstallKept ==
    ASSUME NEW t \in Threads, NEW f \in Frames, NEW g, NEW e \in ObjType, IInv, f = F(t), Moves(t, g), ~ Crashed,
           Install(e), UNCHANGED <<registry, inst, inputs, counts, history>>,
           ~ Unsatisfied, e.kind \in {"SATISFIED", "ACTIVE"}, e.ready, e.latch = 0,
           f.pc \in {"activate", "activateFailed"}, g.pc \in {"countUp", "idle"},
           g.pc = "countUp" => e.kind = "ACTIVE" /\ g.new = state' /\ g.client = f.client /\ g.ok = f.ok /\ g.body = f.body
    PROVE  IInv'
<1> USE DEF IInv
<1>1. /\ Grows /\ Ids \subseteq Ids' /\ state' \in Ids' /\ state' \notin Ids
      /\ \A o \in Ids' \ Ids : o = state'
      /\ objects'[state'] = e /\ \A o \in Ids : objects'[o] = objects[o]
  BY Installed
<1>2. FrameInv(f) /\ CallInv(f)
  BY DEF FramesInv
<1>3. TypeInv'
  BY <1>1 DEF TypeInv, Moves, Grows, registry, inst, inputs, counts, history
<1>4. FramesInv'
  <2>1. FrameInv(g)'
    BY <1>1 DEF FrameInv, KindOf, RegisterPCs, ActivePCs, Inside, DeactivatePCs
  <2>2. CallInv(g)'
    BY <1>2 DEF CallInv, RegisterPCs, ClientPCs
  <2>3. \A u \in data' : u # t /\ u \in data
    BY DEF inst, FramesInv
  <2>4. \A u \in Threads \ {t} : F(u).pc \in RegisterPCs => ~ objects'[F(u).new].ready
    BY <1>1 DEF FramesInv, FrameInv
  <2> QED
    BY <1>1, <2>1, <2>2, <2>3, <2>4, FramesKept DEF RegisterPCs
<1>5. LatchInv'
  BY <1>1, LatchKept DEF Inside
<1>6. ReadyInv'
  BY <1>1, ReadyKept DEF RegisterPCs, DeactivatePCs
<1>7. ~ Unsatisfied' /\ ~ Unsettled'
  BY <1>1 DEF Unsettled, Unsatisfied, KindOf
<1>8. InstanceInv'
  BY <1>7, InstanceKept
<1>9. RegistryInv'
  <2>1. \A u \in Threads : F(u)' = IF u = t THEN g ELSE F(u)
    BY DEF Moves, F, TypeInv
  <2>2. ~ Undone'
    BY <1>1, <1>7, <2>1 DEF Undone, FramesInv, FrameInv, RegisterPCs
  <2> QED
    BY <2>2, RegistryKept DEF registry
<1>10. NotifyInv'
  <2>1. ~ f.client /\ PlaceInv(f) => IF g.pc \in {"idle", "fault"} THEN Rest ELSE PlaceInv(g)
    BY DEF PlaceInv, RegisterPCs, ActivePCs, Inside, DeactivatePCs
  <2>2. Unsatisfied' = Unsatisfied
    BY <1>7 DEF Unsatisfied
  <2> QED
    BY <1>1, <2>1, <2>2, NotifyKept DEF DeactivatePCs
<1> QED
  BY <1>3, <1>4, <1>5, <1>6, <1>8, <1>9, <1>10

LEMMA ActivateStep == ASSUME IInv, NEW t \in Threads, Activate(t) PROVE IInv'
<1> USE DEF Activate, At
<1>1. PICK f \in Frames : f = F(t)
  BY FrameOf DEF IInv
<1>2. FrameInv(f) /\ CallInv(f) /\ f.pc = "activate" /\ t \notin data
  BY <1>1 DEF IInv, FramesInv
<1>3. CASE /\ KindOf(state) = "SATISFIED" /\ F(t).body = "create"
           /\ Install(New("ACTIVE", TRUE))
           /\ Do(t, [F(t) EXCEPT !.pc = "countUp", !.new = Len(objects) + 1, !.made = TRUE])
  <2>1. PICK e : e = New("ACTIVE", TRUE)
    OBVIOUS
  <2>2. e \in ObjType /\ e.kind = "ACTIVE" /\ e.ready /\ e.latch = 0
    BY <2>1, NewObject DEF Kinds
  <2>3. Install(e) /\ state' = Len(objects) + 1 /\ state' \in Nat
    BY <1>3, <2>1, <2>2, Installed DEF IInv
  <2>4. PICK g : g = [f EXCEPT !.pc = "countUp", !.new = state', !.made = TRUE]
    OBVIOUS
  <2>5. Moves(t, g)
    BY <1>1, <1>3, <2>3, <2>4 DEF Moves, Do, FrameType, Frames, PCs
  <2>6. g.pc = "countUp" /\ g.new = state' /\ g.client = f.client /\ g.ok = f.ok /\ g.body = f.body
    BY <2>4 DEF Frames
  <2> QED
    BY <1>1, <1>2, <1>3, <2>2, <2>3, <2>5, <2>6, InstallKept DEF Unsatisfied
<1>4. CASE /\ KindOf(state) = "ACTIVE"
           /\ Do(t, [F(t) EXCEPT !.pc = "countUp", !.new = state, !.made = FALSE])
           /\ UNCHANGED machine
  <2>1. PICK g : g = [f EXCEPT !.pc = "countUp", !.new = state, !.made = FALSE]
    OBVIOUS
  <2>2. state \in Ids /\ state \in Nat
    BY DEF IInv, TypeInv, Ids
  <2>3. Moves(t, g)
    BY <1>1, <1>4, <2>1, <2>2, ZenonT(60) DEF Moves, Do, FrameType, Frames, PCs
  <2>4. g.pc = "countUp" /\ g.new = state /\ g.client = f.client /\ g.ok = f.ok /\ g.body = f.body
    BY <2>1 DEF Frames
  <2>5. FrameInv(g) /\ CallInv(g)
    BY <1>2, <1>4, <2>2, <2>4 DEF FrameInv, CallInv, RegisterPCs, ActivePCs, Inside, DeactivatePCs, ClientPCs
  <2>6. PlaceInv(f) => PlaceInv(g)
    BY <1>2, <2>4 DEF PlaceInv, RegisterPCs, ActivePCs, Inside, DeactivatePCs
  <2> QED
    BY <1>1, <1>2, <1>4, <2>3, <2>4, <2>5, <2>6, GoKept DEF RegisterPCs, Inside, DeactivatePCs
<1>5. CASE Do(t, Idle) /\ UNCHANGED machine
  <2>1. Moves(t, Idle)
    BY <1>5, IdlePlaces DEF Moves, Do
  <2>2. PlaceInv(f) => Rest
    BY <1>2 DEF PlaceInv
  <2> QED
    BY <1>1, <1>2, <1>5, <2>1, <2>2, IdlePlaces, GoKept DEF RegisterPCs, Inside, DeactivatePCs
<1> QED
  BY <1>3, <1>4, <1>5

LEMMA ActivateFailedStep == ASSUME IInv, NEW t \in Threads, ActivateFailed(t) PROVE IInv'
<1> USE DEF ActivateFailed, At
<1>1. PICK f \in Frames : f = F(t)
  BY FrameOf DEF IInv
<1>2. f.pc = "activateFailed" /\ t \notin data /\ KindOf(f.new) = "ACTIVE"
  BY <1>1 DEF IInv, FramesInv, FrameInv, ActivePCs
<1>3. Moves(t, Idle)
  BY IdlePlaces DEF Moves, Do
<1>4. CASE f.made /\ state = f.new
  <2>1. PICK e : e = New("SATISFIED", TRUE)
    OBVIOUS
  <2>2. e \in ObjType /\ e.kind = "SATISFIED" /\ e.ready /\ e.latch = 0
    BY <2>1, NewObject DEF Kinds
  <2>3. Install(e) /\ ~ Unsatisfied
    BY <1>1, <1>2, <1>4, <2>1 DEF Unsatisfied
  <2> QED
    BY <1>1, <1>2, <1>3, <2>2, <2>3, IdlePlaces, InstallKept
<1>5. CASE ~ (f.made /\ state = f.new)
  <2>1. UNCHANGED machine
    BY <1>1, <1>5
  <2>2. PlaceInv(f) => Rest
    BY <1>2 DEF PlaceInv, ActivePCs
  <2> QED
    BY <1>1, <1>2, <1>3, <2>1, <2>2, IdlePlaces, GoKept DEF RegisterPCs, Inside, DeactivatePCs
<1> QED
  BY <1>4, <1>5
\* The latch or the mutex of an object changes, and the thread goes on.
LEMMA TouchKept ==
    ASSUME NEW t \in Threads, NEW f \in Frames, NEW g, NEW o \in Ids, NEW e \in ObjType, IInv, f = F(t), Moves(t, g),
           objects' = [objects EXCEPT ![o] = e], e.kind = objects[o].kind, e.ready = objects[o].ready,
           UNCHANGED <<state, registry, inst, inputs, counts, history>>,
           LatchInv', FrameInv(g), CallInv(g), t \notin data, g.pc # "fault",
           f.pc \notin RegisterPCs /\ g.pc \notin RegisterPCs,
           f.pc \in DeactivatePCs => f.pc = "deactivateWait" /\ g.pc = "unregister" /\ g.new = f.new,
           g.pc # "idle" => g.client = f.client,
           ~ f.client /\ PlaceInv(f) => IF g.pc = "idle" THEN Rest ELSE PlaceInv(g)
    PROVE  IInv'
<1> USE DEF IInv
<1>1. /\ Grows /\ Ids' = Ids
      /\ objects'[o] = e /\ \A i \in Ids \ {o} : objects'[i] = objects[i]
  BY Changed
<1>2. \A i \in Ids : objects'[i].kind = objects[i].kind /\ objects'[i].ready = objects[i].ready
  BY <1>1
<1>3. state \in Ids /\ Unsatisfied' = Unsatisfied /\ Unsettled' = Unsettled
  BY <1>2 DEF TypeInv, Unsatisfied, Unsettled, KindOf
<1>4. TypeInv'
  BY <1>1 DEF TypeInv, Moves, Grows, registry, inst, inputs, counts, history
<1>5. FramesInv'
  <2>1. FrameInv(g)' /\ CallInv(g)'
    BY <1>1, <1>2 DEF FrameInv, CallInv, KindOf
  <2>2. \A u \in data' : u # t /\ u \in data
    BY DEF inst
  <2>3. \A u \in Threads \ {t} : F(u).pc \in RegisterPCs => ~ objects'[F(u).new].ready
    BY <1>2 DEF FramesInv, FrameInv
  <2> QED
    BY <1>1, <2>1, <2>2, <2>3, FramesKept
<1>6. ReadyInv'
  <2>1. f.pc \in RegisterPCs \cup DeactivatePCs => g.pc \in RegisterPCs \cup DeactivatePCs /\ g.new = f.new
    BY DEF DeactivatePCs
  <2> QED
    BY <1>1, <1>2, <2>1, ReadyKept
<1>7. InstanceInv'
  BY <1>3, InstanceKept DEF inst, DeactivatePCs
<1>8. RegistryInv'
  <2>1. Undone' => Undone
    BY <1>3, UndoneKept DEF RegisterPCs
  <2> QED
    BY <2>1, RegistryKept DEF registry, history, RegisterPCs, DeactivatePCs
<1>9. NotifyInv'
  <2>1. g.pc \in DeactivatePCs => g.new \in Ids
    BY DEF FrameInv
  <2> QED
    BY <1>2, <1>3, <2>1, NotifyKept
<1> QED
  BY <1>4, <1>5, <1>6, <1>7, <1>8, <1>9

\* The latch of one object counts a thread more or less; nobody else comes or goes.
LEMMA LatchCounted ==
    ASSUME NEW t \in Threads, NEW f \in Frames, NEW g, NEW o \in Ids, NEW e \in ObjType, IInv, f = F(t), Moves(t, g), ~ Crashed,
           objects' = [objects EXCEPT ![o] = e], e.kind = objects[o].kind, KindOf(o) = "ACTIVE",
           objects[o].latch # CLOSED, g.pc # "fault",
           \/ /\ f.pc \notin Inside /\ g.pc \in Inside /\ g.new = o
              /\ e.latch = objects[o].latch + 1
           \/ /\ f.pc \in Inside /\ f.new = o /\ g.pc \notin Inside
              /\ e.latch = objects[o].latch - 1
           \/ /\ f.pc \in Inside /\ g.pc \in Inside /\ f.new = o /\ g.new = o
              /\ e.latch = objects[o].latch,
           g.pc \notin {"unregister", "destroy"}
    PROVE  LatchInv'
<1> USE DEF IInv
<1>1. /\ Grows /\ Ids' = Ids
      /\ objects'[o] = e /\ \A i \in Ids \ {o} : objects'[i] = objects[i]
  BY Changed
<1>2. \A u \in Threads : F(u)' = IF u = t THEN g ELSE F(u)
  BY DEF Moves, F, TypeInv
<1>3. ~ Crashed'
  BY <1>2 DEF Crashed, F
<1>4. \A i \in Ids \ {o} : Within(i)' = Within(i)
  BY <1>2 DEF Within
<1>5. /\ IsFiniteSet(Within(o)) /\ Cardinality(Within(o)) \in Nat
      /\ IsFiniteSet(Within(o)') /\ Cardinality(Within(o)') \in Nat /\ Cardinality(Within(o)') <= Cardinality(Threads)
      /\ Cardinality(Threads) \in Nat
  <2>1. Within(o) \subseteq Threads /\ Within(o)' \subseteq Threads
    BY DEF Within
  <2> QED
    BY <2>1, FS_Subset, FS_CardinalityType, ConfigurationAssumption
<1>6. objects[o].latch = Cardinality(Within(o))
  BY DEF LatchInv
<1>7. e.latch = Cardinality(Within(o)') /\ e.latch # CLOSED
  <2>1. CASE f.pc \notin Inside /\ g.pc \in Inside /\ g.new = o /\ e.latch = objects[o].latch + 1
    <3>1. Within(o)' = Within(o) \cup {t} /\ t \notin Within(o)
      BY <1>2, <2>1 DEF Within
    <3>2. Cardinality(Within(o) \cup {t}) = Cardinality(Within(o)) + 1
      BY <1>5, <3>1, FS_AddElement
    <3> QED
      BY <1>5, <1>6, <2>1, <3>1, <3>2 DEF CLOSED
  <2>2. CASE f.pc \in Inside /\ f.new = o /\ g.pc \notin Inside /\ e.latch = objects[o].latch - 1
    <3>1. Within(o)' = Within(o) \ {t} /\ t \in Within(o)
      BY <1>2, <2>2 DEF Within
    <3>2. Cardinality(Within(o) \ {t}) = Cardinality(Within(o)) - 1
      BY <1>5, <3>1, FS_RemoveElement
    <3> QED
      BY <1>5, <1>6, <2>2, <3>1, <3>2 DEF CLOSED
  <2>3. CASE f.pc \in Inside /\ g.pc \in Inside /\ f.new = o /\ g.new = o /\ e.latch = objects[o].latch
    <3>1. Within(o)' = Within(o)
      BY <1>2, <2>3 DEF Within
    <3> QED
      BY <1>6, <2>3, <3>1
  <2> QED
    BY <2>1, <2>2, <2>3
<1>8. \A i \in Ids : objects'[i].latch # CLOSED =>
          objects'[i].latch <= Cardinality(Threads) /\ objects'[i].latch = Cardinality(Within(i)')
  <2> SUFFICES ASSUME NEW i \in Ids, objects'[i].latch # CLOSED
               PROVE  objects'[i].latch <= Cardinality(Threads) /\ objects'[i].latch = Cardinality(Within(i)')
    OBVIOUS
  <2>1. CASE i = o
    BY <1>1, <1>5, <1>7, <2>1
  <2>2. CASE i # o
    BY <1>1, <1>4, <2>2 DEF LatchInv
  <2> QED
    BY <2>1, <2>2
<1>9. \A i \in Ids : objects'[i].latch = CLOSED => Within(i)' = {}
  BY <1>1, <1>4, <1>7 DEF LatchInv
<1>10. \A u \in Threads : F(u)'.pc \in {"unregister", "destroy"} /\ (objects'[F(u)'.old]).kind = "ACTIVE" =>
          objects'[F(u)'.old].latch = CLOSED
  <2>1. \A u \in Threads : F(u).pc \in {"unregister", "destroy"} => F(u).old \in Ids
    BY DEF FramesInv, FrameInv, DeactivatePCs
  <2> QED
    BY <1>1, <1>2, <2>1 DEF LatchInv, Grows, KindOf
<1> QED
  BY <1>1, <1>3, <1>8, <1>9, <1>10 DEF LatchInv, KindOf
\* What a thread at work on an active state knows.
LEMMA AtWork ==
    ASSUME IInv, NEW t \in Threads, ~ Crashed, F(t).pc \in ActivePCs
    PROVE  /\ F(t) \in Frames /\ FrameInv(F(t)) /\ CallInv(F(t))
           /\ F(t).new \in Ids /\ KindOf(F(t).new) = "ACTIVE" /\ objects[F(t).new] \in ObjType
           /\ F(t).pc \in Inside => objects[F(t).new].latch \in Nat \ {0}
<1> USE DEF IInv
<1>1. F(t) \in Frames
  BY FrameOf DEF ActivePCs, Inside
<1>2. FrameInv(F(t)) /\ CallInv(F(t)) /\ F(t).new \in Ids /\ KindOf(F(t).new) = "ACTIVE"
  BY DEF FramesInv, FrameInv
<1>3. objects[F(t).new] \in ObjType
  BY <1>2 DEF TypeInv, Ids
<1>4. ASSUME F(t).pc \in Inside PROVE objects[F(t).new].latch \in Nat \ {0}
  <2>1. t \in Within(F(t).new) /\ Within(F(t).new) \subseteq Threads
    BY <1>4 DEF Within
  <2>2. IsFiniteSet(Within(F(t).new))
    BY <2>1, FS_Subset, ConfigurationAssumption
  <2>3. Cardinality(Within(F(t).new)) \in Nat /\ Cardinality(Within(F(t).new)) # 0
    BY <2>1, <2>2, FS_CardinalityType, FS_EmptySet
  <2>4. objects[F(t).new].latch = Cardinality(Within(F(t).new))
    BY <1>2, <2>1 DEF LatchInv
  <2> QED
    BY <2>3, <2>4
<1> QED
  BY <1>1, <1>2, <1>3, <1>4

LEMMA EnterStep == ASSUME IInv, NEW t \in Threads, Enter(t) PROVE IInv'
<1> USE DEF Enter, At
<1>1. PICK f : f = F(t)
  OBVIOUS
<1>2. /\ f \in Frames /\ FrameInv(f) /\ CallInv(f) /\ f.pc = "countUp"
      /\ f.new \in Ids /\ KindOf(f.new) = "ACTIVE" /\ objects[f.new] \in ObjType
  BY <1>1, AtWork DEF ActivePCs
<1>3. t \notin data
  BY <1>1, <1>2 DEF IInv, FramesInv
<1>4. CASE objects[f.new].latch # CLOSED
  <2>1. PICK e : e = [objects[f.new] EXCEPT !.latch = @ + 1]
    OBVIOUS
  <2>2. e \in ObjType /\ e.kind = objects[f.new].kind /\ e.ready = objects[f.new].ready /\ e.latch = objects[f.new].latch + 1
    BY <1>2, <1>4, <2>1 DEF ObjType
  <2>3. objects' = [objects EXCEPT ![f.new] = e]
    BY <1>1, <1>2, <1>4, <2>1 DEF IInv, TypeInv, Ids
  <2>4. PICK g : g = [f EXCEPT !.pc = "lock"]
    OBVIOUS
  <2>5. Moves(t, g)
    BY <1>1, <1>2, <1>4, <2>4 DEF Moves, Goto, Do, FrameType, Frames, PCs
  <2>6. g.pc = "lock" /\ Same(f, g)
    BY <1>2, <2>4 DEF Frames, Same
  <2>7. FrameInv(g) /\ CallInv(g)
    BY <1>2, <2>6 DEF Same, FrameInv, CallInv, RegisterPCs, ActivePCs, Inside, DeactivatePCs, ClientPCs
  <2>8. LatchInv'
    BY <1>1, <1>2, <1>4, <2>2, <2>3, <2>5, <2>6, LatchCounted DEF Inside, Same
  <2>9. PlaceInv(f) => PlaceInv(g)
    BY <1>2, <2>6 DEF Same, PlaceInv, RegisterPCs, ActivePCs, Inside, DeactivatePCs
  <2> QED
    BY <1>1, <1>2, <1>3, <2>2, <2>3, <2>5, <2>6, <2>7, <2>8, <2>9, TouchKept DEF Same, RegisterPCs, DeactivatePCs
<1>5. CASE objects[f.new].latch = CLOSED
  <2>1. UNCHANGED machine
    BY <1>1, <1>5 DEF machine
  <2>2. CASE f.body = "create"
    <3>1. PICK g : g = [f EXCEPT !.pc = "activateFailed"]
      OBVIOUS
    <3>2. Moves(t, g)
      BY <1>1, <1>2, <1>5, <2>2, <3>1 DEF Moves, Do, FrameType, Frames, PCs
    <3>3. g.pc = "activateFailed" /\ Same(f, g)
      BY <1>2, <3>1 DEF Frames, Same
    <3>4. FrameInv(g) /\ CallInv(g)
      BY <1>2, <3>3 DEF Same, FrameInv, CallInv, RegisterPCs, ActivePCs, Inside, DeactivatePCs, ClientPCs
    <3>5. PlaceInv(f) => PlaceInv(g)
      BY <1>2, <3>3 DEF Same, PlaceInv, RegisterPCs, ActivePCs, Inside, DeactivatePCs
    <3> QED
      BY <1>1, <1>2, <1>3, <2>1, <3>2, <3>3, <3>4, <3>5, GoKept DEF Same, RegisterPCs, Inside, DeactivatePCs
  <2>3. CASE f.body = "modify"
    <3>1. PICK g : g = [f EXCEPT !.pc = "deactivateLoop", !.via = "ACTIVE", !.new = 0]
      OBVIOUS
    <3>2. Moves(t, g)
      BY <1>1, <1>2, <1>5, <2>3, <3>1 DEF Moves, Do, FrameType, Frames, PCs, Kinds
    <3>3. g.pc = "deactivateLoop" /\ g.new = 0 /\ g.client = f.client /\ g.ok = f.ok /\ g.body = "modify"
      BY <1>2, <2>3, <3>1 DEF Frames
    <3>4. FrameInv(g) /\ CallInv(g)
      BY <1>2, <2>3, <3>3 DEF FrameInv, CallInv, RegisterPCs, ActivePCs, Inside, DeactivatePCs, ClientPCs
    <3>5. PlaceInv(f) => PlaceInv(g)
      BY <1>2, <2>3, <3>3 DEF PlaceInv, Rest, RegisterPCs, ActivePCs, Inside, DeactivatePCs
    <3> QED
      BY <1>1, <1>2, <1>3, <2>1, <3>2, <3>3, <3>4, <3>5, GoKept DEF RegisterPCs, Inside, DeactivatePCs
  <2>4. CASE f.body = "bind"
    <3>1. Moves(t, Idle)
      BY <1>1, <1>5, <2>4, IdlePlaces DEF Moves, Do
    <3>2. PlaceInv(f) => Rest
      BY <1>2 DEF PlaceInv, ActivePCs
    <3> QED
      BY <1>1, <1>2, <1>3, <2>1, <3>1, <3>2, IdlePlaces, GoKept DEF RegisterPCs, Inside, DeactivatePCs
  <2> QED
    BY <1>2, <2>2, <2>3, <2>4 DEF Frames
<1> QED
  BY <1>4, <1>5

LEMMA LockStep == ASSUME IInv, NEW t \in Threads, Lock(t) PROVE IInv'
<1> USE DEF Lock, At
<1>1. PICK f : f = F(t)
  OBVIOUS
<1>2. /\ f \in Frames /\ FrameInv(f) /\ CallInv(f) /\ f.pc = "lock"
      /\ f.new \in Ids /\ KindOf(f.new) = "ACTIVE" /\ objects[f.new] \in ObjType
      /\ objects[f.new].latch \in Nat
  BY <1>1, AtWork DEF ActivePCs, Inside
<1>3. t \notin data
  BY <1>1, <1>2 DEF IInv, FramesInv
<1>4. PICK e : e = [objects[f.new] EXCEPT !.busy = TRUE]
  OBVIOUS
<1>5. e \in ObjType /\ e.kind = objects[f.new].kind /\ e.ready = objects[f.new].ready /\ e.latch = objects[f.new].latch
  BY <1>2, <1>4 DEF ObjType
<1>6. objects' = [objects EXCEPT ![f.new] = e]
  BY <1>1, <1>2, <1>4 DEF IInv, TypeInv, Ids
<1>7. PICK g : g = [f EXCEPT !.pc = f.body]
  OBVIOUS
<1>8. Moves(t, g)
  BY <1>1, <1>2, <1>7 DEF Moves, Goto, Do, FrameType, Frames, PCs
<1>9. g.pc = f.body /\ f.body \in {"create", "modify", "bind"} /\ Same(f, g)
  BY <1>2, <1>7 DEF Frames, Same
<1>10. FrameInv(g) /\ CallInv(g)
  BY <1>2, <1>9 DEF Same, FrameInv, CallInv, RegisterPCs, ActivePCs, Inside, DeactivatePCs, ClientPCs
<1>11. LatchInv'
  <2>1. /\ f.pc \in Inside /\ g.pc \in Inside /\ g.new = f.new /\ objects[f.new].latch # CLOSED
        /\ g.pc \notin {"fault", "unregister", "destroy"}
    BY <1>2, <1>9 DEF Inside, Same, CLOSED
  <2> QED
    BY <1>1, <1>2, <1>5, <1>6, <1>8, <2>1, LatchCounted
<1>12. PlaceInv(f) => PlaceInv(g)
  BY <1>2, <1>9 DEF Same, PlaceInv, RegisterPCs, ActivePCs, Inside, DeactivatePCs
<1>13. /\ f.pc \notin RegisterPCs /\ g.pc \notin RegisterPCs /\ f.pc \notin DeactivatePCs /\ g.pc \notin {"fault", "idle"}
       /\ g.client = f.client
  BY <1>2, <1>9 DEF Same, RegisterPCs, DeactivatePCs
<1> QED
  BY <1>1, <1>2, <1>3, <1>5, <1>6, <1>8, <1>10, <1>11, <1>12, <1>13, TouchKept, ZenonT(200)

LEMMA CountDownStep == ASSUME IInv, NEW t \in Threads, CountDown(t) PROVE IInv'
<1> USE DEF CountDown, At
<1>1. PICK f : f = F(t)
  OBVIOUS
<1>2. /\ f \in Frames /\ FrameInv(f) /\ CallInv(f) /\ f.pc = "countDown"
      /\ f.new \in Ids /\ KindOf(f.new) = "ACTIVE" /\ objects[f.new] \in ObjType
      /\ objects[f.new].latch \in Nat \ {0}
  BY <1>1, AtWork DEF ActivePCs, Inside
<1>3. t \notin data
  BY <1>1, <1>2 DEF IInv, FramesInv
<1>4. PICK e : e = [objects[f.new] EXCEPT !.busy = FALSE, !.latch = @ - 1]
  OBVIOUS
<1>5. e \in ObjType /\ e.kind = objects[f.new].kind /\ e.ready = objects[f.new].ready /\ e.latch = objects[f.new].latch - 1
  <2>1. objects[f.new].latch - 1 \in {CLOSED} \cup Nat
    BY <1>2
  <2> QED
    BY <1>2, <1>4, <2>1 DEF ObjType
<1>6. objects' = [objects EXCEPT ![f.new] = e]
  BY <1>1, <1>2, <1>4 DEF IInv, TypeInv, Ids
<1>7. PICK g : /\ Moves(t, g)
               /\ \/ f.body = "create" /\ ~ f.ok /\ g.pc = "activateFailed" /\ Same(f, g)
                  \/ /\ f.body = "modify" /\ ~ f.ok /\ g.pc = "deactivateLoop"
                     /\ g.new = 0 /\ g.client = f.client /\ ~ g.ok /\ g.body = "modify"
                  \/ /\ f.body = "modify" /\ ~ f.ok /\ g.pc = "reregister"
                     /\ g.client = f.client /\ ~ g.ok /\ g.body = "create"
                  \/ g.pc = "idle"
  <2>1. CASE f.body = "create" /\ ~ f.ok /\ Goto(t, "activateFailed")
    <3>1. PICK g : g = [f EXCEPT !.pc = "activateFailed"]
      OBVIOUS
    <3>2. g \in Frames /\ g.pc = "activateFailed" /\ Same(f, g)
      BY <1>2, <3>1 DEF Frames, PCs, Same
    <3>3. Moves(t, g)
      BY <1>1, <2>1, <3>1, <3>2 DEF Goto, Do, Moves, FrameType
    <3> QED
      BY <2>1, <3>2, <3>3
  <2>2. CASE f.body = "modify" /\ ~ f.ok /\ Do(t, [f EXCEPT !.pc = "deactivateLoop", !.new = 0])
    <3>1. PICK g : g = [f EXCEPT !.pc = "deactivateLoop", !.new = 0]
      OBVIOUS
    <3>2. /\ g \in Frames /\ g.pc = "deactivateLoop"
          /\ g.new = 0 /\ g.client = f.client /\ g.ok = f.ok /\ g.body = f.body
      BY <1>2, <3>1 DEF Frames, PCs
    <3>3. Moves(t, g)
      BY <2>2, <3>1, <3>2 DEF Do, Moves, FrameType
    <3> QED
      BY <2>2, <3>2, <3>3
  <2>3. CASE f.body = "modify" /\ ~ f.ok /\ Return(t)
    <3>1. PICK g : g = [f EXCEPT !.pc = "reregister", !.body = "create"]
      OBVIOUS
    <3>2. /\ g \in Frames /\ g.pc = "reregister"
          /\ g.client = f.client /\ g.ok = f.ok /\ g.body = "create"
      BY <1>2, <3>1 DEF Frames, PCs
    <3>3. Moves(t, g)
      BY <1>1, <2>3, <3>1, <3>2 DEF Return, Do, Moves, FrameType
    <3> QED
      BY <2>3, <3>2, <3>3
  <2>4. CASE Do(t, Idle)
    BY <2>4, IdlePlaces DEF Do, Moves
  <2> QED
    BY <1>1, <2>1, <2>2, <2>3, <2>4
<1>8. FrameInv(g) /\ CallInv(g)
  BY <1>2, <1>7 DEF Same, FrameInv, CallInv, RegisterPCs, ActivePCs, Inside, DeactivatePCs, ClientPCs
<1>9. LatchInv'
  <2>1. /\ f.pc \in Inside /\ g.pc \notin Inside /\ objects[f.new].latch # CLOSED
        /\ g.pc \notin {"fault", "unregister", "destroy"}
    BY <1>2, <1>7 DEF Inside, CLOSED
  <2> QED
    BY <1>1, <1>2, <1>5, <1>6, <1>7, <2>1, LatchCounted
<1>10. PlaceInv(f) => IF g.pc = "idle" THEN Rest ELSE PlaceInv(g)
  BY <1>2, <1>7 DEF Same, PlaceInv, Rest, RegisterPCs, ActivePCs, Inside, DeactivatePCs
<1>11. /\ f.pc \notin RegisterPCs /\ g.pc \notin RegisterPCs /\ f.pc \notin DeactivatePCs /\ g.pc # "fault"
       /\ g.pc # "idle" => g.client = f.client
  BY <1>2, <1>7 DEF Same, RegisterPCs, DeactivatePCs
<1> QED
  BY <1>1, <1>2, <1>3, <1>5, <1>6, <1>7, <1>8, <1>9, <1>10, <1>11, TouchKept, ZenonT(200)
LEMMA CreateBeginStep == ASSUME IInv, NEW t \in Threads, CreateBegin(t) PROVE IInv'
<1> USE DEF CreateBegin, At
<1>1. PICK f : f = F(t)
  OBVIOUS
<1>2. /\ f \in Frames /\ FrameInv(f) /\ CallInv(f) /\ f.pc = "create"
      /\ f.new \in Ids /\ KindOf(f.new) = "ACTIVE"
  BY <1>1, AtWork DEF ActivePCs, Inside
<1>3. CASE Goto(t, "countDown") /\ UNCHANGED data
  <2>1. PICK g : g = [f EXCEPT !.pc = "countDown"]
    OBVIOUS
  <2>2. Moves(t, g)
    BY <1>1, <1>2, <1>3, <2>1 DEF Moves, Goto, Do, FrameType, Frames, PCs
  <2>3. g.pc = "countDown" /\ Same(f, g)
    BY <1>2, <2>1 DEF Frames, Same
  <2>4. FrameInv(g) /\ CallInv(g)
    BY <1>2, <2>3 DEF Same, FrameInv, CallInv, RegisterPCs, ActivePCs, Inside, DeactivatePCs, ClientPCs
  <2>5. PlaceInv(f) => PlaceInv(g)
    BY <1>2, <2>3 DEF Same, PlaceInv, RegisterPCs, ActivePCs, Inside, DeactivatePCs
  <2> QED
    BY <1>1, <1>2, <1>3, <2>2, <2>3, <2>4, <2>5, GoKept DEF Same, RegisterPCs, Inside, DeactivatePCs, inst
<1>4. CASE Do(t, [F(t) EXCEPT !.pc = "countDown", !.ok = TRUE]) /\ UNCHANGED data
  <2>1. PICK g : g = [f EXCEPT !.pc = "countDown", !.ok = TRUE]
    OBVIOUS
  <2>2. Moves(t, g)
    BY <1>1, <1>2, <1>4, <2>1 DEF Moves, Do, FrameType, Frames, PCs
  <2>3. g.pc = "countDown" /\ g.new = f.new /\ g.client = f.client /\ g.body = f.body
    BY <1>2, <2>1 DEF Frames
  <2>4. FrameInv(g) /\ CallInv(g)
    BY <1>2, <2>3 DEF FrameInv, CallInv, RegisterPCs, ActivePCs, Inside, DeactivatePCs, ClientPCs
  <2>5. PlaceInv(f) => PlaceInv(g)
    BY <1>2, <2>3 DEF PlaceInv, RegisterPCs, ActivePCs, Inside, DeactivatePCs
  <2> QED
    BY <1>1, <1>2, <1>4, <2>2, <2>3, <2>4, <2>5, GoKept DEF RegisterPCs, Inside, DeactivatePCs, inst
<1>5. CASE KindOf(state) = "ACTIVE" /\ ~ instance /\ data' = {t} /\ UNCHANGED frame
  <2> USE DEF IInv
  <2>1. Moves(t, f)
    BY <1>1, <1>2, <1>5 DEF Moves, FrameType, F, TypeInv
  <2>2. TypeInv'
    BY <1>5, <2>1 DEF TypeInv, Moves, machine, registry, inputs, counts, history, Ids
  <2>3. FramesInv' /\ LatchInv' /\ ReadyInv'
    BY <1>1, <1>2, <1>5, <2>1, PlainKept DEF machine, RegisterPCs, Inside, DeactivatePCs
  <2>4. InstanceInv'
    <3>1. ~ Unsettled'
      BY <1>5 DEF Unsettled, Unsatisfied, KindOf, machine
    <3> QED
      BY <2>1, <3>1, InstanceKept
  <2>5. RegistryInv'
    <3>1. Undone' => Undone
      BY <1>1, <1>2, <2>1, UndoneKept DEF Unsatisfied, KindOf, machine
    <3> QED
      BY <1>1, <1>2, <2>1, <3>1, RegistryKept DEF registry, history
  <2>6. NotifyInv'
    BY <1>1, <1>2, <2>1, NotifyKept DEF machine, Unsatisfied, KindOf, DeactivatePCs
  <2> QED
    BY <2>2, <2>3, <2>4, <2>5, <2>6
<1> QED
  BY <1>3, <1>4, <1>5

LEMMA CreateEndStep == ASSUME IInv, NEW t \in Threads, CreateEnd(t) PROVE IInv'
<1> USE DEF CreateEnd, At
<1>1. PICK f : f = F(t)
  OBVIOUS
<1>2. /\ f \in Frames /\ FrameInv(f) /\ CallInv(f) /\ f.pc = "create"
      /\ f.new \in Ids /\ KindOf(f.new) = "ACTIVE"
  BY <1>1, AtWork DEF ActivePCs, Inside
<1>3. PICK ok \in BOOLEAN : /\ Do(t, [F(t) EXCEPT !.pc = "countDown", !.ok = ok])
                            /\ (instance' = TRUE /\ UNCHANGED failures) \/ (Fails /\ UNCHANGED instance)
  OBVIOUS
<1>4. PICK g : g = [f EXCEPT !.pc = "countDown", !.ok = ok]
  OBVIOUS
<1>5. Moves(t, g)
  BY <1>1, <1>2, <1>3, <1>4, ZenonT(60) DEF Moves, Do, FrameType, Frames, PCs
<1>6. g.pc = "countDown" /\ g.new = f.new /\ g.client = f.client /\ g.body = f.body
  BY <1>2, <1>4 DEF Frames
<1> USE DEF IInv
<1>7. TypeInv'
  <2>1. failures' \in 0 .. MaxFailures
    <3>1. failures \in 0 .. MaxFailures
      BY DEF TypeInv
    <3>2. failures' = failures \/ (failures < MaxFailures /\ failures' = failures + 1)
      BY <1>3 DEF Fails
    <3> HIDE DEF CreateEnd
    <3> QED
      BY <3>1, <3>2, ConfigurationAssumption
  <2>2. instance' \in BOOLEAN
    BY <1>3 DEF TypeInv
  <2> QED
    BY <1>5, <2>1, <2>2 DEF TypeInv, Moves, machine, registry, inputs, history, Ids
<1>8. FramesInv' /\ LatchInv' /\ ReadyInv'
  <2>1. FrameInv(g) /\ CallInv(g)
    BY <1>2, <1>6 DEF FrameInv, CallInv, RegisterPCs, ActivePCs, Inside, DeactivatePCs, ClientPCs
  <2> QED
    BY <1>1, <1>2, <1>5, <1>6, <2>1, PlainKept DEF machine, RegisterPCs, Inside, DeactivatePCs
<1>9. InstanceInv'
  <2>1. Unsettled' => Unsettled /\ data # {}
    BY DEF Unsettled, Unsatisfied, KindOf, machine
  <2> QED
    BY <1>1, <1>2, <1>5, <2>1, InstanceKept
<1>10. RegistryInv'
  <2>1. Undone' => Undone
    BY <1>1, <1>2, <1>5, <1>6, UndoneKept DEF Unsatisfied, KindOf, machine
  <2> QED
    BY <1>1, <1>2, <1>5, <2>1, RegistryKept DEF registry, history
<1>11. NotifyInv'
  <2>1. PlaceInv(f) => PlaceInv(g)
    BY <1>2, <1>6 DEF PlaceInv, RegisterPCs, ActivePCs, Inside, DeactivatePCs
  <2> QED
    BY <1>1, <1>2, <1>5, <1>6, <2>1, NotifyKept DEF machine, Unsatisfied, KindOf, DeactivatePCs
<1> QED
  BY <1>7, <1>8, <1>9, <1>10, <1>11

LEMMA ModifyStep == ASSUME IInv, NEW t \in Threads, Modify(t) PROVE IInv'
<1> USE DEF Modify, At
<1>1. PICK f : f = F(t)
  OBVIOUS
<1>2. /\ f \in Frames /\ FrameInv(f) /\ CallInv(f) /\ f.pc = "modify"
      /\ f.new \in Ids /\ KindOf(f.new) = "ACTIVE"
  BY <1>1, AtWork DEF ActivePCs, Inside
<1>3. PICK via \in Kinds, ok \in BOOLEAN : Do(t, [f EXCEPT !.pc = "countDown", !.via = via, !.ok = ok])
  <2>1. CASE Do(t, [[F(t) EXCEPT !.pc = "countDown"] EXCEPT !.via = "SATISFIED"])
    <3>1. [[f EXCEPT !.pc = "countDown"] EXCEPT !.via = "SATISFIED"]
          = [f EXCEPT !.pc = "countDown", !.via = "SATISFIED", !.ok = f.ok]
      BY <1>2 DEF Frames
    <3>2. f.ok \in BOOLEAN
      BY <1>2 DEF Frames
    <3> QED
      BY <1>1, <2>1, <3>1, <3>2 DEF Kinds
  <2>2. CASE Do(t, [[F(t) EXCEPT !.pc = "countDown"] EXCEPT !.ok = TRUE])
    <3>1. [[f EXCEPT !.pc = "countDown"] EXCEPT !.ok = TRUE]
          = [f EXCEPT !.pc = "countDown", !.via = f.via, !.ok = TRUE]
      BY <1>2 DEF Frames
    <3>2. f.via \in Kinds
      BY <1>2 DEF Frames
    <3> QED
      BY <1>1, <2>2, <3>1, <3>2
  <2>3. CASE Do(t, [[F(t) EXCEPT !.pc = "countDown"] EXCEPT !.via = "ACTIVE"])
    <3>1. [[f EXCEPT !.pc = "countDown"] EXCEPT !.via = "ACTIVE"]
          = [f EXCEPT !.pc = "countDown", !.via = "ACTIVE", !.ok = f.ok]
      BY <1>2 DEF Frames
    <3>2. f.ok \in BOOLEAN
      BY <1>2 DEF Frames
    <3> QED
      BY <1>1, <2>3, <3>1, <3>2 DEF Kinds
  <2> QED
    BY <2>1, <2>2, <2>3
<1>4. PICK g : g = [f EXCEPT !.pc = "countDown", !.via = via, !.ok = ok]
  OBVIOUS
<1>5. g \in Frames /\ g.pc = "countDown" /\ g.new = f.new /\ g.client = f.client /\ g.body = f.body
  BY <1>2, <1>4 DEF Frames, PCs
<1>6. Moves(t, g)
  BY <1>3, <1>4, <1>5 DEF Moves, Do, FrameType
<1>7. FrameInv(g) /\ CallInv(g)
  BY <1>2, <1>5 DEF FrameInv, CallInv, RegisterPCs, ActivePCs, Inside, DeactivatePCs, ClientPCs
<1>8. PlaceInv(f) => PlaceInv(g)
  BY <1>2, <1>5 DEF PlaceInv, RegisterPCs, ActivePCs, Inside, DeactivatePCs
<1> QED
  BY <1>1, <1>2, <1>5, <1>6, <1>7, <1>8, GoKept DEF RegisterPCs, Inside, DeactivatePCs
LEMMA BindStep == ASSUME IInv, NEW t \in Threads, Bind(t) PROVE IInv'
<1> USE DEF Bind, At
<1>1. PICK f : f = F(t)
  OBVIOUS
<1>2. /\ f \in Frames /\ FrameInv(f) /\ CallInv(f) /\ f.pc = "bind"
      /\ f.new \in Ids /\ KindOf(f.new) = "ACTIVE"
  BY <1>1, AtWork DEF ActivePCs, Inside
<1>3. CASE Goto(t, "countDown")
  <2>1. PICK g : g = [f EXCEPT !.pc = "countDown"]
    OBVIOUS
  <2>2. g \in Frames /\ g.pc = "countDown" /\ Same(f, g)
    BY <1>2, <2>1 DEF Frames, PCs, Same
  <2>3. Moves(t, g)
    BY <1>1, <1>3, <2>1, <2>2 DEF Moves, Goto, Do, FrameType
  <2>4. FrameInv(g) /\ CallInv(g)
    BY <1>2, <2>2 DEF Same, FrameInv, CallInv, RegisterPCs, ActivePCs, Inside, DeactivatePCs, ClientPCs
  <2>5. PlaceInv(f) => PlaceInv(g)
    BY <1>2, <2>2 DEF Same, PlaceInv, RegisterPCs, ActivePCs, Inside, DeactivatePCs
  <2> QED
    BY <1>1, <1>2, <2>2, <2>3, <2>4, <2>5, GoKept DEF Same, RegisterPCs, Inside, DeactivatePCs
<1>4. CASE Do(t, [pc |-> "fault"])
  <2> USE DEF IInv
  <2>1. Moves(t, Fault) /\ Fault.pc = "fault"
    BY <1>4 DEF Moves, Do, FrameType, Fault
  <2>2. TypeInv'
    BY <2>1 DEF TypeInv, Moves, machine, registry, inst, inputs, counts, history, Ids
  <2>3. Grows /\ Ids' = Ids /\ objects' = objects
    BY DEF Grows, Ids, machine, TypeInv
  <2>4. FramesInv'
    <3>1. FrameInv(Fault)' /\ CallInv(Fault)'
      BY <2>1 DEF FrameInv, CallInv, RegisterPCs, ActivePCs, Inside, DeactivatePCs
    <3>2. \A u \in Threads \ {t} : F(u).pc \in RegisterPCs => ~ objects'[F(u).new].ready
      BY <2>3 DEF FramesInv, FrameInv
    <3> QED
      BY <2>1, <2>3, <3>1, <3>2, FramesKept DEF RegisterPCs, inst
  <2>5. LatchInv'
    <3>1. \A u \in Threads : F(u)' = IF u = t THEN Fault ELSE F(u)
      BY <2>1 DEF Moves, F, TypeInv
    <3>2. Crashed'
      BY <2>1, <3>1 DEF Crashed, F
    <3>3. \A o : Within(o)' \subseteq Within(o)
      BY <2>1, <3>1 DEF Within, Inside
    <3>4. \A o \in Ids : objects[o].latch = CLOSED => Within(o)' = {}
      BY <3>3 DEF LatchInv
    <3>5. \A u \in Threads : F(u)'.pc \in {"unregister", "destroy"} /\ (objects'[F(u)'.old]).kind = "ACTIVE" =>
              objects'[F(u)'.old].latch = CLOSED
      BY <2>1, <2>3, <3>1 DEF LatchInv, KindOf
    <3> QED
      BY <2>3, <3>2, <3>4, <3>5 DEF LatchInv, KindOf
  <2>6. ReadyInv'
    BY <1>1, <1>2, <2>1, <2>3, ReadyKept DEF RegisterPCs, DeactivatePCs
  <2>7. InstanceInv'
    BY <1>1, <1>2, <2>1, InstanceKept DEF Unsettled, Unsatisfied, KindOf, machine, inst
  <2>8. RegistryInv'
    <3>1. Undone' => Undone
      BY <2>1, UndoneKept DEF Unsatisfied, KindOf, machine
    <3> QED
      BY <1>1, <1>2, <2>1, <3>1, RegistryKept DEF registry, history
  <2>9. NotifyInv'
    <3>1. PlaceInv(f) => Rest
      BY <1>2 DEF PlaceInv, ActivePCs, Inside
    <3> QED
      BY <1>1, <1>2, <2>1, <3>1, NotifyKept DEF machine, Unsatisfied, KindOf, DeactivatePCs
  <2> QED
    BY <2>2, <2>4, <2>5, <2>6, <2>7, <2>8, <2>9
<1> QED
  BY <1>3, <1>4

-----------------------------------------------------------------------------
(* Deactivate. *)

LEMMA DeactivateStep == ASSUME IInv, NEW t \in Threads, Deactivate(t) PROVE IInv'
<1> USE DEF Deactivate, At
<1>1. PICK f \in Frames : f = F(t)
  BY FrameOf DEF IInv
<1>2. FrameInv(f) /\ CallInv(f) /\ f.pc = "deactivate" /\ f.new = 0 /\ f.body # "modify" /\ t \notin data
  BY <1>1 DEF IInv, FramesInv, FrameInv
<1>3. state \in Ids /\ state \in Nat /\ KindOf(state) \in Kinds
  <2>1. objects[state] \in ObjType /\ state \in Ids /\ state \in Nat
    BY DEF IInv, TypeInv, Ids
  <2> QED
    BY <2>1 DEF ObjType, KindOf
<1>4. CASE Unsatisfied
  <2>1. PICK g : g = [f EXCEPT !.pc = "join", !.old = state]
    OBVIOUS
  <2>2. g \in Frames /\ g.pc = "join" /\ g.old = state /\ g.client = f.client /\ g.ok = f.ok /\ g.body = f.body
    BY <1>3, <2>1 DEF Frames, PCs
  <2>3. Moves(t, g)
    BY <1>1, <1>4, <2>1, <2>2 DEF Moves, Do, FrameType, Unsatisfied
  <2>4. FrameInv(g) /\ CallInv(g)
    BY <1>2, <1>3, <2>2 DEF FrameInv, CallInv, RegisterPCs, ActivePCs, Inside, DeactivatePCs, ClientPCs
  <2>5. PlaceInv(f) => PlaceInv(g)
    BY <1>2, <1>4, <2>2 DEF PlaceInv, RegisterPCs, ActivePCs, Inside, DeactivatePCs
  <2> QED
    BY <1>1, <1>2, <2>2, <2>3, <2>4, <2>5, GoKept DEF RegisterPCs, Inside, DeactivatePCs
<1>5. CASE ~ Unsatisfied
  <2>1. PICK g : g = [f EXCEPT !.pc = "deactivateLoop", !.via = KindOf(state)]
    OBVIOUS
  <2>2. /\ g \in Frames /\ g.pc = "deactivateLoop" /\ g.new = 0
        /\ g.client = f.client /\ g.ok = f.ok /\ g.body = f.body
    BY <1>2, <1>3, <2>1 DEF Frames, PCs
  <2>3. Moves(t, g)
    BY <1>1, <1>5, <2>1, <2>2 DEF Moves, Do, FrameType, Unsatisfied
  <2>4. FrameInv(g) /\ CallInv(g)
    BY <1>2, <2>2 DEF FrameInv, CallInv, RegisterPCs, ActivePCs, Inside, DeactivatePCs, ClientPCs
  <2>5. PlaceInv(f) => PlaceInv(g)
    BY <1>2, <2>2 DEF PlaceInv, RegisterPCs, ActivePCs, Inside, DeactivatePCs
  <2> QED
    BY <1>1, <1>2, <2>2, <2>3, <2>4, <2>5, GoKept DEF RegisterPCs, Inside, DeactivatePCs
<1> QED
  BY <1>4, <1>5

LEMMA JoinStep == ASSUME IInv, NEW t \in Threads, Join(t) PROVE IInv'
<1> USE DEF Join, At
<1>1. PICK f \in Frames : f = F(t)
  BY FrameOf DEF IInv
<1>2. f.pc = "join" /\ t \notin data
  BY <1>1 DEF IInv, FramesInv
<1>3. Moves(t, Idle)
  BY IdlePlaces DEF Moves, Do
<1>4. PlaceInv(f) => Rest
  BY <1>2 DEF PlaceInv, Rest, Even
<1> QED
  BY <1>1, <1>2, <1>3, <1>4, IdlePlaces, GoKept DEF RegisterPCs, Inside, DeactivatePCs

\* A call that is over, or goes on to register the component again.
LEMMA Returns ==
    ASSUME NEW t \in Threads, NEW f \in Frames, f = F(t), Return(t), CallInv(f), f.pc # "countDown"
    PROVE  \E g : /\ Moves(t, g)
                  /\ \/ f.body # "modify" /\ g = Idle
                     \/ f.body = "modify" /\ g.pc = "reregister" /\ g.client = f.client /\ ~ g.ok /\ g.body = "create"
<1>1. ~ f.ok
  BY DEF CallInv, Frames, PCs
<1>2. CASE f.body = "modify"
  <2>1. PICK g : g = [f EXCEPT !.pc = "reregister", !.body = "create"]
    OBVIOUS
  <2>2. g \in Frames /\ g.pc = "reregister" /\ g.client = f.client /\ g.ok = f.ok /\ g.body = "create"
    BY <2>1 DEF Frames, PCs
  <2>3. Moves(t, g)
    BY <1>1, <1>2, <2>1, <2>2 DEF Return, Do, Moves, FrameType
  <2> QED
    BY <1>1, <1>2, <2>2, <2>3
<1>3. CASE f.body # "modify"
  BY <1>3, IdlePlaces DEF Return, Do, Moves
<1> QED
  BY <1>2, <1>3
LEMMA DeactivateLoopStep == ASSUME IInv, NEW t \in Threads, DeactivateLoop(t) PROVE IInv'
<1> USE DEF DeactivateLoop, At
<1>1. PICK f \in Frames : f = F(t)
  BY FrameOf DEF IInv
<1>2. FrameInv(f) /\ CallInv(f) /\ f.pc = "deactivateLoop" /\ t \notin data /\ ~ f.client
  BY <1>1 DEF IInv, FramesInv, CallInv, ClientPCs
<1>3. CASE Unsatisfied
  <2>1. Return(t) /\ UNCHANGED machine
    BY <1>3 DEF Unsatisfied
  <2>2. PICK g : /\ Moves(t, g)
                 /\ \/ f.body # "modify" /\ g = Idle
                    \/ f.body = "modify" /\ g.pc = "reregister" /\ g.client = f.client /\ ~ g.ok /\ g.body = "create"
    BY <1>1, <1>2, <2>1, Returns
  <2>3. g.pc \in {"idle", "reregister"} /\ FrameInv(g) /\ CallInv(g)
    BY <1>2, <2>2, IdlePlaces DEF FrameInv, CallInv, RegisterPCs, ActivePCs, Inside, DeactivatePCs, ClientPCs
  <2>4. PlaceInv(f) => IF g.pc = "idle" THEN Rest ELSE PlaceInv(g)
    BY <1>2, <1>3, <2>2, IdlePlaces DEF PlaceInv, Rest, Even, RegisterPCs, ActivePCs, Inside, DeactivatePCs
  <2> QED
    BY <1>1, <1>2, <2>1, <2>2, <2>3, <2>4, IdlePlaces, GoKept DEF RegisterPCs, Inside, DeactivatePCs
<1>4. CASE ~ Unsatisfied /\ f.new = 0
  <2> USE DEF IInv
  <2>1. PICK e : e = New("UNSATISFIED_REFERENCE", FALSE)
    OBVIOUS
  <2>2. e \in ObjType /\ e.kind = "UNSATISFIED_REFERENCE" /\ ~ e.ready /\ e.latch = 0
    BY <2>1, NewObject DEF Kinds
  <2>3. Install(e) /\ Do(t, [f EXCEPT !.pc = "deactivateWait", !.old = state, !.new = Len(objects) + 1])
    BY <1>1, <1>4, <2>1 DEF Unsatisfied
  <2>4. /\ Grows /\ Ids \subseteq Ids' /\ state' = Len(objects) + 1 /\ state' \in Ids' /\ state' \notin Ids
        /\ Len(objects) + 1 \in Nat
        /\ \A o \in Ids' \ Ids : o = state'
        /\ objects'[state'] = e /\ \A o \in Ids : objects'[o] = objects[o]
    BY <2>2, <2>3, Installed
  <2>5. state \in Ids /\ state \in Nat
    BY DEF TypeInv, Ids
  <2>6. PICK g : g = [f EXCEPT !.pc = "deactivateWait", !.old = state, !.new = Len(objects) + 1]
    OBVIOUS
  <2>7. /\ g \in Frames /\ g.pc = "deactivateWait" /\ g.old = state /\ g.new = state'
        /\ g.client = f.client /\ g.ok = f.ok /\ g.body = f.body
    BY <2>4, <2>5, <2>6 DEF Frames, PCs
  <2>8. Moves(t, g)
    BY <2>3, <2>6, <2>7 DEF Moves, Do, FrameType
  <2>9. TypeInv'
    BY <2>4, <2>8 DEF TypeInv, Moves, Grows, registry, inst, inputs, counts, history
  <2>10. FramesInv'
    <3>1. FrameInv(g)'
      BY <1>4, <2>2, <2>4, <2>5, <2>7 DEF FrameInv, KindOf, Unsatisfied, RegisterPCs, ActivePCs, Inside, DeactivatePCs
    <3>2. CallInv(g)'
      BY <1>2, <2>7 DEF CallInv, RegisterPCs, ClientPCs
    <3>3. \A u \in data' : u # t /\ u \in data
      BY <1>2 DEF inst
    <3>4. \A u \in Threads \ {t} : F(u).pc \in RegisterPCs => ~ objects'[F(u).new].ready
      BY <2>4 DEF FramesInv, FrameInv
    <3> QED
      BY <2>4, <2>7, <2>8, <3>1, <3>2, <3>3, <3>4, FramesKept DEF RegisterPCs
  <2>11. LatchInv'
    BY <1>1, <1>2, <2>2, <2>4, <2>7, <2>8, LatchKept DEF Inside
  <2>12. ReadyInv'
    BY <1>1, <1>2, <2>4, <2>7, <2>8, ReadyKept DEF RegisterPCs, DeactivatePCs
  <2>13. InstanceInv'
    BY <2>7, <2>8, InstanceKept
  <2>14. RegistryInv'
    BY <1>1, <1>2, <2>7, <2>8, RegistryKept DEF registry
  <2>15. NotifyInv'
    <3>1. Notifier(t)
      BY <1>1, <1>2 DEF Notifier
    <3>2. ASSUME PlaceInv(f) PROVE PlaceInv(g)'
      <4>1. Even /\ IF f.body = "modify" THEN enabled ELSE ~ Wanted
        BY <1>2, <3>2 DEF PlaceInv
      <4>2. /\ visible' /\ serviceReg' /\ Unsatisfied' /\ ~ objects'[g.new].ready
            /\ IF g.body = "modify" THEN enabled' ELSE ~ Wanted'
        BY <1>4, <2>2, <2>4, <2>7, <4>1 DEF Even, Unsatisfied, KindOf, Wanted, registry, inputs
      <4> QED
        BY <2>7, <4>2 DEF PlaceInv, RegisterPCs, ActivePCs, Inside, DeactivatePCs
    <3> QED
      BY <1>1, <1>2, <2>7, <2>8, <3>1, <3>2, NotifierKept DEF history
  <2> QED
    BY <2>9, <2>10, <2>11, <2>12, <2>13, <2>14, <2>15
<1>5. CASE ~ Unsatisfied /\ f.new # 0
  <2> USE DEF IInv
  <2>1. /\ state' = f.new /\ objects' = objects
        /\ Do(t, [f EXCEPT !.pc = "deactivateWait", !.old = state])
    BY <1>1, <1>5 DEF Unsatisfied
  <2>2. state \in Ids /\ state \in Nat /\ f.new \in Ids /\ KindOf(f.new) = "UNSATISFIED_REFERENCE"
    BY <1>2, <1>5 DEF TypeInv, Ids, FrameInv
  <2>3. PICK g : g = [f EXCEPT !.pc = "deactivateWait", !.old = state]
    OBVIOUS
  <2>4. /\ g \in Frames /\ g.pc = "deactivateWait" /\ g.old = state /\ g.new = f.new
        /\ g.client = f.client /\ g.ok = f.ok /\ g.body = f.body
    BY <2>2, <2>3 DEF Frames, PCs
  <2>5. Moves(t, g)
    BY <2>1, <2>3, <2>4 DEF Moves, Do, FrameType
  <2>6. TypeInv'
    BY <2>1, <2>2, <2>5 DEF TypeInv, Moves, Ids, registry, inst, inputs, counts, history
  <2>7. FramesInv' /\ LatchInv' /\ ReadyInv'
    <3>1. FrameInv(g) /\ CallInv(g)
      BY <1>2, <1>5, <2>2, <2>4
         DEF FrameInv, CallInv, KindOf, Unsatisfied, RegisterPCs, ActivePCs, Inside, DeactivatePCs, ClientPCs
    <3>2. \A u \in data' : u # t /\ u \in data
      BY <1>2 DEF inst
    <3> QED
      BY <1>1, <1>2, <2>1, <2>4, <2>5, <3>1, <3>2, PlainKept DEF RegisterPCs, Inside, DeactivatePCs
  <2>8. InstanceInv'
    BY <2>4, <2>5, InstanceKept
  <2>9. RegistryInv'
    BY <1>1, <1>2, <2>4, <2>5, RegistryKept DEF registry
  <2>10. NotifyInv'
    <3>1. Notifier(t)
      BY <1>1, <1>2 DEF Notifier
    <3>2. ~ PlaceInv(f)
      BY <1>2, <1>5 DEF PlaceInv
    <3> QED
      BY <1>1, <1>2, <2>4, <2>5, <3>1, <3>2, NotifierKept DEF history
  <2> QED
    BY <2>6, <2>7, <2>8, <2>9, <2>10
<1> QED
  BY <1>3, <1>4, <1>5

LEMMA DeactivateWaitStep == ASSUME IInv, NEW t \in Threads, DeactivateWait(t) PROVE IInv'
<1> USE DEF IInv
<1>1. PICK f \in Frames : f = F(t)
  BY FrameOf DEF DeactivateWait, At
<1>2. /\ FrameInv(f) /\ CallInv(f) /\ f.pc = "deactivateWait" /\ t \notin data /\ ~ Crashed
      /\ f.old \in Ids /\ f.new \in Ids /\ objects[f.old] \in ObjType
  <2>1. FrameInv(f) /\ CallInv(f) /\ f.pc = "deactivateWait" /\ t \notin data /\ ~ Crashed
    BY <1>1 DEF FramesInv, DeactivateWait, At
  <2>2. f.old \in Ids /\ f.new \in Ids
    BY <2>1 DEF FrameInv, DeactivatePCs
  <2> QED
    BY <2>1, <2>2 DEF TypeInv, Ids
<1>3. PICK o : o = f.old
  OBVIOUS
<1>4. PICK e \in ObjType :
          /\ objects' = [objects EXCEPT ![o] = e] /\ e.kind = objects[o].kind /\ e.ready = objects[o].ready
          /\ \/ KindOf(o) = "SATISFIED" /\ e.latch = objects[o].latch
             \/ objects[o].latch = 0 /\ e.latch = CLOSED
  <2>1. CASE KindOf(o) = "SATISFIED" /\ UNCHANGED objects
    <3>1. objects' = [objects EXCEPT ![o] = objects[o]]
      BY <1>2, <1>3, <2>1 DEF TypeInv, Ids
    <3> QED
      BY <1>2, <1>3, <2>1, <3>1
  <2>2. CASE objects[o].latch = 0 /\ objects' = [objects EXCEPT ![o].latch = CLOSED]
    <3>1. PICK e : e = [objects[o] EXCEPT !.latch = CLOSED]
      OBVIOUS
    <3>2. e \in ObjType /\ e.kind = objects[o].kind /\ e.ready = objects[o].ready /\ e.latch = CLOSED
      BY <1>2, <1>3, <3>1 DEF ObjType
    <3>3. objects' = [objects EXCEPT ![o] = e]
      BY <1>2, <1>3, <2>2, <3>1 DEF TypeInv, Ids
    <3> QED
      BY <2>2, <3>2, <3>3
  <2> QED
    BY <1>1, <1>3, <2>1, <2>2 DEF DeactivateWait
<1>5. PICK g : g = [f EXCEPT !.pc = "unregister"]
  OBVIOUS
<1>6. g \in Frames /\ g.pc = "unregister" /\ Same(f, g)
  BY <1>5 DEF Frames, PCs, Same
<1>7. Moves(t, g)
  BY <1>1, <1>5, <1>6 DEF Moves, Goto, Do, FrameType, DeactivateWait
<1>8. /\ Grows /\ Ids' = Ids
      /\ objects'[o] = e /\ \A i \in Ids \ {o} : objects'[i] = objects[i]
  <2>1. o \in Ids /\ objects' = [objects EXCEPT ![o] = e] /\ e.kind = objects[o].kind /\ TypeInv
    BY <1>2, <1>3, <1>4
  <2> HIDE DEF IInv
  <2> QED
    BY <2>1, Changed
<1>9. LatchInv'
  <2>1. \A u \in Threads : F(u)' = IF u = t THEN g ELSE F(u)
    BY <1>7 DEF Moves, F, TypeInv
  <2>2. ~ Crashed'
    BY <1>2, <1>6, <2>1 DEF Crashed, F
  <2>3. \A i : Within(i)' = Within(i)
    BY <1>1, <1>2, <1>6, <2>1 DEF Within, Inside
  <2>4. objects[o].latch = 0 => Within(o) = {}
    <3>1. IsFiniteSet(Within(o))
      BY FS_Subset, ConfigurationAssumption DEF Within
    <3>2. objects[o].latch = 0 => Cardinality(Within(o)) = 0
      BY <1>2, <1>3 DEF LatchInv, CLOSED
    <3> QED
      BY <3>1, <3>2, FS_EmptySet
  <2>5. \A i \in Ids : objects'[i].latch # CLOSED =>
            objects'[i].latch <= Cardinality(Threads) /\ objects'[i].latch = Cardinality(Within(i)')
    <3> SUFFICES ASSUME NEW i \in Ids, objects'[i].latch # CLOSED
                 PROVE  objects'[i].latch <= Cardinality(Threads) /\ objects'[i].latch = Cardinality(Within(i)')
      OBVIOUS
    <3>1. objects'[i].latch = objects[i].latch
      BY <1>4, <1>8
    <3> QED
      BY <1>2, <2>3, <3>1 DEF LatchInv
  <2>6. \A i \in Ids : objects'[i].latch = CLOSED => Within(i)' = {}
    BY <1>4, <1>8, <2>3, <2>4 DEF LatchInv
  <2>7. ASSUME NEW u \in Threads, F(u)'.pc \in {"unregister", "destroy"}, (objects'[F(u)'.old]).kind = "ACTIVE"
        PROVE  objects'[F(u)'.old].latch = CLOSED
    <3>1. CASE u = t
      <4>1. F(u)'.old = o
        BY <1>3, <1>6, <2>1, <3>1 DEF Same
      <4> QED
        BY <1>4, <1>8, <2>7, <4>1 DEF KindOf
    <3>2. CASE u # t
      <4>1. F(u).pc \in {"unregister", "destroy"} /\ F(u).old \in Ids /\ F(u)'.old = F(u).old
        BY <2>1, <2>7, <3>2 DEF FramesInv, FrameInv, DeactivatePCs
      <4>2. KindOf(F(u).old) = "ACTIVE"
        BY <1>8, <2>7, <4>1 DEF Grows, KindOf
      <4>3. objects[F(u).old].latch = CLOSED
        BY <4>1, <4>2 DEF LatchInv
      <4> QED
        BY <1>4, <1>8, <4>1, <4>2, <4>3 DEF CLOSED
    <3> QED
      BY <3>1, <3>2
  <2> QED
    BY <1>8, <2>2, <2>5, <2>6, <2>7 DEF LatchInv, KindOf
<1>10. FrameInv(g) /\ CallInv(g)
  BY <1>2, <1>6 DEF Same, FrameInv, CallInv, RegisterPCs, ActivePCs, Inside, DeactivatePCs, ClientPCs
<1>11. PlaceInv(f) => PlaceInv(g)
  BY <1>2, <1>6 DEF Same, PlaceInv, RegisterPCs, ActivePCs, Inside, DeactivatePCs
<1>12. /\ f.pc \notin RegisterPCs /\ g.pc \notin RegisterPCs /\ g.pc \notin {"fault", "idle"}
       /\ g.client = f.client /\ g.new = f.new
  BY <1>2, <1>6 DEF Same, RegisterPCs
<1>13. UNCHANGED <<state, registry, inst, inputs, counts, history>>
  BY DEF DeactivateWait
<1> HIDE DEF IInv
<1> QED
  BY <1>1, <1>2, <1>3, <1>4, <1>6, <1>7, <1>9, <1>10, <1>11, <1>12, <1>13, TouchKept
LEMMA UnregisterServiceStep == ASSUME IInv, NEW t \in Threads, UnregisterService(t) PROVE IInv'
<1> USE DEF IInv, UnregisterService, At
<1>1. PICK f \in Frames : f = F(t)
  BY FrameOf
<1>2. FrameInv(f) /\ CallInv(f) /\ f.pc = "unregister" /\ t \notin data /\ ~ f.client
  BY <1>1 DEF FramesInv, CallInv, ClientPCs
<1>3. PICK g : g = [f EXCEPT !.pc = "destroy"]
  OBVIOUS
<1>4. g \in Frames /\ g.pc = "destroy" /\ Same(f, g)
  BY <1>3 DEF Frames, PCs, Same
<1>5. Moves(t, g)
  BY <1>1, <1>3, <1>4 DEF Moves, Goto, Do, FrameType
<1>6. TypeInv'
  <2>1. serviceReg' \in BOOLEAN /\ visible' \in BOOLEAN
    BY DEF TypeInv, registry
  <2> QED
    BY <1>5, <2>1 DEF TypeInv, Moves, machine, inst, inputs, counts, history, Ids
<1>7. FramesInv' /\ LatchInv' /\ ReadyInv'
  <2>1. FrameInv(g) /\ CallInv(g)
    BY <1>2, <1>4 DEF Same, FrameInv, CallInv, RegisterPCs, ActivePCs, Inside, DeactivatePCs, ClientPCs
  <2>2. \A u \in data' : u # t /\ u \in data
    BY <1>2 DEF inst
  <2> QED
    BY <1>1, <1>2, <1>4, <1>5, <2>1, <2>2, PlainKept DEF Same, machine, RegisterPCs, Inside, DeactivatePCs
<1>8. InstanceInv'
  BY <1>4, <1>5, InstanceKept
<1>9. RegistryInv'
  BY <1>1, <1>2, <1>5, RegistryKept DEF registry
<1>10. NotifyInv'
  <2>1. Notifier(t)
    BY <1>1, <1>2 DEF Notifier
  <2>2. ASSUME PlaceInv(f) PROVE PlaceInv(g)'
    <3>1. /\ serviceReg /\ Unsatisfied /\ ~ objects[f.new].ready
          /\ IF f.body = "modify" THEN enabled ELSE ~ Wanted
      BY <1>2, <2>2 DEF PlaceInv, DeactivatePCs
    <3>2. /\ Gone' /\ ~ objects'[g.new].ready
          /\ IF g.body = "modify" THEN enabled' ELSE ~ Wanted'
      BY <1>4, <3>1 DEF Same, Gone, Unsatisfied, KindOf, Wanted, machine, inputs
    <3> QED
      BY <1>4, <3>2 DEF PlaceInv, RegisterPCs, ActivePCs, Inside, DeactivatePCs
  <2> QED
    BY <1>1, <1>2, <1>4, <1>5, <2>1, <2>2, NotifierKept DEF Same, history
<1> QED
  BY <1>6, <1>7, <1>8, <1>9, <1>10

LEMMA DestroyComponentInstancesStep == ASSUME IInv, NEW t \in Threads, DestroyComponentInstances(t) PROVE IInv'
<1> USE DEF IInv, DestroyComponentInstances, At
<1>1. PICK f \in Frames : f = F(t)
  BY FrameOf
<1>2. FrameInv(f) /\ CallInv(f) /\ f.pc = "destroy" /\ f.new \in Ids
  BY <1>1 DEF FramesInv, FrameInv, DeactivatePCs
<1>3. PICK g : g = [f EXCEPT !.pc = "setValue"]
  OBVIOUS
<1>4. g \in Frames /\ g.pc = "setValue" /\ Same(f, g)
  BY <1>3 DEF Frames, PCs, Same
<1>5. Moves(t, g)
  BY <1>1, <1>3, <1>4 DEF Moves, Goto, Do, FrameType
<1>6. TypeInv'
  BY <1>5 DEF TypeInv, Moves, machine, registry, inputs, counts, history, Ids
<1>7. FramesInv' /\ LatchInv' /\ ReadyInv'
  <2>1. FrameInv(g) /\ CallInv(g)
    BY <1>2, <1>4 DEF Same, FrameInv, CallInv, RegisterPCs, ActivePCs, Inside, DeactivatePCs, ClientPCs
  <2> QED
    BY <1>1, <1>2, <1>4, <1>5, <2>1, PlainKept DEF Same, machine, RegisterPCs, Inside, DeactivatePCs
<1>8. InstanceInv'
  BY <1>5, InstanceKept
<1>9. RegistryInv'
  <2>1. Undone' => Undone
    BY <1>1, <1>2, <1>4, <1>5, UndoneKept DEF Unsatisfied, KindOf, machine
  <2> QED
    BY <1>1, <1>2, <1>5, <2>1, RegistryKept DEF registry, history
<1>10. NotifyInv'
  <2>1. PlaceInv(f) => PlaceInv(g)
    BY <1>2, <1>4 DEF Same, PlaceInv, RegisterPCs, ActivePCs, Inside, DeactivatePCs
  <2> QED
    BY <1>1, <1>2, <1>4, <1>5, <2>1, NotifyKept DEF Same, machine, Unsatisfied, KindOf
<1> QED
  BY <1>6, <1>7, <1>8, <1>9, <1>10

LEMMA SetValueStep == ASSUME IInv, NEW t \in Threads, SetValue(t) PROVE IInv'
<1> USE DEF IInv
<1>1. PICK f \in Frames : f = F(t)
  BY FrameOf DEF SetValue, At
<1>2. /\ FrameInv(f) /\ CallInv(f) /\ f.pc = "setValue" /\ t \notin data /\ ~ f.client /\ ~ f.ok /\ ~ Crashed
      /\ f.new \in Ids /\ KindOf(f.new) = "UNSATISFIED_REFERENCE"
  <2>1. FrameInv(f) /\ CallInv(f) /\ f.pc = "setValue" /\ t \notin data /\ ~ Crashed
    BY <1>1 DEF FramesInv, SetValue, At
  <2> QED
    BY <2>1 DEF FrameInv, CallInv, ClientPCs, DeactivatePCs
<1>3. /\ Grows /\ Ids' = Ids /\ objects'[f.new].ready /\ objects'[f.new].latch = objects[f.new].latch
      /\ \A i \in Ids \ {f.new} : objects'[i] = objects[i]
  <2>1. objects' = [objects EXCEPT ![f.new].ready = TRUE]
    BY <1>1 DEF SetValue
  <2> QED
    BY <1>2, <2>1, Readied
<1>4. PICK g : /\ Moves(t, g)
               /\ \/ g.pc = "deactivateLoop" /\ Same(f, g)
                  \/ g = Idle /\ (objects[f.new].ready \/ f.body # "modify")
                  \/ f.body = "modify" /\ g.pc = "reregister" /\ g.client = f.client /\ ~ g.ok /\ g.body = "create"
  <2>1. CASE Goto(t, "deactivateLoop")
    <3>1. PICK g : g = [f EXCEPT !.pc = "deactivateLoop"]
      OBVIOUS
    <3>2. g \in Frames /\ g.pc = "deactivateLoop" /\ Same(f, g)
      BY <3>1 DEF Frames, PCs, Same
    <3> QED
      BY <1>1, <2>1, <3>1, <3>2 DEF Goto, Do, Moves, FrameType
  <2>2. CASE Do(t, Idle) /\ objects[f.new].ready
    BY <2>2, IdlePlaces DEF Do, Moves
  <2>3. CASE Return(t)
    BY <1>1, <1>2, <2>3, Returns
  <2> QED
    BY <1>1, <2>1, <2>2, <2>3 DEF SetValue
<1>5. g.pc \in {"deactivateLoop", "idle", "reregister"}
  BY <1>4, IdlePlaces
<1>6. UNCHANGED <<state, registry, inst, inputs, counts, history>>
  BY DEF SetValue
<1>7. TypeInv'
  BY <1>3, <1>4, <1>6 DEF TypeInv, Moves, Grows, registry, inst, inputs, counts, history
<1>8. FramesInv'
  <2>1. KindOf(f.new)' = "UNSATISFIED_REFERENCE"
    BY <1>2, <1>3 DEF Grows, KindOf
  <2>2. FrameInv(g)'
    BY <1>2, <1>3, <1>4, <1>5, <2>1, IdlePlaces DEF Same, FrameInv, RegisterPCs, ActivePCs, Inside, DeactivatePCs
  <2>3. CallInv(g)'
    BY <1>2, <1>4, <1>5, IdlePlaces DEF Same, CallInv, RegisterPCs, ClientPCs
  <2>4. \A u \in data' : u # t /\ u \in data
    BY <1>2, <1>6 DEF inst
  <2>5. \A u \in Threads \ {t} : F(u).pc \in RegisterPCs => ~ objects'[F(u).new].ready
    BY <1>2, <1>3 DEF FramesInv, FrameInv
  <2> QED
    BY <1>3, <1>4, <1>5, <2>2, <2>3, <2>4, <2>5, FramesKept DEF RegisterPCs
<1>9. LatchInv'
  BY <1>1, <1>2, <1>3, <1>4, <1>5, LatchKept DEF Inside
<1>10. ReadyInv'
  BY <1>1, <1>2, <1>3, <1>4, ReadyKept
<1>11. Unsatisfied' = Unsatisfied /\ (Unsettled' => Unsettled)
  BY <1>3, <1>6 DEF Unsettled, Unsatisfied, KindOf, Grows, TypeInv
<1>12. InstanceInv'
  BY <1>1, <1>2, <1>4, <1>6, <1>11, InstanceKept DEF inst
<1>13. RegistryInv'
  <2>1. Undone' => Undone
    BY <1>4, <1>5, <1>6, <1>11, UndoneKept
  <2> QED
    BY <1>1, <1>2, <1>4, <1>6, <2>1, RegistryKept DEF registry, history
<1>14. NotifyInv'
  <2>1. Notifier(t)
    BY <1>1, <1>2 DEF Notifier
  <2>2. ASSUME PlaceInv(f) PROVE IF g.pc \in {"idle", "fault"} THEN Rest' ELSE PlaceInv(g)'
    <3>1. Gone /\ ~ objects[f.new].ready /\ IF f.body = "modify" THEN enabled ELSE ~ Wanted
      BY <1>2, <2>2 DEF PlaceInv, DeactivatePCs
    <3>2. Gone' /\ IF f.body = "modify" THEN enabled' ELSE ~ Wanted'
      BY <1>6, <1>11, <3>1 DEF Gone, Wanted, registry, inputs
    <3>3. g.pc = "deactivateLoop" => PlaceInv(g)'
      BY <1>4, <3>2, IdlePlaces DEF Same, PlaceInv, Gone, Even, RegisterPCs, ActivePCs, Inside, DeactivatePCs
    <3>4. g.pc = "reregister" => PlaceInv(g)'
      BY <1>4, <3>2, IdlePlaces DEF PlaceInv, Gone, Even, RegisterPCs, ActivePCs, Inside, DeactivatePCs
    <3>5. g.pc = "idle" => Rest'
      BY <1>4, <3>1, <3>2 DEF Rest, Gone, Even
    <3> QED
      BY <1>5, <3>3, <3>4, <3>5
  <2>3. g.pc = "idle" \/ ~ g.client
    BY <1>2, <1>4, IdlePlaces DEF Same
  <2>4. crossed' = crossed /\ refused' = refused
    BY <1>6 DEF history
  <2>5. PlaceInv(F(t)) => IF g.pc \in {"idle", "fault"} THEN Rest' ELSE PlaceInv(g)'
    BY <1>1, <2>2
  <2> QED
    BY <1>4, <2>1, <2>3, <2>4, <2>5, NotifierKept
<1> QED
  BY <1>7, <1>8, <1>9, <1>10, <1>12, <1>13, <1>14

-----------------------------------------------------------------------------
(* Calls. *)

LEMMA CallKept ==
    ASSUME IInv, NEW t \in Threads, NEW pc, NEW r \in Refs, NEW body, NEW client \in BOOLEAN, Call(t, pc, r, body, client),
           pc \in {"refSatisfied", "deactivate", "activate"}, body \in {"create", "modify", "bind"},
           pc # "activate" => body = "create", client => pc = "activate" /\ body = "create" /\ UNCHANGED inputs,
           immediate' = immediate, satisfied' \subseteq Refs, enabled' \in BOOLEAN,
           ASSUME NEW g, Rest, g.pc = pc, g.ref = r, g.body = body, ~ client PROVE PlaceInv(g)'
    PROVE  IInv'
<1> USE DEF IInv
<1>1. PICK g : g = [pc |-> pc, ref |-> r, old |-> 0, new |-> 0, via |-> "SATISFIED", body |-> body,
                    made |-> FALSE, ok |-> FALSE, client |-> client]
  OBVIOUS
<1>2. /\ g \in Frames /\ g.pc = pc /\ g.ref = r /\ g.new = 0 /\ g.body = body /\ ~ g.ok /\ g.client = client
  BY <1>1 DEF Frames, PCs, Kinds
<1>3. Moves(t, g)
  BY <1>1, <1>2 DEF Moves, Call, Do, FrameType
<1>4. F(t).pc = "idle" /\ ~ Crashed
  BY IdlePlaces DEF Call
<1>5. TypeInv'
  <2>1. calls' \in 0 .. MaxCalls
    <3>1. calls \in 0 .. MaxCalls /\ calls < MaxCalls /\ calls' = calls + 1
      BY DEF TypeInv, Call
    <3> QED
      BY <3>1, ConfigurationAssumption
  <2>2. crossed' \in BOOLEAN
    BY DEF Call, TypeInv
  <2> QED
    BY <1>3, <2>1, <2>2 DEF TypeInv, Moves, Call, machine, registry, inst, Ids
<1>6. FramesInv' /\ LatchInv' /\ ReadyInv'
  <2>1. FrameInv(g) /\ CallInv(g)
    BY <1>2 DEF FrameInv, CallInv, RegisterPCs, ActivePCs, Inside, DeactivatePCs, ClientPCs
  <2>2. \A u \in data' : u # t /\ u \in data
    BY <1>4 DEF Call, inst, FramesInv
  <2>3. UNCHANGED objects
    BY DEF Call, machine
  <2> QED
    BY <1>2, <1>3, <1>4, <2>1, <2>2, <2>3, PlainKept DEF RegisterPCs, Inside, DeactivatePCs
<1>7. InstanceInv'
  BY <1>3, <1>4, InstanceKept DEF Call, Unsettled, Unsatisfied, KindOf, machine, inst
<1>8. RegistryInv'
  <2>1. Undone' => Undone
    BY <1>2, <1>3, <1>4, UndoneKept DEF Call, Unsatisfied, KindOf, machine
  <2> QED
    BY <1>3, <1>4, <2>1, RegistryKept DEF Call, registry
<1>9. NotifyInv'
  <2>1. CASE client
    <3>1. ~ Notifier(t)
      BY <1>4 DEF Notifier
    <3>2. UNCHANGED <<visible, serviceReg, enabled, satisfied, refused>> /\ objects' = objects /\ Unsatisfied' = Unsatisfied
      BY <2>1 DEF Call, registry, inputs, machine, Unsatisfied, KindOf
    <3>3. crossed' = crossed
      BY <2>1 DEF Call, TypeInv
    <3> QED
      BY <1>2, <1>3, <2>1, <3>1, <3>2, <3>3, ClientKept
  <2>2. CASE ~ client
    <3> SUFFICES ASSUME ~ crossed' PROVE OneNotifier' /\ (~ refused' => Alone')
      BY DEF NotifyInv
    <3>1. ~ crossed /\ \A u \in Threads : F(u) # Idle => F(u).client
      BY <2>2 DEF Call
    <3>2. \A u \in Threads : ~ Notifier(u)
      BY <3>1, IdlePlaces DEF Notifier
    <3>3. \A u \in Threads : F(u)' = IF u = t THEN g ELSE F(u)
      BY <1>3 DEF Moves, F, TypeInv
    <3>4. \A u \in Threads : Notifier(u)' => u = t
      BY <3>2, <3>3 DEF Notifier
    <3>5. Notifier(t)'
      BY <1>2, <2>2, <3>3 DEF Notifier
    <3>6. ASSUME ~ refused' PROVE Alone'
      <4>1. Rest
        BY <3>1, <3>2, <3>6 DEF Call, NotifyInv, Alone
      <4>2. PlaceInv(g)'
        BY <1>2, <2>2, <4>1
      <4>3. F(t)' = g
        BY <3>3
      <4>4. PlaceInv(F(t))'
        BY <4>2, <4>3
      <4> QED
        BY <3>4, <3>5, <4>4 DEF Alone
    <3> QED
      BY <3>4, <3>6 DEF OneNotifier
  <2> QED
    BY <2>1, <2>2
<1> QED
  BY <1>5, <1>6, <1>7, <1>8, <1>9
LEMMA ServiceAddedStep == ASSUME IInv, NEW t \in Threads, NEW r \in Refs, ServiceAdded(t, r) PROVE IInv'
<1> USE DEF ServiceAdded
<1>1. satisfied' \subseteq Refs /\ enabled' \in BOOLEAN
  BY DEF IInv, TypeInv
<1>2. ASSUME NEW g, Rest, g.pc = "refSatisfied", g.ref = r PROVE PlaceInv(g)'
  <2>1. ~ Wanted
    BY DEF Wanted
  <2>2. Gone' /\ enabled' /\ g.ref \in satisfied'
    BY <1>2, <2>1 DEF Rest, Even, Gone, Unsatisfied, KindOf, Call, registry, machine
  <2> QED
    BY <1>2, <2>2 DEF PlaceInv, RegisterPCs, ActivePCs, Inside, DeactivatePCs
<1> QED
  BY <1>1, <1>2, CallKept

LEMMA ServiceRemovedStep == ASSUME IInv, NEW t \in Threads, NEW r \in Refs, ServiceRemoved(t, r) PROVE IInv'
<1> USE DEF ServiceRemoved
<1>1. satisfied' \subseteq Refs /\ enabled' \in BOOLEAN
  BY DEF IInv, TypeInv
<1>2. ASSUME NEW g, Rest, g.pc = "deactivate" PROVE PlaceInv(g)'
  <2>1. ~ Wanted'
    BY DEF Wanted
  <2>2. Even'
    BY <1>2 DEF Rest, Even, Unsatisfied, KindOf, Call, registry, machine
  <2> QED
    BY <1>2, <2>1, <2>2 DEF PlaceInv, RegisterPCs, ActivePCs, Inside, DeactivatePCs
<1> QED
  BY <1>1, <1>2, CallKept

LEMMA DisableStep == ASSUME IInv, NEW t \in Threads, Disable(t) PROVE IInv'
<1> USE DEF Disable
<1>1. satisfied' \subseteq Refs /\ enabled' \in BOOLEAN /\ AnyRef \in Refs
  BY ConfigurationAssumption DEF IInv, TypeInv, AnyRef
<1>2. ASSUME NEW g, Rest, g.pc = "deactivate" PROVE PlaceInv(g)'
  <2>1. ~ Wanted'
    BY DEF Wanted
  <2>2. Even'
    BY <1>2 DEF Rest, Even, Unsatisfied, KindOf, Call, registry, machine
  <2> QED
    BY <1>2, <2>1, <2>2 DEF PlaceInv, RegisterPCs, ActivePCs, Inside, DeactivatePCs
<1> QED
  BY <1>1, <1>2, CallKept

LEMMA ActivateCallStep ==
    ASSUME IInv, NEW t \in Threads, GetService(t) \/ Modified(t) \/ Rebind(t) PROVE IInv'
<1>1. AnyRef \in Refs
  BY ConfigurationAssumption DEF AnyRef
<1>2. /\ UNCHANGED inputs
      /\ \/ Call(t, "activate", AnyRef, "create", TRUE)
         \/ enabled /\ Call(t, "activate", AnyRef, "modify", FALSE)
         \/ enabled /\ Call(t, "activate", AnyRef, "bind", FALSE)
  BY DEF GetService, Modified, Rebind
<1>3. immediate' = immediate /\ satisfied' \subseteq Refs /\ enabled' \in BOOLEAN
  BY <1>2 DEF IInv, TypeInv, inputs
<1>4. CASE Call(t, "activate", AnyRef, "create", TRUE)
  BY <1>1, <1>2, <1>3, <1>4, CallKept
<1>5. ASSUME NEW b \in {"modify", "bind"}, enabled, Call(t, "activate", AnyRef, b, FALSE) PROVE IInv'
  <2>1. ASSUME NEW g, Rest, g.pc = "activate" PROVE PlaceInv(g)'
    <3>1. UNCHANGED <<objects, state, visible, serviceReg, enabled, satisfied>>
      BY <1>2, <1>5 DEF Call, machine, registry, inputs
    <3>2. PlaceInv(g)
      BY <1>5, <2>1 DEF PlaceInv, RegisterPCs, ActivePCs, Inside, DeactivatePCs
    <3> QED
      BY <3>1, <3>2, SameOutlook
  <2> QED
    BY <1>1, <1>2, <1>3, <1>5, <2>1, CallKept
<1> QED
  BY <1>2, <1>4, <1>5

-----------------------------------------------------------------------------
(* The theorems. *)

LEMMA InitInv == Init => IInv
<1> SUFFICES ASSUME Init PROVE IInv
  OBVIOUS
<1> USE DEF Init
<1>1. PICK e : e = New("UNSATISFIED_REFERENCE", TRUE)
  OBVIOUS
<1>2. e \in ObjType /\ e.kind = "UNSATISFIED_REFERENCE" /\ e.ready /\ e.latch = 0
  BY <1>1, NewObject DEF Kinds
<1>3. objects \in Seq(ObjType) /\ Len(objects) = 1 /\ objects[1] = e /\ Ids = {1}
  <2>1. objects = <<e>>
    BY <1>1
  <2>2. <<e>> \in Seq(ObjType) /\ Len(<<e>>) = 1 /\ <<e>>[1] = e
    BY <1>2
  <2>3. Ids = {1}
    BY <2>1, <2>2 DEF Ids
  <2> QED
    BY <2>1, <2>2, <2>3
<1>4. \A t \in Threads : F(t) = Idle /\ F(t).pc = "idle"
  BY IdlePlaces DEF F
<1>5. TypeInv
  <2>1. calls \in 0 .. MaxCalls /\ failures \in 0 .. MaxFailures
    BY ConfigurationAssumption
  <2>2. satisfied \subseteq Refs /\ frame \in [Threads -> FrameType] /\ state \in Ids
    BY <1>3 DEF FrameType
  <2> QED
    BY <1>3, <2>1, <2>2 DEF TypeInv
<1>6. FramesInv
  BY <1>4, IdlePlaces DEF FramesInv, RegisterPCs
<1>7. LatchInv
  <2>1. \A o : Within(o) = {}
    BY <1>4 DEF Within, Inside
  <2>2. Cardinality({}) = 0 /\ Cardinality(Threads) \in Nat
    BY FS_EmptySet, FS_CardinalityType, ConfigurationAssumption
  <2>3. ASSUME NEW o \in Ids PROVE objects[o].latch = 0
    BY <1>2, <1>3
  <2> HIDE DEF Init
  <2> QED
    BY <1>4, <2>1, <2>2, <2>3 DEF LatchInv, CLOSED
<1>8. ReadyInv
  BY <1>2, <1>3 DEF ReadyInv
<1>9. InstanceInv /\ RegistryInv
  BY DEF InstanceInv, RegistryInv
<1>10. NotifyInv
  <2>1. \A t \in Threads : ~ Notifier(t)
    BY <1>4 DEF Notifier
  <2>2. Rest
    <3>1. Unsatisfied
      BY <1>2, <1>3 DEF Unsatisfied, KindOf
    <3>2. ~ Wanted
      <4>1. satisfied \in (SUBSET Refs) \ {Refs}
        OBVIOUS
      <4>2. satisfied \subseteq Refs /\ satisfied # Refs
        BY <4>1
      <4> QED
        BY <4>2 DEF Wanted
    <3> QED
      BY <3>1, <3>2 DEF Rest, Even
  <2> QED
    BY <2>1, <2>2 DEF NotifyInv, OneNotifier, Alone
<1> QED
  BY <1>5, <1>6, <1>7, <1>8, <1>9, <1>10 DEF IInv

\* The inductive invariant holds, for every operation of the states of a configuration
\* (CCUnsatisfiedReferenceState.cpp, CCRegisteredState.cpp, CCActiveState.cpp).
THEOREM AlwaysIInv == Spec => []IInv
<1>1. Init => IInv
  BY InitInv
<1>2. IInv /\ [Next]_vars => IInv'
  <2> SUFFICES ASSUME IInv, [Next]_vars PROVE IInv'
    OBVIOUS
  <2>1. CASE UNCHANGED vars
    <3>1. UNCHANGED <<objects, state, visible, serviceReg, enabled, satisfied, frame>>
      BY <2>1 DEF vars
    <3>2. TypeInv'
      BY <2>1 DEF IInv, TypeInv, Ids, vars
    <3>3. FramesInv' /\ LatchInv'
      BY <2>1 DEF IInv, vars, FramesInv, FrameInv, CallInv, F, KindOf, Ids, LatchInv, Within, Crashed
    <3>4. ReadyInv' /\ InstanceInv' /\ RegistryInv'
      BY <2>1 DEF IInv, vars, F, KindOf, Ids, ReadyInv, InstanceInv, RegistryInv, Unsettled, Unsatisfied, Undone
    <3>5. NotifyInv'
      BY <2>1, <3>1, SameOutlook DEF IInv, vars, F, NotifyInv, OneNotifier, Alone, Notifier, PlaceInv
    <3> QED
      BY <3>2, <3>3, <3>4, <3>5 DEF IInv
  <2>2. ASSUME NEW t \in Threads, NEW r \in Refs, ServiceAdded(t, r) \/ ServiceRemoved(t, r) PROVE IInv'
    BY <2>2, ServiceAddedStep, ServiceRemovedStep
  <2>3. ASSUME NEW t \in Threads, GetService(t) \/ Modified(t) \/ Rebind(t) \/ Disable(t) PROVE IInv'
    BY <2>3, ActivateCallStep, DisableStep
  <2>4. ASSUME NEW t \in Threads, Step(t) PROVE IInv'
    <3>1. CASE \/ RefSatisfied(t) \/ Reregister(t) \/ Register(t) \/ RegisterWait(t) \/ RegisterService(t)
               \/ RegisterStore(t) \/ SetRegistered(t) \/ RegisterFailed(t)
      BY <3>1, RefSatisfiedStep, ReregisterStep, RegisterStep, RegisterWaitStep, RegisterServiceStep, RegisterStoreStep,
         SetRegisteredStep, RegisterFailedStep
    <3>2. CASE \/ Activate(t) \/ Enter(t) \/ Lock(t) \/ CreateBegin(t) \/ CreateEnd(t) \/ Modify(t) \/ Bind(t)
               \/ CountDown(t) \/ ActivateFailed(t)
      BY <3>2, ActivateStep, EnterStep, LockStep, CreateBeginStep, CreateEndStep, ModifyStep, BindStep, CountDownStep,
         ActivateFailedStep
    <3>3. CASE \/ Deactivate(t) \/ Join(t) \/ DeactivateLoop(t) \/ DeactivateWait(t) \/ UnregisterService(t)
               \/ DestroyComponentInstances(t) \/ SetValue(t)
      BY <3>3, DeactivateStep, JoinStep, DeactivateLoopStep, DeactivateWaitStep, UnregisterServiceStep,
         DestroyComponentInstancesStep, SetValueStep
    <3> QED
      BY <2>4, <3>1, <3>2, <3>3 DEF Step
  <2> QED
    BY <2>1, <2>2, <2>3, <2>4 DEF Next
<1> QED
  BY <1>1, <1>2, PTL DEF Spec

\* Every variable keeps its type, and no latch counts more threads than there are (CounterLatch).
THEOREM TypeCorrect == Spec => []TypeOK
<1>1. IInv => TypeOK
  <2> SUFFICES ASSUME IInv PROVE TypeOK
    OBVIOUS
  <2>1. TypeInv /\ LatchInv
    BY DEF IInv
  <2>2. ASSUME NEW o \in Ids
        PROVE  /\ objects[o].kind \in Kinds /\ objects[o].ready \in BOOLEAN /\ objects[o].busy \in BOOLEAN
               /\ objects[o].latch \in {CLOSED} \cup 0 .. Cardinality(Threads)
    <3>1. objects[o] \in ObjType
      BY <2>1 DEF TypeInv, Ids
    <3>2. objects[o].latch \in {CLOSED} \cup Nat
      BY <3>1 DEF ObjType
    <3>3. objects[o].latch # CLOSED => objects[o].latch <= Cardinality(Threads)
      BY <2>1 DEF LatchInv
    <3>4. Cardinality(Threads) \in Nat
      BY FS_CardinalityType, ConfigurationAssumption
    <3> QED
      BY <3>1, <3>2, <3>3, <3>4 DEF ObjType
  <2>3. data \subseteq Threads /\ Cardinality(data) <= 1
    <3>1. CASE data = {}
      BY <3>1, FS_EmptySet
    <3>2. ASSUME NEW t \in Threads, data = {t} PROVE data \subseteq Threads /\ Cardinality(data) <= 1
      <4>1. Cardinality({t}) = 1
        BY FS_Singleton
      <4> QED
        BY <3>2, <4>1
    <3> QED
      BY <2>1, <3>1, <3>2 DEF TypeInv
  <2>4. \A t \in Threads : frame[t] \in Frames \/ frame[t] \in {Idle, [pc |-> "fault"]}
    BY <2>1 DEF TypeInv, FrameType, Fault
  <2> QED
    BY <2>1, <2>2, <2>3, <2>4 DEF TypeInv, TypeOK, Ids
<1> QED
  BY <1>1, AlwaysIInv, PTL

\* LatchExcludes: while a deactivation takes the service and the instance away, nobody is in Activate, Modified or
\* Rebind of the active state it replaced (CCActiveState.cpp, CounterLatch).
THEOREM LatchAlwaysExcludes == Spec => []LatchExcludes
<1>1. IInv => LatchExcludes
  <2> SUFFICES ASSUME IInv, NEW t \in Threads, NEW u \in Threads,
                      F(t).pc \in {"unregister", "destroy"}, F(u).pc \in Inside, F(u).new = F(t).old
               PROVE  FALSE
    BY DEF LatchExcludes
  <2>1. F(u).new \in Ids /\ KindOf(F(t).old) = "ACTIVE"
    BY DEF IInv, FramesInv, FrameInv, ActivePCs
  <2>2. objects[F(t).old].latch = CLOSED
    BY <2>1 DEF IInv, LatchInv
  <2>3. Within(F(u).new) = {}
    BY <2>1, <2>2 DEF IInv, LatchInv
  <2> QED
    BY <2>3 DEF Within
<1> QED
  BY <1>1, AlwaysIInv, PTL

\* SettledWhenQuiet: whatever raced, a configuration no thread is at work on has its transition finished and no
\* instance while it is unsatisfied; its service is there exactly when it should be, but for the cases named there.
THEOREM AlwaysSettledWhenQuiet == Spec => []SettledWhenQuiet
<1>1. IInv => SettledWhenQuiet
  <2> SUFFICES ASSUME IInv, Quiet PROVE SettledWhenQuiet
    BY DEF SettledWhenQuiet
  <2>1. \A t \in Threads : F(t).pc = "idle"
    BY IdlePlaces DEF Quiet, F
  <2>2. objects[state].ready
    BY <2>1 DEF IInv, TypeInv, ReadyInv, RegisterPCs, DeactivatePCs
  <2>3. Unsatisfied => ~ instance
    BY <2>1 DEF IInv, InstanceInv, Unsettled
  <2>4. Unsatisfied /\ ~ early => ~ visible
    BY <2>1 DEF IInv, RegistryInv, Undone
  <2>5. ~ crossed /\ ~ refused => Rest
    BY <2>1 DEF IInv, NotifyInv, Alone, Notifier
  <2>6. visible \in BOOLEAN /\ serviceReg \in BOOLEAN /\ enabled \in BOOLEAN
    BY DEF IInv, TypeInv
  <2>7. ~ crossed /\ ~ refused => /\ visible = serviceReg /\ visible = ~ (KindOf(state) = "UNSATISFIED_REFERENCE")
                                  /\ visible = (enabled /\ Refs \subseteq satisfied)
    BY <2>5, <2>6 DEF Rest, Even, Unsatisfied, Wanted
  <2> QED
    BY <2>2, <2>3, <2>4, <2>7 DEF SettledWhenQuiet, Unsatisfied
<1> QED
  BY <1>1, AlwaysIInv, PTL
=============================================================================
