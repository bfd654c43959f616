---------------------- MODULE ConfigurationAdminProofs ----------------------
(***************************************************************************)
(* Theorems about ConfigurationAdmin, for any client threads, workers,     *)
(* services, properties and numbers of calls.                              *)
(***************************************************************************)
EXTENDS ConfigurationAdmin, FiniteSetTheorems, TLAPS

ObjType == [props : Props, changeCount : Nat, removed : BOOLEAN, admin : BOOLEAN, held : BOOLEAN,
            by : {"client", "bundle"}]

\* What a client thread may be doing.
FrameType ==
    {Idle} \cup [pc : {"notify", "removing", "removed"}, o : Nat]
           \cup [pc : {"post"}, o : Nat, n : Nat]
           \cup [pc : {"invalidate"}, old : Nat, o : Nat, n : Nat \cup {NONE}]
           \cup [pc : {"adding"}, s : Services, p : Props, o : Nat, n : Nat]
           \cup [pc : {"swap"}, tell : SUBSET Services]
           \cup [pc : {"closeInvalidate"}, o : Nat, tell : SUBSET Services]
           \cup {[pc |-> "closeWait"]}

\* What may be posted, and what a worker may be doing.
PostType == {Hold} \cup [pc : {"lookup"}, o : Nat, n : Nat]
                   \cup [pc : {"initial"}, s : Services, p : Props]
TellPCs  == {"listeners", "check", "tell", "record"}
TellType == [pc : TellPCs, n : Nat, removed : BOOLEAN, p : Props, todo : SUBSET Services,
             s : Services \cup {NONE}]
TaskType == {Idle} \cup PostType \cup TellType

Ids == 1 .. Len(objs)

TypeInv ==
    /\ kind \in {"ManagedService", "ManagedServiceFactory"}
    /\ objs \in Seq(ObjType) /\ current \in 0 .. Len(objs)
    /\ \A o \in Ids : objs[o].changeCount <= calls
    /\ calls \in 0 .. MaxCalls
    /\ \/ lock = {}
       \/ \E t \in Threads : lock = {t}
    /\ status \in [Services -> {"new", "tracked", "removed"}] /\ last \in [Services -> 0 .. MaxCalls]
    /\ told \in [Services -> Props \cup {NONE}]
    /\ queue \in Seq(PostType) /\ task \in [Workers -> TaskType] /\ frame \in [Threads -> FrameType]
    /\ phase \in {"open", "closing", "gone"} /\ lapses \subseteq Lapses
    /\ throws \in Nat

\* The numbers in frames and tasks: configurations that exist, and counts they had.
NumbersInv ==
    /\ \A t \in Threads :
        /\ frame[t].pc \in {"notify", "removing", "removed", "post", "invalidate"} => frame[t].o \in Ids
        /\ frame[t].pc \in {"adding", "closeInvalidate"} => frame[t].o \in 0 .. Len(objs)
        /\ frame[t].pc = "invalidate" => frame[t].old \in Ids
        /\ frame[t].pc \in {"post", "adding"} => frame[t].n <= MaxCalls
        /\ frame[t].pc = "invalidate" /\ frame[t].n # NONE => frame[t].n <= MaxCalls
    /\ \A i \in 1 .. Len(queue) : queue[i].pc = "lookup" => queue[i].o \in Ids /\ queue[i].n <= MaxCalls
    /\ \A w \in Workers :
        /\ task[w].pc = "lookup" => task[w].o \in Ids
        /\ task[w].pc \in {"lookup"} \cup TellPCs => task[w].n <= MaxCalls
        /\ task[w].pc \in {"tell", "record"} => task[w].s \in Services

Brought(o, n) == /\ objs[o].changeCount >= n
                 /\ objs[o].changeCount = n => objs[o].by = "bundle" \/ n = 0

\* What the bundle extension remembers: its configuration has that count only if the bundle wrote
\* it last, unless another one was made at its address.
ExtInv ==
    ext # NONE =>
        /\ ext.o \in Ids /\ ext.n \in Nat /\ ext.n <= MaxCalls
        /\ ext.reused = TRUE \/ Brought(ext.o, ext.n)

\* The destructor: one thread, and the calls that it leaves possible.
ClosePCs == {"swap", "closeInvalidate", "closeWait"}
CloseInv ==
    /\ phase # "closing" => \A t \in Threads : frame[t].pc \notin ClosePCs
    /\ \A t, u \in Threads : frame[t].pc \in ClosePCs /\ frame[u].pc \in ClosePCs => t = u
    /\ phase # "open" => \A t \in Threads : frame[t].pc \in {"idle", "notify", "removing", "removed"} \cup ClosePCs

\* The destructor has taken the configurations.
Swapped == phase = "gone" \/ \E t \in Threads : frame[t].pc \in {"closeInvalidate", "closeWait"}
SwappedInv ==
    Swapped => current = 0 /\ ("erased" \notin lapses => \A t \in Threads : frame[t].pc # "removed")

\* The thread is about to reset the pointer of configuration o.
Clears(t, o) == \/ frame[t].pc = "invalidate" /\ frame[t].old = o
                \/ frame[t].pc \in {"removed", "closeInvalidate"} /\ frame[t].o = o

\* A configuration that points to the Configuration Admin is the current one, or a thread is about
\* to reset the pointer.
AdminInv == \A o \in Ids : objs[o].admin => current = o \/ \E t \in Threads : Clears(t, o)

\* Nothing is posted and nothing runs once the destructor has waited.
GoneInv == phase = "gone" /\ "erased" \notin lapses => queue = << >> /\ Running = {}

BaseInv == TypeInv /\ NumbersInv /\ ExtInv /\ CloseInv /\ SwappedInv /\ AdminInv /\ GoneInv

-----------------------------------------------------------------------------
(* What services are told, without lapses. *)

Count == objs[current].changeCount
Value == objs[current].props

\* There is a configuration to tell of; there is none. Between the two it is being removed.
Live == current # 0 /\ Count > 0 /\ ~ objs[current].removed
Zero == current = 0 \/ Count = 0

IsLookup(k)     == k.pc = "lookup"
IsFirst(k, s)   == k.pc = "initial" /\ k.s = s
Telling(k)      == k.pc \in TellPCs
TellsProps(k)   == Telling(k) /\ ~ k.removed
TellsRemoval(k) == Telling(k) /\ k.removed

\* The task is still to call s.
ToTell(k, s) == Telling(k) /\ (s \in k.todo \/ (k.pc = "tell" /\ k.s = s))
\* It has called s.
Recording(k, s) == k.pc = "record" /\ k.s = s
\* It is about to forget the count that s was told.
Resets(s) == \E w \in Workers : TellsRemoval(task[w]) /\ (ToTell(task[w], s) \/ Recording(task[w], s))

\* The thread will post a task, whatever happens.
WillPost(t) == \/ frame[t].pc \in {"removed", "post"}
               \/ frame[t].pc = "invalidate" /\ frame[t].n # NONE

\* Behind position i of the queue, the first call of s has the properties p; so has the one under way.
Behind(i, s, p) == \A j \in i + 1 .. Len(queue) : IsFirst(queue[j], s) => queue[j].p = p
UnderWay(s, p)  == \A w \in Workers : IsFirst(task[w], s) => task[w].p = p
FirstCall(s)    == \/ \E j \in 1 .. Len(queue) : IsFirst(queue[j], s)
                   \/ \E w \in Workers : IsFirst(task[w], s)

\* A task is pending, or will be, that was posted for another configuration than the current one.
Stale == \/ \E t \in Threads : WillPost(t) /\ frame[t].o # current
         \/ \E i \in 1 .. Len(queue) : IsLookup(queue[i]) /\ queue[i].o # current
         \/ \E w \in Workers : IsLookup(task[w]) /\ task[w].o # current

\* The current count is on its way to s: by a thread, in the queue, with a worker; or s has it.
Announces(k) == IsLookup(k) /\ k.o = current /\ k.n = Count
LiveComing(s) ==
    \/ \E t \in Threads : frame[t].pc = "notify" /\ frame[t].o = current
    \/ \E t \in Threads : WillPost(t) /\ frame[t].pc # "removed" /\ frame[t].o = current /\ frame[t].n = Count
    \/ \E i \in 1 .. Len(queue) : Announces(queue[i]) /\ Behind(i, s, Value)
    \/ Behind(0, s, Value) /\ \E w \in Workers : Announces(task[w])
LiveTelling(s) ==
    Behind(0, s, Value) /\ \E w \in Workers : TellsProps(task[w]) /\ task[w].n = Count /\ ToTell(task[w], s)
LiveRecording(s) ==
    Behind(0, s, Value) /\ \E w \in Workers : TellsProps(task[w]) /\ task[w].n = Count /\ Recording(task[w], s)
LiveKnown(s) ==
    /\ last[s] = Count /\ Behind(0, s, Value) /\ UnderWay(s, Value) /\ ~ Resets(s)
    /\ told[s] = Value \/ FirstCall(s)
LiveOK(s) == \/ LiveKnown(s)
             \/ (last[s] < Count \/ Resets(s)) /\ (LiveComing(s) \/ LiveTelling(s) \/ LiveRecording(s))

\* The removal is on its way to s, or there is nothing that s has to know.
Good(s) == told[s] \in {NONE, Empty}
ZeroComing(s) ==
    \/ \E t \in Threads : WillPost(t)
    \/ \E i \in 1 .. Len(queue) : IsLookup(queue[i]) /\ Behind(i, s, Empty)
    \/ Behind(0, s, Empty) /\ \E w \in Workers : IsLookup(task[w])
ZeroTelling(s) ==
    /\ Behind(0, s, Empty)
    /\ \E w \in Workers : TellsRemoval(task[w]) /\ (ToTell(task[w], s) \/ (Recording(task[w], s) /\ Good(s)))
ZeroKnown(s) == last[s] = 0 /\ Behind(0, s, Empty) /\ UnderWay(s, Empty) /\ Good(s)
ZeroOK(s) == ZeroKnown(s) \/ ZeroComing(s) \/ ZeroTelling(s)

Tracked  == {s \in Services : status[s] = "tracked"}
LiveInv  == Live /\ ~Stale => \A s \in Tracked : LiveOK(s)
ZeroInv  == Zero => \A s \in Tracked : ZeroOK(s)

\* A worker tells what it looked up: old properties with an old count, a removal, or the latest.
TellerInv ==
    \A w \in Workers :
        /\ Live /\ ~Stale /\ TellsProps(task[w]) => /\ task[w].n <= Count
                                                    /\ task[w].n = Count => task[w].p = Value
        /\ Zero /\ TellsProps(task[w]) => \/ \E t \in Threads : WillPost(t)
                                          \/ \E i \in 1 .. Len(queue) : IsLookup(queue[i])
SayInv ==
    \A w \in Workers :
        /\ TellsRemoval(task[w]) => task[w].p = Empty
        /\ task[w].pc \in {"tell", "record"} => task[w].s \notin task[w].todo
        /\ TellsProps(task[w]) /\ task[w].pc \in {"tell", "record"} => last[task[w].s] < task[w].n
        /\ TellsProps(task[w]) /\ task[w].pc = "record" => told[task[w].s] = task[w].p

\* The first call of a service is posted behind all that is not newer, and it has the count then.
FirstInv ==
    Live /\ ~Stale => \A s \in Services : \A j \in 1 .. Len(queue) : IsFirst(queue[j], s) =>
        /\ \A i \in 1 .. j - 1 : IsLookup(queue[i]) => queue[i].n <= last[s] /\ ~ Resets(s)
        /\ \A w \in Workers : IsLookup(task[w]) \/ TellsProps(task[w]) => task[w].n <= last[s]

NewsInv ==
    \A s \in Services : status[s] = "new" =>
        /\ last[s] = 0 /\ told[s] = NONE /\ ~ FirstCall(s)
        /\ \A w \in Workers : ~ ToTell(task[w], s) /\ ~ Recording(task[w], s)

OneWorker == \A w, v \in Workers : task[w] # Idle /\ task[v] # Idle => w = v

\* The current configuration is the only one that is not removed, and what threads and tasks know
\* of it is not newer than it is.
ObjsInv ==
    /\ \A o \in Ids : ~ objs[o].removed => o = current
    /\ current # 0 => objs[current].admin
    /\ current # 0 /\ objs[current].removed => \E t \in Threads : frame[t].pc = "removing" /\ frame[t].o = current
    /\ \A t \in Threads :
        /\ frame[t].pc \in {"removing", "removed"} => objs[frame[t].o].removed
        /\ frame[t].pc = "invalidate" => frame[t].old # current
        /\ frame[t].pc = "removed" => frame[t].o # current
        /\ frame[t].pc \in {"post", "invalidate"} /\ frame[t].o = current => frame[t].n \in 1 .. Count
        /\ frame[t].pc = "notify" /\ frame[t].o = current => Count > 0
    /\ \A i \in 1 .. Len(queue) : IsLookup(queue[i]) /\ queue[i].o = current => queue[i].n \in 1 .. Count
    /\ \A w \in Workers : IsLookup(task[w]) /\ task[w].o = current => task[w].n \in 1 .. Count

\* A service is being added: what was read is still true, or news of it is on the way.
Announced == \/ \E u \in Threads : frame[u].pc = "notify" /\ frame[u].o = current
             \/ \E i \in 1 .. Len(queue) : Announces(queue[i])
             \/ \E w \in Workers : Announces(task[w])
AddingInv ==
    \A t \in Threads : frame[t].pc = "adding" =>
        /\ lock = {t} /\ status[frame[t].s] = "new"
        /\ frame[t].o \in {0, current}
        /\ frame[t].o = 0 /\ current # 0 /\ Count > 0 => Announced
        /\ frame[t].o # 0 => /\ Count > 0 /\ frame[t].n <= Count
                             /\ Live /\ frame[t].n = Count => frame[t].p = Value

NewsOK  == LiveInv /\ ZeroInv /\ TellerInv /\ SayInv /\ FirstInv /\ NewsInv /\ OneWorker /\ ObjsInv /\ AddingInv
TellInv == phase = "open" /\ lapses = {} => NewsOK

-----------------------------------------------------------------------------
(* Records and sequences. *)

LEMMA FrameFacts ==
    ASSUME NEW f \in FrameType
    PROVE  /\ f.pc \in {"idle", "notify", "removing", "removed", "post", "invalidate", "adding"} \cup ClosePCs
           /\ f.pc = "idle" <=> f = Idle
           /\ f.pc \in {"notify", "removing", "removed"} => f.o \in Nat /\ f = [pc |-> f.pc, o |-> f.o]
           /\ f.pc = "post" => f.o \in Nat /\ f.n \in Nat
           /\ f.pc = "invalidate" => f.old \in Nat /\ f.o \in Nat /\ f.n \in Nat \cup {NONE}
           /\ f.pc = "adding" => f.s \in Services /\ f.p \in Props /\ f.o \in Nat /\ f.n \in Nat
           /\ f.pc = "swap" => f.tell \subseteq Services
           /\ f.pc = "closeInvalidate" => f.o \in Nat /\ f.tell \subseteq Services
BY DEF FrameType, Idle, ClosePCs

LEMMA PostFacts ==
    ASSUME NEW k \in PostType
    PROVE  /\ k \in TaskType /\ k # Idle
           /\ k.pc \in {"finish", "lookup", "initial"}
           /\ k.pc = "finish" => k = Hold
           /\ k.pc = "lookup" => k.o \in Nat /\ k.n \in Nat
           /\ k.pc = "initial" => k.s \in Services /\ k.p \in Props
BY DEF PostType, TaskType, Hold, Idle

LEMMA TaskFacts ==
    ASSUME NEW k \in TaskType
    PROVE  /\ k.pc \in {"idle", "finish", "lookup", "initial"} \cup TellPCs
           /\ k.pc = "idle" <=> k = Idle
           /\ k.pc = "finish" <=> k = Hold
           /\ k.pc = "lookup" => k.o \in Nat /\ k.n \in Nat
           /\ k.pc = "initial" => k.s \in Services /\ k.p \in Props
           /\ k.pc \in TellPCs => k \in TellType
BY DEF PostType, TaskType, TellType, TellPCs, Hold, Idle

LEMMA DoIs ==
    ASSUME frame \in [Threads -> FrameType], NEW t \in Threads, NEW f \in FrameType, Do(t, f)
    PROVE  /\ frame' \in [Threads -> FrameType] /\ frame'[t] = f
           /\ \A u \in Threads : u # t => frame'[u] = frame[u]
BY DEF Do

LEMMA ReplacedIs ==
    ASSUME objs \in Seq(ObjType), NEW o \in Ids, NEW v \in ObjType, objs' = [objs EXCEPT ![o] = v]
    PROVE  /\ objs' \in Seq(ObjType) /\ Len(objs') = Len(objs) /\ objs'[o] = v
           /\ \A x \in Ids : x # o => objs'[x] = objs[x]
<1>1. objs \in [Ids -> ObjType] /\ Len(objs) \in Nat
  BY DEF Ids
<1>2. objs' \in [Ids -> ObjType]
  BY <1>1
<1>3. objs' \in Seq(ObjType) /\ Len(objs') = Len(objs)
  BY <1>1, <1>2 DEF Ids
<1>4. QED
  BY <1>1, <1>3

LEMMA ObjIs ==
    ASSUME objs \in Seq(ObjType), NEW o \in Ids
    PROVE  /\ objs[o] \in ObjType
           /\ objs[o].props \in Props /\ objs[o].changeCount \in Nat /\ objs[o].removed \in BOOLEAN
           /\ objs[o].admin \in BOOLEAN /\ objs[o].held \in BOOLEAN /\ objs[o].by \in {"client", "bundle"}
<1>1. objs[o] \in ObjType
  BY DEF Ids
<1>2. QED
  BY <1>1 DEF ObjType

\* The fields of a configuration that a step may set.
LEMMA WrittenIs ==
    ASSUME objs \in Seq(ObjType), NEW o \in Ids, NEW p \in Props, NEW by \in {"client", "bundle"},
           objs' = Written(o, p, by)
    PROVE  /\ objs' \in Seq(ObjType) /\ Len(objs') = Len(objs)
           /\ \A x \in Ids : x # o => objs'[x] = objs[x]
           /\ objs'[o].props = p /\ objs'[o].changeCount = objs[o].changeCount + 1 /\ objs'[o].by = by
           /\ objs'[o].removed = objs[o].removed /\ objs'[o].admin = objs[o].admin
           /\ objs'[o].held = objs[o].held
<1>0. PICK m \in Nat : m = objs[o].changeCount + 1
  BY ObjIs
<1>1. PICK v : v = [objs[o] EXCEPT !.props = p, !.changeCount = m, !.by = by]
  OBVIOUS
<1>2. objs' = [objs EXCEPT ![o] = v]
  BY <1>0, <1>1 DEF Written
<1>3. objs[o] \in ObjType
  BY ObjIs
<1>4. v \in ObjType
  BY <1>1, <1>3 DEF ObjType
<1>5. /\ objs' \in Seq(ObjType) /\ Len(objs') = Len(objs) /\ objs'[o] = v
      /\ \A x \in Ids : x # o => objs'[x] = objs[x]
  BY <1>2, <1>4, ReplacedIs
<1>6. QED
  BY <1>0, <1>1, <1>3, <1>5 DEF ObjType

LEMMA RemovedIs ==
    ASSUME objs \in Seq(ObjType), NEW o \in Ids, objs' = [objs EXCEPT ![o].removed = TRUE]
    PROVE  /\ objs' \in Seq(ObjType) /\ Len(objs') = Len(objs)
           /\ \A x \in Ids : x # o => objs'[x] = objs[x]
           /\ objs'[o].removed /\ objs'[o].props = objs[o].props
           /\ objs'[o].changeCount = objs[o].changeCount /\ objs'[o].by = objs[o].by
           /\ objs'[o].admin = objs[o].admin
<1>1. PICK v : v = [objs[o] EXCEPT !.removed = TRUE]
  OBVIOUS
<1>2. objs' = [objs EXCEPT ![o] = v]
  BY <1>1
<1>3. objs[o] \in ObjType
  BY ObjIs
<1>4. v \in ObjType
  BY <1>1, <1>3 DEF ObjType
<1>5. /\ objs' \in Seq(ObjType) /\ Len(objs') = Len(objs) /\ objs'[o] = v
      /\ \A x \in Ids : x # o => objs'[x] = objs[x]
  BY <1>2, <1>4, ReplacedIs
<1>6. QED
  BY <1>1, <1>3, <1>5 DEF ObjType

LEMMA HeldIs ==
    ASSUME objs \in Seq(ObjType), NEW o \in Ids, objs' = [objs EXCEPT ![o].held = TRUE]
    PROVE  /\ objs' \in Seq(ObjType) /\ Len(objs') = Len(objs)
           /\ \A x \in Ids : x # o => objs'[x] = objs[x]
           /\ objs'[o].removed = objs[o].removed /\ objs'[o].props = objs[o].props
           /\ objs'[o].changeCount = objs[o].changeCount /\ objs'[o].by = objs[o].by
           /\ objs'[o].admin = objs[o].admin
<1>1. PICK v : v = [objs[o] EXCEPT !.held = TRUE]
  OBVIOUS
<1>2. objs' = [objs EXCEPT ![o] = v]
  BY <1>1
<1>3. objs[o] \in ObjType
  BY ObjIs
<1>4. v \in ObjType
  BY <1>1, <1>3 DEF ObjType
<1>5. /\ objs' \in Seq(ObjType) /\ Len(objs') = Len(objs) /\ objs'[o] = v
      /\ \A x \in Ids : x # o => objs'[x] = objs[x]
  BY <1>2, <1>4, ReplacedIs
<1>6. QED
  BY <1>1, <1>3, <1>5 DEF ObjType

LEMMA DetachedIs ==
    ASSUME objs \in Seq(ObjType), NEW o \in Ids,
           \/ objs' = [objs EXCEPT ![o].admin = FALSE]
           \/ objs' = [objs EXCEPT ![o].held = FALSE, ![o].admin = FALSE]
    PROVE  /\ objs' \in Seq(ObjType) /\ Len(objs') = Len(objs)
           /\ \A x \in Ids : x # o => objs'[x] = objs[x]
           /\ objs'[o].removed = objs[o].removed /\ objs'[o].props = objs[o].props
           /\ objs'[o].changeCount = objs[o].changeCount /\ objs'[o].by = objs[o].by
           /\ ~ objs'[o].admin
<1>1. PICK v : /\ v \in {[objs[o] EXCEPT !.admin = FALSE], [objs[o] EXCEPT !.held = FALSE, !.admin = FALSE]}
              /\ objs' = [objs EXCEPT ![o] = v]
  OBVIOUS
<1>3. objs[o] \in ObjType
  BY ObjIs
<1>4. v \in ObjType
  BY <1>1, <1>3, ZenonT(60) DEF ObjType
<1>5. /\ objs' \in Seq(ObjType) /\ Len(objs') = Len(objs) /\ objs'[o] = v
      /\ \A x \in Ids : x # o => objs'[x] = objs[x]
  BY <1>1, <1>4, ReplacedIs
<1>6. CASE v = [objs[o] EXCEPT !.admin = FALSE]
  BY <1>3, <1>5, <1>6 DEF ObjType
<1>7. CASE v = [objs[o] EXCEPT !.held = FALSE, !.admin = FALSE]
  BY <1>3, <1>5, <1>7 DEF ObjType
<1>8. QED
  BY <1>1, <1>6, <1>7

LEMMA MadeIs ==
    ASSUME objs \in Seq(ObjType), NEW p \in Props, NEW n \in {0, 1}, NEW by \in {"client", "bundle"},
           objs' = Append(objs, Obj(p, n, by))
    PROVE  /\ objs' \in Seq(ObjType) /\ Len(objs') = Len(objs) + 1
           /\ \A x \in Ids : objs'[x] = objs[x]
           /\ objs'[Len(objs) + 1] = Obj(p, n, by)
BY DEF ObjType, Ids, Obj

-----------------------------------------------------------------------------
(* The parts of BaseInv. *)

Numbers(f, n) ==
    /\ f.pc \in {"notify", "removing", "removed", "post", "invalidate"} => f.o \in 1 .. n
    /\ f.pc \in {"adding", "closeInvalidate"} => f.o \in 0 .. n
    /\ f.pc = "invalidate" => f.old \in 1 .. n
    /\ f.pc \in {"post", "adding"} => f.n <= MaxCalls
    /\ f.pc = "invalidate" /\ f.n # NONE => f.n <= MaxCalls

PostNumbers(k) == IsLookup(k) => k.o \in Ids /\ k.n <= MaxCalls

\* Thread t goes to f, and the others stay.
Goes(t, f) == /\ frame' \in [Threads -> FrameType] /\ frame'[t] = f
              /\ \A u \in Threads : u # t => frame'[u] = frame[u]

LEMMA FramesGrow ==
    ASSUME TypeInv, NumbersInv, NEW t \in Threads, NEW f \in FrameType, Goes(t, f),
           Len(objs') \in Nat, Len(objs') >= Len(objs), Numbers(f, Len(objs'))
    PROVE  \A u \in Threads : Numbers(frame'[u], Len(objs'))
<1>1. \A u \in Threads : Numbers(frame[u], Len(objs)) /\ frame[u] \in FrameType
  BY DEF NumbersInv, Numbers, TypeInv, Ids
<1>2. Len(objs) \in Nat
  BY DEF TypeInv
<1>3. ASSUME NEW u \in Threads, u # t PROVE Numbers(frame[u], Len(objs'))
  <2>1. PICK g \in FrameType : g = frame[u]
    BY <1>1
  <2>2. Numbers(g, Len(objs))
    BY <1>1, <2>1
  <2>3. Numbers(g, Len(objs'))
    BY <1>2, <2>2, FrameFacts DEF Numbers
  <2>4. QED
    BY <2>1, <2>3
<1>4. QED
  BY <1>3 DEF Goes

LEMMA NumbersKeeps ==
    ASSUME TypeInv, NumbersInv, NEW t \in Threads, NEW f \in FrameType, Goes(t, f),
           Len(objs') \in Nat, Len(objs') >= Len(objs), Numbers(f, Len(objs')),
           \A i \in 1 .. Len(queue') : PostNumbers(queue[i])', task' = task
    PROVE  NumbersInv'
<1>1. \A u \in Threads : Numbers(frame'[u], Len(objs'))
  BY FramesGrow
<1>2. \A w \in Workers : IsLookup(task[w]) => task[w].o \in 1 .. Len(objs')
  BY DEF NumbersInv, IsLookup, Ids, TypeInv
<1>3. QED
  BY <1>1, <1>2 DEF NumbersInv, Numbers, PostNumbers, IsLookup, Ids

LEMMA QueueGrows ==
    ASSUME TypeInv, NumbersInv, Len(objs') \in Nat, Len(objs') >= Len(objs), queue' = queue
    PROVE  queue' \in Seq(PostType) /\ \A i \in 1 .. Len(queue') : PostNumbers(queue[i])'
<1>1. Len(objs) \in Nat
  BY DEF TypeInv
<1>2. QED
  BY <1>1 DEF TypeInv, NumbersInv, PostNumbers, Ids, IsLookup

\* What posting one task, or two, does to the queue.
Posted(k) == /\ queue' \in Seq(PostType) /\ Len(queue') > Len(queue)
             /\ \A i \in 1 .. Len(queue) : queue'[i] = queue[i]
             /\ queue'[Len(queue) + 1] = k
             /\ \A i \in 1 .. Len(queue') : i > Len(queue) + 1 => queue'[i] = Hold

LEMMA PostIs ==
    ASSUME queue \in Seq(PostType), NEW k \in PostType, Post(<<k>>) \/ Post(<<k, Hold>>)
    PROVE  Posted(k)
<1>1. Hold \in PostType /\ Len(queue) \in Nat
  BY DEF PostType
<1>2. CASE Post(<<k>>)
  <2>1. queue' = queue \o <<k>>
    BY <1>2 DEF Post
  <2>2. queue' \in Seq(PostType) /\ Len(queue') = Len(queue) + 1
    BY <2>1
  <2>3. (\A i \in 1 .. Len(queue) : queue'[i] = queue[i]) /\ queue'[Len(queue) + 1] = k
    BY <1>1, <2>1
  <2>4. QED
    BY <1>1, <2>2, <2>3 DEF Posted
<1>3. CASE Post(<<k, Hold>>)
  <2>1. queue' = queue \o <<k, Hold>>
    BY <1>3 DEF Post
  <2>2. queue' \in Seq(PostType) /\ Len(queue') = Len(queue) + 2
    BY <1>1, <2>1
  <2>3. (\A i \in 1 .. Len(queue) : queue'[i] = queue[i]) /\ queue'[Len(queue) + 1] = k /\ queue'[Len(queue) + 2] = Hold
    BY <1>1, <2>1
  <2>4. QED
    BY <1>1, <2>2, <2>3 DEF Posted
<1>4. QED
  BY <1>2, <1>3

LEMMA PostedNumbers ==
    ASSUME TypeInv, NumbersInv, Len(objs') \in Nat, Len(objs') >= Len(objs), NEW k \in PostType, Posted(k),
           PostNumbers(k)'
    PROVE  \A i \in 1 .. Len(queue') : PostNumbers(queue[i])'
<1>1. Len(objs) \in Nat /\ Len(queue) \in Nat /\ Len(queue') \in Nat
  BY DEF TypeInv, Posted
<1>2. ASSUME NEW i \in 1 .. Len(queue) PROVE PostNumbers(queue[i])'
  BY <1>1, <1>2 DEF NumbersInv, PostNumbers, Posted, Ids, IsLookup
<1>3. PICK m \in Nat : m = Len(queue) + 1 /\ PostNumbers(queue[m])'
  BY <1>1 DEF Posted, PostNumbers, IsLookup
<1>4. ASSUME NEW i \in 1 .. Len(queue'), i > Len(queue) + 1 PROVE PostNumbers(queue[i])'
  BY <1>4 DEF Posted, PostNumbers, IsLookup, Hold
<1>5. QED
  BY <1>1, <1>2, <1>3, <1>4

\* A step of a thread outside of the destructor.
StepType(t, f) ==
    /\ Goes(t, f) /\ f.pc \notin ClosePCs /\ frame[t].pc \notin ClosePCs
    /\ objs' \in Seq(ObjType) /\ Len(objs') >= Len(objs) /\ current' \in 0 .. Len(objs')
    /\ calls' \in 0 .. MaxCalls /\ \A o \in 1 .. Len(objs') : objs'[o].changeCount <= calls'
    /\ \/ lock' = {}
       \/ \E u \in Threads : lock' = {u}
    /\ status' \in [Services -> {"new", "tracked", "removed"}] /\ last' \in [Services -> 0 .. MaxCalls]
    /\ queue' \in Seq(PostType) /\ \A i \in 1 .. Len(queue') : PostNumbers(queue[i])'
    /\ Numbers(f, Len(objs'))
    /\ lapses \subseteq lapses' /\ lapses' \subseteq Lapses
    /\ UNCHANGED <<kind, told, task, phase, throws>>

StepRules(t, f) ==
    /\ phase # "open" => f.pc \in {"idle", "notify", "removing", "removed"}
    /\ Swapped => current' = 0 /\ f.pc # "removed"
    /\ phase = "gone" /\ "erased" \notin lapses => queue' = queue
    /\ \A o \in 1 .. Len(objs') : objs'[o].admin =>
          \/ current' = o \/ Clears(t, o)'
          \/ o \in Ids /\ objs[o].admin /\ current # o /\ ~ Clears(t, o)

LEMMA ThreadKeeps ==
    ASSUME TypeInv, NumbersInv, CloseInv, SwappedInv, AdminInv, GoneInv,
           NEW t \in Threads, NEW f \in FrameType, StepType(t, f), StepRules(t, f)
    PROVE  TypeInv' /\ NumbersInv' /\ CloseInv' /\ SwappedInv' /\ AdminInv' /\ GoneInv'
<1>0. /\ Len(objs) \in Nat /\ Len(objs') \in Nat
      /\ frame' \in [Threads -> FrameType] /\ frame'[t] = f /\ \A u \in Threads : u # t => frame'[u] = frame[u]
      /\ phase' = phase /\ task' = task /\ lapses \subseteq lapses'
  BY DEF StepType, Goes, TypeInv
<1>1. TypeInv'
  BY <1>0 DEF TypeInv, StepType, Ids
<1>2. NumbersInv'
  BY <1>0, NumbersKeeps DEF StepType
<1>3. CloseInv'
  BY <1>0 DEF StepType, StepRules, CloseInv
<1>4. SwappedInv'
  <2>1. Swapped' => Swapped
    BY <1>0 DEF Swapped, StepType, ClosePCs
  <2>2. QED
    BY <1>0, <2>1 DEF SwappedInv, StepRules
<1>5. AdminInv'
  <2>1. ASSUME NEW o \in 1 .. Len(objs'), objs'[o].admin PROVE current' = o \/ \E u \in Threads : Clears(u, o)'
    <3>1. CASE current' = o \/ Clears(t, o)'
      BY <3>1
    <3>2. CASE o \in Ids /\ objs[o].admin /\ current # o /\ ~ Clears(t, o)
      <4>1. PICK u \in Threads : Clears(u, o)
        BY <3>2 DEF AdminInv
      <4>2. u # t
        BY <3>2, <4>1
      <4>3. Clears(u, o)'
        BY <1>0, <4>1, <4>2 DEF Clears
      <4>4. QED
        BY <4>3
    <3>3. QED
      BY <2>1, <3>1, <3>2 DEF StepRules
  <2>2. QED
    BY <2>1 DEF AdminInv, Ids
<1>6. GoneInv'
  BY <1>0 DEF GoneInv, StepRules, Running
<1>7. QED
  BY <1>1, <1>2, <1>3, <1>4, <1>5, <1>6

LEMMA ExtKeeps ==
    ASSUME TypeInv, ExtInv, ext' = ext, objs' \in Seq(ObjType), Len(objs') >= Len(objs),
           \A o \in Ids : /\ objs'[o].changeCount >= objs[o].changeCount
                          /\ objs'[o].changeCount = objs[o].changeCount => objs'[o].by = objs[o].by
    PROVE  ExtInv'
<1>1. Len(objs) \in Nat /\ Len(objs') \in Nat
  BY DEF TypeInv
<1>2. ASSUME ext # NONE
      PROVE ext.o \in 1 .. Len(objs') /\ (ext.reused = TRUE \/ Brought(ext.o, ext.n)')
  <2>1. PICK o \in Ids : o = ext.o
    BY <1>2 DEF ExtInv
  <2>2. o \in 1 .. Len(objs')
    BY <1>1 DEF Ids
  <2>3. /\ objs'[o].changeCount \in Nat /\ objs[o].changeCount \in Nat
        /\ ext.n \in Nat /\ (ext.reused = TRUE \/ Brought(o, ext.n))
    <3>1. objs'[o] \in ObjType /\ objs[o] \in ObjType
      <4>1. objs \in Seq(ObjType) /\ o \in 1 .. Len(objs)
        BY DEF TypeInv, Ids
      <4>2. QED
        BY <2>2, <4>1
    <3>2. objs'[o].changeCount \in Nat /\ objs[o].changeCount \in Nat
      BY <3>1 DEF ObjType
    <3>3. QED
      BY <1>2, <2>1, <3>2 DEF ExtInv
  <2>4. objs'[o].changeCount >= objs[o].changeCount
        /\ (objs'[o].changeCount = objs[o].changeCount => objs'[o].by = objs[o].by)
    OBVIOUS
  <2>5. Brought(o, ext.n) => Brought(o, ext.n)'
    BY <2>3, <2>4 DEF Brought
  <2>6. QED
    BY <2>1, <2>2, <2>3, <2>5
<1>3. QED
  BY <1>2 DEF ExtInv, Ids

\* A thread that is idle has no part in the rest.
LEMMA CallIs ==
    ASSUME TypeInv, NEW t \in Threads, NEW f \in FrameType, Call(t, f)
    PROVE  /\ Goes(t, f) /\ frame[t] = Idle /\ frame[t].pc = "idle" /\ frame[t].pc \notin ClosePCs
           /\ calls' = calls + 1 /\ calls' \in 0 .. MaxCalls
           /\ \A o : ~ Clears(t, o)
<1>1. Goes(t, f) /\ frame[t].pc = "idle" /\ frame[t] = Idle
  BY DoIs DEF Call, Goes, TypeInv, Idle
<1>2. calls' = calls + 1 /\ calls' \in 0 .. MaxCalls
  BY AdminAssumption DEF Call, TypeInv
<1>3. QED
  BY <1>1, <1>2 DEF Clears, ClosePCs

-----------------------------------------------------------------------------
(* What services are told: steps of the threads. *)

\* The queue gets tasks at its end; no first call of s; no first call at all.
QueueGoesOn ==
    /\ Len(queue) \in Nat /\ Len(queue') \in Nat /\ Len(queue') >= Len(queue)
    /\ \A i \in 1 .. Len(queue) : queue'[i] = queue[i]
KeepsFor(s) == QueueGoesOn /\ \A i \in 1 .. Len(queue') : i > Len(queue) => ~ IsFirst(queue'[i], s)
QueueKeeps == QueueGoesOn /\ \A i \in 1 .. Len(queue') : i > Len(queue) => \A s : ~ IsFirst(queue'[i], s)

LEMMA KeepsAll == ASSUME QueueKeeps PROVE QueueGoesOn /\ \A s : KeepsFor(s)
BY DEF QueueKeeps, KeepsFor

\* The task is new in the queue.
New(i) == i \in 1 .. Len(queue') /\ i > Len(queue) /\ IsLookup(queue'[i])

\* What thread t had to post it has posted, or will post.
Hands(t, f) ==
    /\ WillPost(t) =>
          \/ WillPost(t)' /\ f.o = frame[t].o /\ (frame[t].pc # "removed" => f.pc # "removed" /\ f.n = frame[t].n)
          \/ \E i : New(i) /\ queue'[i].o = frame[t].o /\ (frame[t].pc # "removed" => queue'[i].n = frame[t].n)
    /\ frame[t].pc = "notify" /\ frame[t].o = current =>
          \E i : New(i) /\ queue'[i].o = current /\ queue'[i].n = Count

LEMMA BehindGrows ==
    ASSUME NEW s, KeepsFor(s), NEW i \in Nat, NEW p, Behind(i, s, p) PROVE Behind(i, s, p)'
<1>1. ASSUME NEW j \in i + 1 .. Len(queue'), IsFirst(queue'[j], s) PROVE queue'[j].p = p
  <2>1. j \in 1 .. Len(queue')
    BY DEF KeepsFor, QueueGoesOn
  <2>2. j <= Len(queue)
    BY <1>1, <2>1 DEF KeepsFor, QueueGoesOn
  <2>3. j \in 1 .. Len(queue) /\ j \in i + 1 .. Len(queue)
    BY <2>1, <2>2 DEF KeepsFor, QueueGoesOn
  <2>4. queue'[j] = queue[j]
    BY <2>3 DEF KeepsFor, QueueGoesOn
  <2>5. QED
    BY <1>1, <2>3, <2>4 DEF Behind
<1>2. QED
  BY <1>1 DEF Behind

LEMMA NewBehind ==
    ASSUME NEW s, KeepsFor(s), NEW i, New(i), NEW p PROVE Behind(i, s, p)' /\ IsLookup(queue'[i])
BY DEF KeepsFor, QueueGoesOn, New, Behind

LEMMA FirstGrows ==
    ASSUME NEW s, KeepsFor(s), task' = task PROVE FirstCall(s)' <=> FirstCall(s)
<1>1. ASSUME NEW j \in 1 .. Len(queue), IsFirst(queue[j], s) PROVE j \in 1 .. Len(queue') /\ IsFirst(queue'[j], s)
  BY <1>1 DEF KeepsFor, QueueGoesOn
<1>2. ASSUME NEW j \in 1 .. Len(queue'), IsFirst(queue'[j], s) PROVE j \in 1 .. Len(queue) /\ IsFirst(queue[j], s)
  <2>1. ~ (j > Len(queue))
    BY <1>2 DEF KeepsFor, QueueGoesOn
  <2>2. j \in 1 .. Len(queue)
    BY <2>1 DEF KeepsFor, QueueGoesOn
  <2>3. QED
    BY <1>2, <2>2 DEF KeepsFor, QueueGoesOn
<1>3. QED
  BY <1>1, <1>2 DEF FirstCall

LEMMA ResetsSame == ASSUME task' = task, NEW s PROVE Resets(s)' <=> Resets(s)
BY DEF Resets

LEMMA ComingGrows ==
    ASSUME NEW s, KeepsFor(s), NEW t \in Threads, NEW f, Goes(t, f), Hands(t, f), task' = task,
           UNCHANGED <<current, Count, Value>>, LiveComing(s)
    PROVE  LiveComing(s)'
<1>0. PICK v, n, c : v = Value /\ n = Count /\ c = current /\ v = Value' /\ n = Count' /\ c = current'
  OBVIOUS
<1>1. ASSUME NEW u \in Threads, frame[u].pc = "notify" /\ frame[u].o = current PROVE LiveComing(s)'
  <2>1. CASE u = t
    <3>1. PICK i : New(i) /\ queue'[i].o = c /\ queue'[i].n = n
      BY <1>0, <1>1, <2>1 DEF Hands
    <3>2. i \in 1 .. Len(queue') /\ Announces(queue[i])'
      BY <1>0, <3>1 DEF New, Announces
    <3>3. Behind(i, s, v)'
      BY <3>1, NewBehind
    <3>4. QED
      BY <1>0, <3>2, <3>3 DEF LiveComing
  <2>2. CASE u # t
    BY <1>0, <1>1, <2>2 DEF Goes, LiveComing
  <2>3. QED
    BY <2>1, <2>2
<1>2. ASSUME NEW u \in Threads, WillPost(u), frame[u].pc # "removed", frame[u].o = current, frame[u].n = Count
      PROVE LiveComing(s)'
  <2>1. CASE u = t
    <3>1. CASE WillPost(t)' /\ f.o = c /\ f.pc # "removed" /\ f.n = n
      BY <1>0, <3>1 DEF Goes, LiveComing
    <3>2. ASSUME NEW i, New(i), queue'[i].o = c, queue'[i].n = n PROVE LiveComing(s)'
      <4>1. i \in 1 .. Len(queue') /\ Announces(queue[i])'
        BY <1>0, <3>2 DEF New, Announces
      <4>2. Behind(i, s, v)'
        BY <3>2, NewBehind
      <4>3. QED
        BY <1>0, <4>1, <4>2 DEF LiveComing
    <3>3. QED
      BY <1>0, <1>2, <2>1, <3>1, <3>2 DEF Hands
  <2>2. CASE u # t
    BY <1>0, <1>2, <2>2 DEF Goes, LiveComing, WillPost
  <2>3. QED
    BY <2>1, <2>2
<1>3. ASSUME NEW i \in 1 .. Len(queue), Announces(queue[i]), Behind(i, s, v) PROVE LiveComing(s)'
  <2>1. i \in 1 .. Len(queue') /\ queue'[i] = queue[i] /\ i \in Nat
    BY <1>3 DEF KeepsFor, QueueGoesOn
  <2>2. Behind(i, s, v)'
    BY <1>3, <2>1, BehindGrows
  <2>3. Announces(queue[i])'
    BY <1>0, <1>3, <2>1 DEF Announces
  <2>4. QED
    BY <1>0, <2>1, <2>2, <2>3 DEF LiveComing
<1>4. ASSUME Behind(0, s, v), NEW w \in Workers, Announces(task[w]) PROVE LiveComing(s)'
  <2>1. Behind(0, s, v)'
    BY <1>4, BehindGrows
  <2>2. Announces(task[w])'
    BY <1>0, <1>4 DEF Announces
  <2>3. QED
    BY <1>0, <2>1, <2>2 DEF LiveComing
<1>5. QED
  BY <1>0, <1>1, <1>2, <1>3, <1>4 DEF LiveComing

LEMMA LiveGrows ==
    ASSUME NEW s \in Services, KeepsFor(s), NEW t \in Threads, NEW f, Goes(t, f), Hands(t, f), task' = task,
           UNCHANGED <<current, Count, Value>>, last'[s] = last[s], told'[s] = told[s], LiveOK(s)
    PROVE  LiveOK(s)'
<1>0. PICK v, n : v = Value /\ n = Count /\ v = Value' /\ n = Count'
  OBVIOUS
<1>1. Resets(s)' <=> Resets(s)
  BY ResetsSame
<1>2. Behind(0, s, v) => Behind(0, s, v)'
  BY BehindGrows
<1>3. LiveComing(s) => LiveComing(s)'
  BY ComingGrows
<1>4. LiveTelling(s) => LiveTelling(s)'
  BY <1>0, <1>2 DEF LiveTelling
<1>5. LiveRecording(s) => LiveRecording(s)'
  BY <1>0, <1>2 DEF LiveRecording
<1>6. LiveKnown(s) => LiveKnown(s)'
  <2>1. UnderWay(s, v) => UnderWay(s, v)'
    BY DEF UnderWay
  <2>2. FirstCall(s) => FirstCall(s)'
    BY FirstGrows
  <2>3. QED
    BY <1>0, <1>1, <1>2, <2>1, <2>2 DEF LiveKnown
<1>7. QED
  BY <1>0, <1>1, <1>3, <1>4, <1>5, <1>6 DEF LiveOK

LEMMA PostsGrow ==
    ASSUME QueueGoesOn, NEW t \in Threads, NEW f, Goes(t, f), Hands(t, f),
           \/ \E u \in Threads : WillPost(u)
           \/ \E i \in 1 .. Len(queue) : IsLookup(queue[i])
    PROVE  \/ \E u \in Threads : WillPost(u)'
           \/ \E i \in 1 .. Len(queue') : IsLookup(queue'[i])
<1>1. ASSUME NEW u \in Threads, WillPost(u), u # t PROVE WillPost(u)'
  BY <1>1 DEF Goes, WillPost
<1>2. ASSUME WillPost(t) PROVE WillPost(t)' \/ \E i \in 1 .. Len(queue') : IsLookup(queue'[i])
  BY <1>2 DEF Hands, New
<1>3. ASSUME NEW i \in 1 .. Len(queue), IsLookup(queue[i]) PROVE i \in 1 .. Len(queue') /\ IsLookup(queue'[i])
  BY <1>3 DEF QueueGoesOn
<1>4. QED
  BY <1>1, <1>2, <1>3

LEMMA ZeroGrows ==
    ASSUME NEW s \in Services, KeepsFor(s), NEW t \in Threads, NEW f, Goes(t, f), Hands(t, f), task' = task,
           last'[s] = last[s], told'[s] = told[s], ZeroOK(s)
    PROVE  ZeroOK(s)'
<1>1. ASSUME NEW u \in Threads, WillPost(u) PROVE ZeroComing(s)'
  <2>1. CASE u = t
    <3>1. CASE WillPost(t)'
      BY <3>1 DEF ZeroComing
    <3>2. ASSUME NEW i, New(i) PROVE ZeroComing(s)'
      <4>1. Behind(i, s, Empty)' /\ IsLookup(queue'[i])
        BY <3>2, NewBehind
      <4>2. QED
        BY <3>2, <4>1 DEF ZeroComing, New
    <3>3. QED
      BY <1>1, <2>1, <3>1, <3>2 DEF Hands
  <2>2. CASE u # t
    BY <1>1, <2>2 DEF Goes, ZeroComing, WillPost
  <2>3. QED
    BY <2>1, <2>2
<1>2. ASSUME NEW i \in 1 .. Len(queue), IsLookup(queue[i]), Behind(i, s, Empty) PROVE ZeroComing(s)'
  <2>1. i \in 1 .. Len(queue') /\ queue'[i] = queue[i] /\ i \in Nat
    BY <1>2 DEF KeepsFor, QueueGoesOn
  <2>2. Behind(i, s, Empty)'
    BY <1>2, <2>1, BehindGrows
  <2>3. QED
    BY <1>2, <2>1, <2>2 DEF ZeroComing
<1>3. Behind(0, s, Empty) => Behind(0, s, Empty)'
  BY BehindGrows
<1>4. ZeroComing(s) => ZeroComing(s)'
  BY <1>1, <1>2, <1>3 DEF ZeroComing
<1>5. ZeroTelling(s) => ZeroTelling(s)'
  BY <1>3 DEF ZeroTelling, Good
<1>6. ZeroKnown(s) => ZeroKnown(s)'
  BY <1>3 DEF ZeroKnown, Good, UnderWay
<1>7. QED
  BY <1>4, <1>5, <1>6 DEF ZeroOK

LEMMA StaleGrows ==
    ASSUME QueueGoesOn, NEW t \in Threads, NEW f, Goes(t, f), Hands(t, f), task' = task, current' = current, Stale
    PROVE  Stale'
<1>0. PICK c : c = current /\ c = current'
  OBVIOUS
<1>1. ASSUME NEW u \in Threads, WillPost(u), frame[u].o # c PROVE Stale'
  <2>1. CASE u = t
    <3>1. CASE WillPost(t)' /\ f.o = frame[t].o
      BY <1>0, <1>1, <2>1, <3>1 DEF Goes, Stale
    <3>2. ASSUME NEW i, New(i), queue'[i].o = frame[t].o PROVE Stale'
      BY <1>0, <1>1, <2>1, <3>2 DEF Stale, New
    <3>3. QED
      BY <1>1, <2>1, <3>1, <3>2 DEF Hands
  <2>2. CASE u # t
    BY <1>0, <1>1, <2>2 DEF Goes, Stale, WillPost
  <2>3. QED
    BY <2>1, <2>2
<1>2. ASSUME NEW i \in 1 .. Len(queue), IsLookup(queue[i]), queue[i].o # c PROVE Stale'
  <2>1. i \in 1 .. Len(queue') /\ queue'[i] = queue[i]
    BY <1>2 DEF QueueGoesOn
  <2>2. QED
    BY <1>0, <1>2, <2>1 DEF Stale
<1>3. ASSUME NEW w \in Workers, IsLookup(task[w]), task[w].o # c PROVE Stale'
  BY <1>0, <1>3 DEF Stale
<1>4. QED
  BY <1>0, <1>1, <1>2, <1>3 DEF Stale

\* Nothing is told, and no service becomes tracked.
Untold == /\ task' = task /\ last' = last /\ told' = told
          /\ \A s \in Services : status'[s] \in {"new", "tracked"} => status'[s] = status[s]

\* The parts that such a step keeps, whatever becomes of the configuration.
LEMMA TellersKeep ==
    ASSUME QueueKeeps, Untold, SayInv, NewsInv, OneWorker
    PROVE  SayInv' /\ NewsInv' /\ OneWorker'
<1>1. \A s : FirstCall(s)' <=> FirstCall(s)
  BY FirstGrows, KeepsAll DEF Untold
<1>2. SayInv' /\ OneWorker'
  BY DEF SayInv, OneWorker, Untold
<1>3. NewsInv'
  BY <1>1 DEF NewsInv, Untold
<1>4. QED
  BY <1>2, <1>3

LEMMA TrackedKeep == ASSUME Untold PROVE Tracked' \subseteq Tracked
BY DEF Untold, Tracked

LEMMA FirstKeeps ==
    ASSUME QueueKeeps, Untold, FirstInv, Live' => Live, Stale => Stale'
    PROVE  FirstInv'
<1>1. SUFFICES ASSUME Live', ~Stale', NEW s \in Services, NEW j \in 1 .. Len(queue'), IsFirst(queue'[j], s)
               PROVE  /\ \A i \in 1 .. j - 1 : IsLookup(queue'[i]) => queue'[i].n <= last'[s] /\ ~ Resets(s)'
                      /\ \A w \in Workers : IsLookup(task'[w]) \/ TellsProps(task'[w]) => task'[w].n <= last'[s]
  BY DEF FirstInv
<1>2. ~ (j > Len(queue))
  BY <1>1 DEF QueueKeeps, QueueGoesOn
<1>3. j \in 1 .. Len(queue) /\ queue'[j] = queue[j]
  BY <1>2 DEF QueueKeeps, QueueGoesOn
<1>4. /\ \A i \in 1 .. j - 1 : IsLookup(queue[i]) => queue[i].n <= last[s] /\ ~ Resets(s)
      /\ \A w \in Workers : IsLookup(task[w]) \/ TellsProps(task[w]) => task[w].n <= last[s]
  BY <1>1, <1>3 DEF FirstInv
<1>5. \A i \in 1 .. j - 1 : queue'[i] = queue[i]
  BY <1>3 DEF QueueKeeps, QueueGoesOn
<1>6. Resets(s)' <=> Resets(s)
  BY ResetsSame DEF Untold
<1>7. task' = task /\ last' = last
  BY DEF Untold
<1>8. QED
  BY <1>4, <1>5, <1>6, <1>7

\* The configuration stays as it is.
SameConfig == /\ current' = current
              /\ current # 0 => UNCHANGED <<Count, Value>> /\ objs'[current].removed = objs[current].removed

LEMMA QuietTell ==
    ASSUME QueueKeeps, Untold, NEW t \in Threads, NEW f, Goes(t, f), Hands(t, f), SameConfig,
           LiveInv, ZeroInv, TellerInv, SayInv, FirstInv, NewsInv, OneWorker
    PROVE  LiveInv' /\ ZeroInv' /\ TellerInv' /\ SayInv' /\ FirstInv' /\ NewsInv' /\ OneWorker'
<1>0. task' = task /\ last' = last /\ told' = told /\ current' = current
  BY DEF Untold, SameConfig
<1>1. (Live' <=> Live) /\ (Zero' <=> Zero)
  BY DEF SameConfig, Live, Zero
<1>2. Stale => Stale'
  BY <1>0, StaleGrows, KeepsAll
<1>3. Live => UNCHANGED <<current, Count, Value>>
  BY DEF Live, SameConfig
<1>4. LiveInv'
  <2>1. SUFFICES ASSUME Live', ~Stale', NEW s \in Tracked' PROVE LiveOK(s)'
    BY DEF LiveInv
  <2>2. s \in Services /\ s \in Tracked
    BY <2>1, TrackedKeep DEF Tracked
  <2>3. LiveOK(s)
    BY <1>1, <1>2, <2>1, <2>2 DEF LiveInv
  <2>4. QED
    BY <1>0, <1>1, <1>3, <2>1, <2>2, <2>3, LiveGrows, KeepsAll
<1>5. ZeroInv'
  <2>1. SUFFICES ASSUME Zero', NEW s \in Tracked' PROVE ZeroOK(s)'
    BY DEF ZeroInv
  <2>2. s \in Services /\ s \in Tracked
    BY <2>1, TrackedKeep DEF Tracked
  <2>3. ZeroOK(s)
    BY <1>1, <2>1, <2>2 DEF ZeroInv
  <2>4. QED
    BY <1>0, <2>2, <2>3, ZeroGrows, KeepsAll
<1>6. TellerInv'
  <2>1. ASSUME NEW w \in Workers, Live', ~Stale', TellsProps(task'[w])
        PROVE  task'[w].n <= Count' /\ (task'[w].n = Count' => task'[w].p = Value')
    BY <1>0, <1>1, <1>2, <1>3, <2>1 DEF TellerInv
  <2>2. ASSUME NEW w \in Workers, Zero', TellsProps(task'[w])
        PROVE  (\E u \in Threads : WillPost(u)') \/ \E i \in 1 .. Len(queue') : IsLookup(queue'[i])
    <3>1. (\E u \in Threads : WillPost(u)) \/ \E i \in 1 .. Len(queue) : IsLookup(queue[i])
      BY <1>0, <1>1, <2>2 DEF TellerInv
    <3>2. QED
      BY <3>1, PostsGrow, KeepsAll
  <2>3. QED
    BY <2>1, <2>2 DEF TellerInv
<1>7. FirstInv'
  BY <1>1, <1>2, FirstKeeps
<1>8. QED
  BY <1>4, <1>5, <1>6, <1>7, TellersKeep

\* There was no configuration to tell of, and there is none.
LEMMA ZeroTell ==
    ASSUME QueueKeeps, Untold, NEW t \in Threads, NEW f, Goes(t, f), Hands(t, f), Zero, Zero',
           ZeroInv, TellerInv, SayInv, NewsInv, OneWorker
    PROVE  LiveInv' /\ ZeroInv' /\ TellerInv' /\ SayInv' /\ FirstInv' /\ NewsInv' /\ OneWorker'
<1>0. task' = task /\ last' = last /\ told' = told
  BY DEF Untold
<1>1. ~ Live'
  BY DEF Live, Zero
<1>2. ZeroInv'
  <2>1. SUFFICES ASSUME NEW s \in Tracked' PROVE ZeroOK(s)'
    BY DEF ZeroInv
  <2>2. s \in Services /\ s \in Tracked
    BY <2>1, TrackedKeep DEF Tracked
  <2>3. ZeroOK(s)
    BY <2>2 DEF ZeroInv
  <2>4. QED
    BY <1>0, <2>2, <2>3, ZeroGrows, KeepsAll
<1>3. ASSUME NEW w \in Workers, TellsProps(task'[w])
      PROVE  (\E u \in Threads : WillPost(u)') \/ \E i \in 1 .. Len(queue') : IsLookup(queue'[i])
  <2>1. (\E u \in Threads : WillPost(u)) \/ \E i \in 1 .. Len(queue) : IsLookup(queue[i])
    BY <1>0, <1>3 DEF TellerInv
  <2>2. QED
    BY <2>1, PostsGrow, KeepsAll
<1>4. TellerInv'
  BY <1>1, <1>3 DEF TellerInv
<1>5. QED
  BY <1>1, <1>2, <1>4, TellersKeep DEF LiveInv, FirstInv

\* The configuration is taken away, and the thread will post the task that tells of it.
LEMMA GoneTell ==
    ASSUME QueueKeeps, Untold, NEW t \in Threads, WillPost(t)', Zero', SayInv, NewsInv, OneWorker
    PROVE  LiveInv' /\ ZeroInv' /\ TellerInv' /\ SayInv' /\ FirstInv' /\ NewsInv' /\ OneWorker'
<1>1. ~ Live'
  BY DEF Live, Zero
<1>2. \A s : ZeroOK(s)'
  BY DEF ZeroOK, ZeroComing
<1>3. TellerInv'
  BY <1>1 DEF TellerInv
<1>4. QED
  BY <1>1, <1>2, <1>3, TellersKeep DEF LiveInv, FirstInv, ZeroInv

\* The configuration is being removed.
LEMMA DyingTell ==
    ASSUME QueueKeeps, Untold, ~ Live', ~ Zero', SayInv, NewsInv, OneWorker
    PROVE  LiveInv' /\ ZeroInv' /\ TellerInv' /\ SayInv' /\ FirstInv' /\ NewsInv' /\ OneWorker'
BY TellersKeep DEF LiveInv, FirstInv, ZeroInv, TellerInv

\* The configuration is written: thread t, which was idle, is to announce it.
Writes(t, f) ==
    /\ frame[t] = Idle /\ Goes(t, f)
    /\ f.o = current' /\ (f.pc = "notify" \/ (f.pc = "post" /\ f.n = Count'))

LEMMA WriteTell ==
    ASSUME TypeInv, NumbersInv, queue' = queue, Untold, NEW t \in Threads, NEW f, Writes(t, f), Live', Count' \in Nat,
           ObjsInv,
           \/ Live /\ current' = current /\ Count' = Count + 1
           \/ Zero /\ (current' = current \/ current' \notin Ids),
           LiveInv, ZeroInv, TellerInv, SayInv, FirstInv, NewsInv, OneWorker
    PROVE  LiveInv' /\ ZeroInv' /\ TellerInv' /\ SayInv' /\ FirstInv' /\ NewsInv' /\ OneWorker'
<1>0. /\ task' = task /\ last' = last /\ told' = told /\ frame'[t] = f
      /\ \A u \in Threads : u # t => frame'[u] = frame[u]
      /\ frame[t].pc = "idle" /\ Count' > 0 /\ current' # 0
  BY DEF Untold, Writes, Goes, Idle, Live
<1>1. QueueKeeps
  BY DEF QueueKeeps, QueueGoesOn, TypeInv
<1>2. \A u \in Threads : WillPost(u) => u # t /\ WillPost(u)' /\ frame'[u] = frame[u]
  BY <1>0 DEF WillPost
<1>3. \A s : LiveComing(s)'
  <2>1. f.pc = "post" => WillPost(t)'
    BY <1>0 DEF WillPost
  <2>2. QED
    BY <1>0, <2>1 DEF Writes, LiveComing
<1>4. ~ Zero'
  BY <1>0 DEF Zero
<1>5. \A s : Resets(s)' <=> Resets(s)
  BY <1>0, ResetsSame
<1>6. CASE Live /\ current' = current /\ Count' = Count + 1
  <2>1. Stale => Stale'
    BY <1>0, <1>2, <1>6 DEF Stale
  <2>2. current \in Ids /\ Count \in Nat
    <3>1. current \in Ids
      BY <1>6 DEF Live, TypeInv, Ids
    <3>2. QED
      BY <3>1, ObjIs DEF TypeInv, Count
  <2>3. LiveInv'
    <3>1. SUFFICES ASSUME ~Stale', NEW s \in Tracked' PROVE LiveOK(s)'
      BY DEF LiveInv
    <3>2. s \in Services /\ s \in Tracked /\ LiveOK(s)
      BY <1>6, <2>1, <3>1, TrackedKeep DEF Tracked, LiveInv
    <3>3. last[s] <= Count \/ Resets(s)
      BY <2>2, <3>2 DEF LiveOK, LiveKnown, TypeInv
    <3>4. last'[s] < Count' \/ Resets(s)'
      BY <1>0, <1>5, <1>6, <2>2, <3>2, <3>3 DEF TypeInv
    <3>5. QED
      BY <1>3, <3>4 DEF LiveOK
  <2>4. TellerInv'
    <3>1. ASSUME NEW w \in Workers, ~Stale', TellsProps(task'[w])
          PROVE  task'[w].n <= Count' /\ task'[w].n # Count'
      <4>1. task[w].n <= Count
        BY <1>0, <1>6, <2>1, <3>1 DEF TellerInv
      <4>2. task[w].n \in Nat
        BY <1>0, <3>1, TaskFacts DEF TypeInv, TellsProps, Telling, TellType
      <4>3. QED
        BY <1>0, <1>6, <2>2, <4>1, <4>2
    <3>2. QED
      BY <1>4, <3>1 DEF TellerInv
  <2>5. FirstInv'
    BY <1>1, <1>6, <2>1, FirstKeeps
  <2>6. QED
    BY <1>1, <1>4, <2>3, <2>4, <2>5, TellersKeep DEF ZeroInv
<1>7. CASE Zero /\ (current' = current \/ current' \notin Ids)
  <2>1. \A u \in Threads : WillPost(u) => frame[u].o # current'
    BY <1>7 DEF WillPost, NumbersInv, ObjsInv, Zero, Ids
  <2>2. \A i \in 1 .. Len(queue) : IsLookup(queue[i]) => queue[i].o # current'
    BY <1>7 DEF IsLookup, NumbersInv, ObjsInv, Zero, Ids
  <2>3. \A w \in Workers : IsLookup(task[w]) => task[w].o # current'
    BY <1>7 DEF IsLookup, NumbersInv, ObjsInv, Zero, Ids
  <2>4. ASSUME \/ \E u \in Threads : WillPost(u)
               \/ \E i \in 1 .. Len(queue) : IsLookup(queue[i])
               \/ \E w \in Workers : IsLookup(task[w])
        PROVE  Stale'
    BY <1>0, <1>2, <2>1, <2>2, <2>3, <2>4 DEF Stale
  <2>5. LiveInv'
    <3>1. SUFFICES ASSUME ~Stale', NEW s \in Tracked' PROVE LiveOK(s)'
      BY DEF LiveInv
    <3>2. s \in Services /\ s \in Tracked /\ ZeroOK(s)
      BY <1>7, <3>1, TrackedKeep DEF Tracked, ZeroInv
    <3>3. ~ ZeroComing(s)
      BY <2>4, <3>1 DEF ZeroComing
    <3>4. ZeroTelling(s) => Resets(s)
      BY DEF ZeroTelling, Resets
    <3>5. ZeroKnown(s) => last[s] = 0
      BY DEF ZeroKnown
    <3>6. last'[s] < Count' \/ Resets(s)'
      BY <1>0, <1>5, <3>2, <3>3, <3>4, <3>5 DEF ZeroOK
    <3>7. QED
      BY <1>3, <3>6 DEF LiveOK
  <2>6. \A w \in Workers : TellsProps(task[w]) => Stale'
    BY <1>7, <2>4 DEF TellerInv
  <2>7. TellerInv'
    BY <1>0, <1>4, <2>6 DEF TellerInv
  <2>8. FirstInv'
    <3>1. SUFFICES ASSUME ~Stale' PROVE FirstInv'
      BY DEF FirstInv
    <3>2. \A i \in 1 .. Len(queue) : ~ IsLookup(queue[i])
      BY <2>4, <3>1
    <3>3. \A w \in Workers : ~ IsLookup(task[w]) /\ ~ TellsProps(task[w])
      BY <2>4, <2>6, <3>1
    <3>4. \A j \in 1 .. Len(queue) : \A i \in 1 .. j - 1 : i \in 1 .. Len(queue)
      BY DEF TypeInv
    <3>5. QED
      BY <1>0, <3>2, <3>3, <3>4 DEF FirstInv
  <2>9. QED
    BY <1>1, <1>4, <2>5, <2>7, <2>8, TellersKeep DEF ZeroInv
<1>8. QED
  BY <1>6, <1>7

\* The configurations stay as they are, as far as threads and tasks refer to them.
LEMMA ObjsQuiet ==
    ASSUME TypeInv, NumbersInv, ObjsInv, QueueGoesOn, NEW t \in Threads, NEW f, Goes(t, f), task' = task,
           current' = current, Len(objs') = Len(objs), \A o \in Ids : objs'[o].removed = objs[o].removed,
           current # 0 => objs'[current].admin /\ Count' = Count,
           f.pc \in {"removing", "removed"} => frame[t].pc \in {"removing", "removed"} /\ f.o = frame[t].o,
           f.pc = "invalidate" => f.old # current, f.pc = "removed" => f.o # current,
           f.pc \in {"post", "invalidate"} => f.o # 0 /\ (f.o = current => f.n \in 1 .. Count),
           f.pc # "notify", ~ (frame[t].pc = "removing" /\ frame[t].o = current),
           \A i : New(i) => queue'[i].o # 0 /\ (queue'[i].o = current => queue'[i].n \in 1 .. Count)
    PROVE  ObjsInv'
<1>00. PICK c, m : c = current /\ m = Count
  OBVIOUS
<1>0. /\ frame'[t] = f /\ \A u \in Threads : u # t => frame'[u] = frame[u]
      /\ \A u \in Threads : frame[u].pc \in {"notify", "removing", "removed", "post", "invalidate"} => frame[u].o \in Ids
      /\ Ids' = Ids
  BY DEF Goes, NumbersInv, Ids
<1>1. current # 0 => current \in Ids
  BY DEF TypeInv, Ids
<1>2. \A o \in Ids' : ~ objs'[o].removed => o = current'
  BY <1>0 DEF ObjsInv
<1>3. current' # 0 /\ objs'[current'].removed => \E u \in Threads : frame'[u].pc = "removing" /\ frame'[u].o = current'
  BY <1>0, <1>1 DEF ObjsInv
<1>4. \A u \in Threads : frame'[u].pc \in {"removing", "removed"} => objs'[frame'[u].o].removed
  BY <1>0 DEF ObjsInv
<1>5. \A u \in Threads :
        /\ frame'[u].pc = "invalidate" => frame'[u].old # current'
        /\ frame'[u].pc = "removed" => frame'[u].o # current'
  BY <1>0 DEF ObjsInv
<1>6. ASSUME current \in Ids PROVE current # 0 /\ Count' = Count
  BY <1>6 DEF Ids
<1>7. ASSUME NEW u \in Threads
      PROVE  /\ frame'[u].pc \in {"post", "invalidate"} /\ frame'[u].o = current' => frame'[u].n \in 1 .. Count'
             /\ frame'[u].pc = "notify" /\ frame'[u].o = current' => Count' > 0
  <2>1. CASE u # t
    BY <1>0, <1>6, <2>1 DEF ObjsInv
  <2>2. CASE u = t
    <3>1. frame'[t] = f /\ f.pc # "notify"
      BY <1>0
    <3>2. f.pc \in {"post", "invalidate"} => f.o # 0 /\ (f.o = c => f.n \in 1 .. m)
      BY <1>00
    <3>3. c # 0 => Count' = m
      BY <1>00
    <3>4. QED
      BY <1>00, <2>2, <3>1, <3>2, <3>3
  <2>3. QED
    BY <2>1, <2>2
<1>8. ASSUME NEW i \in 1 .. Len(queue'), IsLookup(queue'[i]), queue'[i].o = current' PROVE queue'[i].n \in 1 .. Count'
  <2>1. CASE i > Len(queue)
    <3>1. New(i) /\ queue'[i].o = c
      BY <1>00, <1>8, <2>1 DEF New
    <3>2. queue'[i].o # 0 /\ queue'[i].n \in 1 .. m
      BY <1>00, <3>1
    <3>3. QED
      BY <1>00, <3>1, <3>2
  <2>2. CASE ~ (i > Len(queue))
    <3>1. i \in 1 .. Len(queue) /\ queue'[i] = queue[i]
      BY <2>2 DEF QueueGoesOn
    <3>2. queue[i].o \in Ids /\ queue[i].n \in 1 .. Count
      BY <1>8, <3>1 DEF ObjsInv, NumbersInv, IsLookup
    <3>3. QED
      BY <1>6, <1>8, <3>1, <3>2
  <2>3. QED
    BY <2>1, <2>2
<1>9. \A w \in Workers : IsLookup(task'[w]) /\ task'[w].o = current' => task'[w].n \in 1 .. Count'
  BY <1>6 DEF ObjsInv, NumbersInv, IsLookup
<1>10. QED
  BY <1>2, <1>3, <1>4, <1>5, <1>7, <1>8, <1>9 DEF ObjsInv

LEMMA AnnouncedGrows ==
    ASSUME QueueGoesOn, NEW t \in Threads, NEW f, Goes(t, f), Hands(t, f), task' = task,
           current' = current, Count' = Count, Announced
    PROVE  Announced'
<1>1. ASSUME NEW u \in Threads, frame[u].pc = "notify" /\ frame[u].o = current PROVE Announced'
  <2>1. CASE u = t
    <3>1. PICK i : New(i) /\ queue'[i].o = current /\ queue'[i].n = Count
      BY <1>1, <2>1 DEF Hands
    <3>2. QED
      BY <3>1 DEF Announced, Announces, New
  <2>2. CASE u # t
    BY <1>1, <2>2 DEF Goes, Announced
  <2>3. QED
    BY <2>1, <2>2
<1>2. ASSUME NEW i \in 1 .. Len(queue), Announces(queue[i]) PROVE Announced'
  <2>1. i \in 1 .. Len(queue') /\ queue'[i] = queue[i]
    BY DEF QueueGoesOn
  <2>2. QED
    BY <1>2, <2>1 DEF Announced, Announces
<1>3. ASSUME NEW w \in Workers, Announces(task[w]) PROVE Announced'
  BY <1>3 DEF Announced, Announces
<1>4. QED
  BY <1>1, <1>2, <1>3 DEF Announced

LEMMA AddingQuiet ==
    ASSUME TypeInv, AddingInv, QueueGoesOn, NEW t \in Threads, NEW f, Goes(t, f), Hands(t, f), task' = task,
           frame[t].pc # "adding", f.pc # "adding", lock' = lock, SameConfig,
           \A s \in Services : status[s] = "new" => status'[s] = "new"
    PROVE  AddingInv'
<1>0. current' = current /\ (current # 0 => Count' = Count /\ Value' = Value /\ (Live' <=> Live))
  BY DEF SameConfig, Live
<1>1. SUFFICES ASSUME NEW u \in Threads, frame'[u].pc = "adding"
               PROVE  /\ lock' = {u} /\ status'[frame'[u].s] = "new"
                      /\ frame'[u].o \in {0, current'}
                      /\ frame'[u].o = 0 /\ current' # 0 /\ Count' > 0 => Announced'
                      /\ frame'[u].o # 0 => /\ Count' > 0 /\ frame'[u].n <= Count'
                                            /\ Live' /\ frame'[u].n = Count' => frame'[u].p = Value'
  BY DEF AddingInv
<1>2. u # t /\ frame'[u] = frame[u] /\ frame[u].pc = "adding" /\ frame[u] \in FrameType
  BY <1>1 DEF Goes, TypeInv
<1>3. frame[u].s \in Services
  BY <1>2, FrameFacts
<1>4. /\ lock = {u} /\ status[frame[u].s] = "new"
      /\ frame[u].o \in {0, current}
      /\ frame[u].o = 0 /\ current # 0 /\ Count > 0 => Announced
      /\ frame[u].o # 0 => /\ Count > 0 /\ frame[u].n <= Count
                           /\ Live /\ frame[u].n = Count => frame[u].p = Value
  BY <1>2 DEF AddingInv
<1>5. frame[u].o = 0 /\ current # 0 /\ Count' > 0 => Announced'
  BY <1>0, <1>4, AnnouncedGrows
<1>6. QED
  BY <1>0, <1>2, <1>3, <1>4, <1>5

LEMMA AddingFree ==
    ASSUME AddingInv, lock = {}, NEW t \in Threads, NEW f, Goes(t, f), f.pc # "adding"
    PROVE  AddingInv'
<1>1. \A u \in Threads : frame[u].pc # "adding"
  BY DEF AddingInv
<1>2. \A u \in Threads : frame'[u].pc # "adding"
  BY <1>1 DEF Goes
<1>3. QED
  BY <1>2 DEF AddingInv

-----------------------------------------------------------------------------
(* The steps of the threads. *)

IInv == BaseInv /\ TellInv

LEMMA IdleIs == Idle \in FrameType /\ Idle.pc = "idle" /\ \A n : Numbers(Idle, n)
BY DEF FrameType, Idle, Numbers

LEMMA FramesAre ==
    /\ \A o \in Nat, l \in {"notify", "removing", "removed"} : [pc |-> l, o |-> o] \in FrameType
    /\ \A o, n \in Nat : [pc |-> "post", o |-> o, n |-> n] \in FrameType
    /\ \A old, o \in Nat, n \in Nat \cup {NONE} : [pc |-> "invalidate", old |-> old, o |-> o, n |-> n] \in FrameType
    /\ \A s \in Services, p \in Props, o, n \in Nat : [pc |-> "adding", s |-> s, p |-> p, o |-> o, n |-> n] \in FrameType
BY DEF FrameType

LEMMA PostedKeeps ==
    ASSUME TypeInv, NEW k \in PostType, IsLookup(k), Posted(k)
    PROVE  /\ QueueKeeps /\ New(Len(queue) + 1) /\ queue'[Len(queue) + 1] = k
           /\ \A i : New(i) => queue'[i] = k
<1>1. /\ Len(queue) \in Nat /\ Len(queue') \in Nat /\ Len(queue') > Len(queue)
      /\ \A i \in 1 .. Len(queue) : queue'[i] = queue[i]
      /\ queue'[Len(queue) + 1] = k
      /\ \A i \in 1 .. Len(queue') : i > Len(queue) + 1 => queue'[i] = Hold
  BY DEF Posted, TypeInv
<1>2. Hold.pc = "finish" /\ k.pc = "lookup"
  BY DEF Hold, IsLookup
<1>3. \A i \in 1 .. Len(queue') : i > Len(queue) => i = Len(queue) + 1 \/ i > Len(queue) + 1
  BY <1>1
<1>4. \A i \in 1 .. Len(queue') : i > Len(queue) => \A s : ~ IsFirst(queue'[i], s)
  BY <1>1, <1>2, <1>3 DEF IsFirst
<1>5. QueueKeeps
  BY <1>1, <1>4 DEF QueueKeeps, QueueGoesOn
<1>6. Len(queue) + 1 \in 1 .. Len(queue') /\ Len(queue) + 1 > Len(queue)
  BY <1>1
<1>7. \A i : New(i) => queue'[i] = k
  BY <1>1, <1>2, <1>3 DEF New, IsLookup
<1>8. QED
  BY <1>1, <1>5, <1>6, <1>7 DEF New

LEMMA SameQueue ==
    ASSUME TypeInv, queue' = queue PROVE QueueKeeps /\ \A i : ~ New(i)
<1>1. Len(queue) \in Nat
  BY DEF TypeInv
<1>2. QED
  BY <1>1 DEF QueueKeeps, QueueGoesOn, New

\* A step that leaves the configuration as it is.
LEMMA QuietKeeps ==
    ASSUME TypeInv, NumbersInv, NewsOK, QueueKeeps, Untold, NEW t \in Threads, NEW f, Goes(t, f), Hands(t, f), SameConfig,
           Len(objs') = Len(objs), \A o \in Ids : objs'[o].removed = objs[o].removed,
           current # 0 => objs'[current].admin,
           f.pc \notin {"removing", "removed", "invalidate", "notify"},
           f.pc = "post" => f.o # 0 /\ (f.o = current => f.n \in 1 .. Count),
           ~ (frame[t].pc = "removing" /\ frame[t].o = current),
           \A i : New(i) => queue'[i].o # 0 /\ (queue'[i].o = current => queue'[i].n \in 1 .. Count),
           AddingInv'
    PROVE  NewsOK'
<1>1. LiveInv' /\ ZeroInv' /\ TellerInv' /\ SayInv' /\ FirstInv' /\ NewsInv' /\ OneWorker'
  BY QuietTell DEF NewsOK
<1>2. task' = task /\ current' = current /\ (current # 0 => Count' = Count)
  BY DEF Untold, SameConfig
<1>3. ObjsInv'
  <2>1. ObjsInv
    BY DEF NewsOK
  <2>2. f.pc \in {"post", "invalidate"} => f.o # 0 /\ (f.o = current => f.n \in 1 .. Count)
    OBVIOUS
  <2>3. QED
    BY <1>2, <2>1, <2>2, ObjsQuiet, KeepsAll
<1>4. QED
  BY <1>1, <1>3 DEF NewsOK

\* Once the destructor is through, no configuration points to the Configuration Admin.
LEMMA GoneDetached ==
    ASSUME TypeInv, CloseInv, SwappedInv, AdminInv, phase = "gone", "erased" \notin lapses
    PROVE  \A o \in Ids : ~ objs[o].admin
<1>1. current = 0 /\ \A t \in Threads : frame[t].pc \notin {"removed", "invalidate"} \cup ClosePCs
  BY DEF SwappedInv, Swapped, CloseInv
<1>2. \A o \in Ids, t \in Threads : ~ Clears(t, o)
  BY <1>1 DEF Clears, ClosePCs
<1>3. QED
  BY <1>1, <1>2 DEF AdminInv, Ids

\* A thread posts the task it had to post, and is through.
LEMMA PostStep ==
    ASSUME IInv, NEW t \in Threads, frame[t].pc \in {"notify", "removed", "post"}, NEW o \in Ids, frame[t].o = o,
           NEW k \in PostType, IsLookup(k), k.o = o, k.n <= MaxCalls, Posted(k), Goes(t, Idle),
           frame[t].pc = "notify" => k.n = objs[o].changeCount, frame[t].pc = "post" => k.n = frame[t].n,
           UNCHANGED <<kind, current, lock, status, last, told, task, ext, phase, calls, throws, lapses>>,
           objs' \in Seq(ObjType), Len(objs') = Len(objs),
           \A x \in Ids : /\ objs'[x].removed = objs[x].removed /\ objs'[x].props = objs[x].props
                          /\ objs'[x].changeCount = objs[x].changeCount /\ objs'[x].by = objs[x].by
                          /\ objs'[x].admin => objs[x].admin /\ ~ Clears(t, x)
                          /\ (frame[t].pc = "removed" /\ x = o) \/ objs'[x].admin = objs[x].admin,
           ~ (phase = "gone" /\ "erased" \notin lapses)
    PROVE  IInv'
<1>0. BaseInv /\ TypeInv /\ NumbersInv /\ ExtInv /\ CloseInv /\ SwappedInv /\ AdminInv /\ GoneInv /\ TellInv
  BY DEF IInv, BaseInv
<1>1. Len(objs) \in Nat /\ Len(objs') \in Nat /\ Len(objs') >= Len(objs) /\ Ids' = Ids
  BY <1>0 DEF TypeInv, Ids
<1>2. \A i \in 1 .. Len(queue') : PostNumbers(queue[i])'
  <2>1. PostNumbers(k)'
    BY <1>1 DEF PostNumbers
  <2>2. QED
    BY <1>0, <1>1, <2>1, PostedNumbers
<1>3. /\ QueueKeeps /\ New(Len(queue) + 1) /\ queue'[Len(queue) + 1] = k
      /\ \A i : New(i) => queue'[i] = k
  BY <1>0, PostedKeeps
<1>4. Idle \in FrameType /\ Idle.pc = "idle"
  BY IdleIs
<1>5. StepType(t, Idle)
  <2>1. \A x \in 1 .. Len(objs') : objs'[x].changeCount <= calls'
    BY <1>0, <1>1 DEF TypeInv, Ids
  <2>2. frame[t].pc \notin ClosePCs /\ Idle.pc \notin ClosePCs
    BY <1>4 DEF ClosePCs
  <2>3. queue' \in Seq(PostType)
    BY DEF Posted
  <2>4. Numbers(Idle, Len(objs'))
    BY IdleIs
  <2>5. current' \in 0 .. Len(objs')
    BY <1>0 DEF TypeInv
  <2>6. QED
    BY <1>0, <1>1, <1>2, <2>1, <2>2, <2>3, <2>4, <2>5 DEF StepType, TypeInv
<1>6. StepRules(t, Idle)
  <2>1. \A x \in 1 .. Len(objs') : objs'[x].admin =>
          \/ current' = x
          \/ x \in Ids /\ objs[x].admin /\ current # x /\ ~ Clears(t, x)
    BY <1>1 DEF Ids
  <2>2. Swapped => current' = 0
    BY <1>0 DEF SwappedInv
  <2>3. QED
    BY <1>4, <2>1, <2>2 DEF StepRules
<1>7. TypeInv' /\ NumbersInv' /\ CloseInv' /\ SwappedInv' /\ AdminInv' /\ GoneInv'
  BY <1>0, <1>4, <1>5, <1>6, ThreadKeeps
<1>8. ExtInv'
  <2>1. \A x \in Ids : objs[x].changeCount \in Nat
    BY <1>0, ObjIs DEF TypeInv
  <2>2. \A x \in Ids : /\ objs'[x].changeCount >= objs[x].changeCount
                       /\ objs'[x].changeCount = objs[x].changeCount => objs'[x].by = objs[x].by
    BY <2>1
  <2>3. QED
    BY <1>0, <1>1, <2>2, ExtKeeps
<1>9. ASSUME phase' = "open", lapses' = {} PROVE NewsOK'
  <2>1. NewsOK /\ ObjsInv /\ AddingInv
    BY <1>0, <1>9 DEF TellInv, NewsOK
  <2>2. Untold
    BY DEF Untold
  <2>3. current # 0 => current \in Ids
    BY <1>0 DEF TypeInv, Ids
  <2>4. SameConfig
    BY <2>3 DEF SameConfig, Count, Value
  <2>5. o = current => k.n \in 1 .. Count
    <3>1. CASE frame[t].pc = "notify"
      <4>1. objs[o].changeCount \in Nat
        BY <1>0, ObjIs DEF TypeInv
      <4>2. QED
        BY <2>1, <3>1, <4>1 DEF ObjsInv, Count
    <3>2. CASE frame[t].pc # "notify"
      BY <2>1, <3>2 DEF ObjsInv
    <3>3. QED
      BY <3>1, <3>2
  <2>6. Hands(t, Idle)
    <3>1. WillPost(t) => k.o = frame[t].o /\ (frame[t].pc # "removed" => k.n = frame[t].n)
      BY DEF WillPost
    <3>2. frame[t].pc = "notify" /\ frame[t].o = current => k.o = current /\ k.n = Count
      BY DEF Count
    <3>3. QED
      BY <1>3, <3>1, <3>2 DEF Hands
  <2>7. current # 0 => objs'[current].admin
    BY <2>1, <2>3 DEF ObjsInv
  <2>8. \A i : New(i) => queue'[i].o # 0 /\ (queue'[i].o = current => queue'[i].n \in 1 .. Count)
    BY <1>3, <2>5 DEF Ids
  <2>9. AddingInv'
    BY <1>0, <1>3, <1>4, <2>1, <2>4, <2>6, AddingQuiet, KeepsAll
  <2>10. QED
    BY <1>0, <1>3, <1>4, <2>1, <2>2, <2>4, <2>6, <2>7, <2>8, <2>9, QuietKeeps
<1>10. QED
  BY <1>7, <1>8, <1>9 DEF IInv, BaseInv, TellInv

\* The fields of the configurations that services and bundles see stay as they are.
SameObjs == /\ objs' \in Seq(ObjType) /\ Len(objs') = Len(objs)
            /\ \A x \in Ids : /\ objs'[x].removed = objs[x].removed /\ objs'[x].props = objs[x].props
                              /\ objs'[x].changeCount = objs[x].changeCount /\ objs'[x].by = objs[x].by

LEMMA SameObjsExt ==
    ASSUME TypeInv, ExtInv, SameObjs, ext' = ext PROVE ExtInv'
<1>1. Len(objs) \in Nat
  BY DEF TypeInv
<1>2. \A x \in Ids : objs[x].changeCount \in Nat
  BY ObjIs DEF TypeInv
<1>3. \A x \in Ids : /\ objs'[x].changeCount >= objs[x].changeCount
                     /\ objs'[x].changeCount = objs[x].changeCount => objs'[x].by = objs[x].by
  BY <1>2 DEF SameObjs
<1>4. QED
  BY <1>1, <1>3, ExtKeeps DEF SameObjs

\* A step of a thread that leaves the configuration as it is, and posts nothing.
LEMMA QuietStep ==
    ASSUME IInv, NEW t \in Threads, NEW f \in FrameType, Goes(t, f), f.pc \in {"idle", "post"}, Numbers(f, Len(objs')),
           frame[t].pc \notin ClosePCs \cup {"adding"}, f.pc = "post" => phase = "open",
           UNCHANGED <<kind, current, lock, last, told, task, queue, phase, throws, lapses>>,
           calls' \in 0 .. MaxCalls, calls' >= calls,
           status' \in [Services -> {"new", "tracked", "removed"}],
           \A s \in Services : status'[s] = status[s] \/ (status[s] = "tracked" /\ status'[s] = "removed"),
           SameObjs, \A x \in Ids : objs'[x].admin => objs[x].admin /\ ~ Clears(t, x),
           ExtInv',
           NewsOK => /\ Hands(t, f)
                     /\ current # 0 => objs'[current].admin
                     /\ ~ (frame[t].pc = "removing" /\ frame[t].o = current)
                     /\ f.pc = "post" => f.o # 0 /\ (f.o = current => f.n \in 1 .. Count)
    PROVE  IInv'
<1>0. BaseInv /\ TypeInv /\ NumbersInv /\ ExtInv /\ CloseInv /\ SwappedInv /\ AdminInv /\ GoneInv /\ TellInv
  BY DEF IInv, BaseInv
<1>1. /\ Len(objs) \in Nat /\ Len(objs') = Len(objs) /\ Len(objs') \in Nat /\ Len(objs') >= Len(objs) /\ Ids' = Ids
      /\ objs' \in Seq(ObjType)
  BY <1>0 DEF TypeInv, Ids, SameObjs
<1>2. queue' \in Seq(PostType) /\ \A i \in 1 .. Len(queue') : PostNumbers(queue[i])'
  BY <1>0, <1>1, QueueGrows
<1>3. QueueKeeps /\ \A i : ~ New(i)
  BY <1>0, SameQueue
<1>5. StepType(t, f)
  <2>1. \A x \in 1 .. Len(objs') : objs'[x].changeCount <= calls'
    <3>1. \A x \in Ids : objs[x].changeCount \in Nat /\ objs[x].changeCount <= calls
      BY <1>0, ObjIs DEF TypeInv
    <3>2. calls \in Nat
      BY <1>0 DEF TypeInv
    <3>3. QED
      BY <1>1, <3>1, <3>2, AdminAssumption DEF SameObjs, Ids
  <2>2. frame[t].pc \notin ClosePCs /\ f.pc \notin ClosePCs
    BY DEF ClosePCs
  <2>3. current' \in 0 .. Len(objs')
    BY <1>0, <1>1 DEF TypeInv
  <2>4. QED
    BY <1>0, <1>1, <1>2, <2>1, <2>2, <2>3 DEF StepType, TypeInv
<1>6. StepRules(t, f)
  <2>1. \A x \in 1 .. Len(objs') : objs'[x].admin =>
          \/ current' = x
          \/ x \in Ids /\ objs[x].admin /\ current # x /\ ~ Clears(t, x)
    BY <1>1 DEF Ids
  <2>2. Swapped => current' = 0
    BY <1>0 DEF SwappedInv
  <2>3. QED
    BY <2>1, <2>2 DEF StepRules
<1>7. TypeInv' /\ NumbersInv' /\ CloseInv' /\ SwappedInv' /\ AdminInv' /\ GoneInv'
  BY <1>0, <1>5, <1>6, ThreadKeeps
<1>9. ASSUME phase' = "open", lapses' = {} PROVE NewsOK'
  <2>1. NewsOK /\ ObjsInv /\ AddingInv
    BY <1>0, <1>9 DEF TellInv, NewsOK
  <2>2. Untold
    BY DEF Untold
  <2>3. current # 0 => current \in Ids
    BY <1>0 DEF TypeInv, Ids
  <2>4. SameConfig
    BY <2>3 DEF SameConfig, Count, Value, SameObjs
  <2>9. AddingInv'
    <3>1. \A s \in Services : status[s] = "new" => status'[s] = "new"
      OBVIOUS
    <3>2. frame[t].pc # "adding" /\ f.pc # "adding"
      OBVIOUS
    <3>3. QED
      BY <1>0, <1>3, <2>1, <2>4, <3>1, <3>2, AddingQuiet, KeepsAll
  <2>10. f.pc \notin {"removing", "removed", "invalidate", "notify"}
    OBVIOUS
  <2>11. \A o \in Ids : objs'[o].removed = objs[o].removed
    BY DEF SameObjs
  <2>12. \A i : New(i) => queue'[i].o # 0 /\ (queue'[i].o = current => queue'[i].n \in 1 .. Count)
    BY <1>3
  <2>13. QED
    BY <1>0, <1>1, <1>3, <2>1, <2>2, <2>4, <2>9, <2>10, <2>11, <2>12, QuietKeeps
<1>10. QED
  BY <1>7, <1>9 DEF IInv, BaseInv, TellInv

LEMMA UpdateNotifyKeeps ==
    ASSUME IInv, NEW t \in Threads, UpdateNotify(t) PROVE IInv'
<1>0. BaseInv /\ TypeInv /\ NumbersInv /\ ExtInv /\ CloseInv /\ SwappedInv /\ AdminInv /\ GoneInv /\ TellInv
  BY DEF IInv, BaseInv
<1>1. PICK o \in Ids : o = frame[t].o
  BY <1>0 DEF NumbersInv, UpdateNotify, At
<1>2. /\ frame[t].pc = "notify" /\ Do(t, Idle)
      /\ UNCHANGED <<objs, current, lock, status, last, told, task, ext, phase, calls, throws, kind, lapses>>
      /\ IF objs[o].admin THEN Post(<<Update(o, objs[o].changeCount)>>) ELSE UNCHANGED queue
  BY <1>1 DEF UpdateNotify, At, tracking, bounds
<1>3. Goes(t, Idle)
  BY <1>0, <1>2, DoIs, IdleIs DEF TypeInv, Goes
<1>4. PICK k : k = Update(o, objs[o].changeCount)
  OBVIOUS
<1>5. /\ k \in PostType /\ IsLookup(k) /\ k.o = o /\ k.n = objs[o].changeCount /\ k.n <= MaxCalls
  <2>1. objs[o].changeCount \in Nat /\ objs[o].changeCount <= calls /\ calls \in 0 .. MaxCalls
    BY <1>0, ObjIs DEF TypeInv
  <2>2. objs[o].changeCount <= MaxCalls
    BY <2>1, AdminAssumption
  <2>3. o \in Nat
    BY DEF Ids
  <2>4. QED
    BY <1>4, <2>1, <2>2, <2>3 DEF Update, PostType, IsLookup
<1>6. \A x \in Ids : ~ Clears(t, x)
  BY <1>2 DEF Clears
<1>7. SameObjs
  BY <1>0, <1>2 DEF SameObjs, TypeInv
<1>8. CASE objs[o].admin
  <2>1. Posted(k)
    BY <1>0, <1>2, <1>4, <1>5, <1>8, PostIs DEF TypeInv
  <2>2. ~ (phase = "gone" /\ "erased" \notin lapses)
    BY <1>0, <1>8, GoneDetached
  <2>3. \A x \in Ids : /\ objs'[x].admin => objs[x].admin /\ ~ Clears(t, x)
                       /\ (frame[t].pc = "removed" /\ x = o) \/ objs'[x].admin = objs[x].admin
    BY <1>2, <1>6
  <2>4. QED
    BY <1>1, <1>2, <1>3, <1>5, <1>7, <2>1, <2>2, <2>3, PostStep DEF SameObjs
<1>9. CASE ~ objs[o].admin
  <2>1. queue' = queue
    BY <1>2, <1>9
  <2>2. NewsOK => current # o /\ (current # 0 => objs'[current].admin)
    BY <1>2, <1>9 DEF NewsOK, ObjsInv, Ids
  <2>3. NewsOK => Hands(t, Idle)
    BY <1>1, <1>2, <2>2 DEF Hands, WillPost
  <2>4. ExtInv'
    BY <1>0, <1>2, <1>7, SameObjsExt
  <2>5. calls' \in 0 .. MaxCalls /\ calls' >= calls
    BY <1>0, <1>2 DEF TypeInv
  <2>6. \A x \in Ids : objs'[x].admin => objs[x].admin /\ ~ Clears(t, x)
    BY <1>2, <1>6
  <2>7. frame[t].pc \notin ClosePCs \cup {"adding"} /\ frame[t].pc # "removing"
    BY <1>2 DEF ClosePCs
  <2>8. status' \in [Services -> {"new", "tracked", "removed"}] /\ \A s \in Services : status'[s] = status[s]
    BY <1>0, <1>2 DEF TypeInv
  <2>9. QED
    <3>1. UNCHANGED <<current, lock, last, told, task, phase, throws, kind, lapses>>
      BY <1>2
    <3>2. QED
      BY <1>3, <1>7, <2>1, <2>2, <2>3, <2>4, <2>5, <2>6, <2>7, <2>8, <3>1, IdleIs, QuietStep, ZenonT(30)
<1>10. QED
  BY <1>8, <1>9

LEMMA RemoveNotifyKeeps ==
    ASSUME IInv, NEW t \in Threads, RemoveNotify(t) PROVE IInv'
<1>0. BaseInv /\ TypeInv /\ NumbersInv /\ ExtInv /\ CloseInv /\ SwappedInv /\ AdminInv /\ GoneInv /\ TellInv
  BY DEF IInv, BaseInv
<1>1. PICK o \in Ids : o = frame[t].o
  BY <1>0 DEF NumbersInv, RemoveNotify, At
<1>2. /\ frame[t].pc = "removed" /\ Do(t, Idle)
      /\ UNCHANGED <<current, lock, status, last, told, task, ext, phase, calls, throws, kind, lapses>>
      /\ objs' = [objs EXCEPT ![o].held = FALSE, ![o].admin = FALSE]
      /\ Post(<<Update(o, objs[o].changeCount), Hold>>)
  BY <1>1 DEF RemoveNotify, At, tracking, bounds
<1>3. Goes(t, Idle)
  BY <1>0, <1>2, DoIs, IdleIs DEF TypeInv, Goes
<1>4. PICK k : k = Update(o, objs[o].changeCount)
  OBVIOUS
<1>5. /\ k \in PostType /\ IsLookup(k) /\ k.o = o /\ k.n = objs[o].changeCount /\ k.n <= MaxCalls
  <2>1. objs[o].changeCount \in Nat /\ objs[o].changeCount <= calls /\ calls \in 0 .. MaxCalls
    BY <1>0, ObjIs DEF TypeInv
  <2>2. objs[o].changeCount <= MaxCalls
    BY <2>1, AdminAssumption
  <2>3. o \in Nat
    BY DEF Ids
  <2>4. QED
    BY <1>4, <2>1, <2>2, <2>3 DEF Update, PostType, IsLookup
<1>6. Posted(k)
  BY <1>0, <1>2, <1>4, <1>5, PostIs DEF TypeInv
<1>7. /\ objs' \in Seq(ObjType) /\ Len(objs') = Len(objs)
      /\ \A x \in Ids : x # o => objs'[x] = objs[x]
      /\ objs'[o].removed = objs[o].removed /\ objs'[o].props = objs[o].props
      /\ objs'[o].changeCount = objs[o].changeCount /\ objs'[o].by = objs[o].by
      /\ ~ objs'[o].admin
  BY <1>0, <1>2, DetachedIs DEF TypeInv
<1>8. \A x \in Ids : x # o => ~ Clears(t, x)
  BY <1>1, <1>2 DEF Clears
<1>9. \A x \in Ids : /\ objs'[x].removed = objs[x].removed /\ objs'[x].props = objs[x].props
                     /\ objs'[x].changeCount = objs[x].changeCount /\ objs'[x].by = objs[x].by
                     /\ objs'[x].admin => objs[x].admin /\ ~ Clears(t, x)
                     /\ (frame[t].pc = "removed" /\ x = o) \/ objs'[x].admin = objs[x].admin
  BY <1>2, <1>7, <1>8
<1>10. ~ (phase = "gone" /\ "erased" \notin lapses)
  BY <1>0, <1>2 DEF SwappedInv, Swapped
<1>11. QED
  BY <1>1, <1>2, <1>3, <1>5, <1>6, <1>7, <1>9, <1>10, PostStep, ZenonT(30)

LEMMA NotifyConfigurationUpdatedKeeps ==
    ASSUME IInv, NEW t \in Threads, NotifyConfigurationUpdated(t) PROVE IInv'
<1>0. BaseInv /\ TypeInv /\ NumbersInv /\ ExtInv /\ CloseInv /\ SwappedInv /\ AdminInv /\ GoneInv /\ TellInv
  BY DEF IInv, BaseInv
<1>1. /\ frame[t].pc = "post" /\ Do(t, Idle)
      /\ UNCHANGED <<objs, current, lock, status, last, told, task, ext, phase, calls, throws, kind, lapses>>
  BY DEF NotifyConfigurationUpdated, At, tracking, bounds
<1>2. PICK o \in Ids : o = frame[t].o
  BY <1>0, <1>1 DEF NumbersInv
<1>3. PICK n \in Nat : n = frame[t].n /\ n <= MaxCalls
  BY <1>0, <1>1, FrameFacts DEF NumbersInv, TypeInv
<1>4. PICK k : k = Update(o, n)
  OBVIOUS
<1>5. k \in PostType /\ IsLookup(k) /\ k.o = o /\ k.n = n
  BY <1>4 DEF Update, PostType, IsLookup, Ids
<1>6. Post(<<k>>)
  BY <1>2, <1>3, <1>4 DEF NotifyConfigurationUpdated
<1>7. Posted(k)
  BY <1>0, <1>5, <1>6, PostIs DEF TypeInv
<1>8. Goes(t, Idle)
  BY <1>0, <1>1, DoIs, IdleIs DEF TypeInv, Goes
<1>9. objs' \in Seq(ObjType) /\ Len(objs') = Len(objs)
  BY <1>0, <1>1 DEF TypeInv
<1>10. \A x \in Ids : /\ objs'[x].removed = objs[x].removed /\ objs'[x].props = objs[x].props
                      /\ objs'[x].changeCount = objs[x].changeCount /\ objs'[x].by = objs[x].by
                      /\ objs'[x].admin => objs[x].admin /\ ~ Clears(t, x)
                      /\ (frame[t].pc = "removed" /\ x = o) \/ objs'[x].admin = objs[x].admin
  BY <1>1 DEF Clears
<1>11. ~ (phase = "gone" /\ "erased" \notin lapses)
  BY <1>0, <1>1 DEF CloseInv, ClosePCs
<1>12. QED
  BY <1>1, <1>2, <1>3, <1>5, <1>7, <1>8, <1>9, <1>10, <1>11, PostStep

LEMMA InvalidateKeeps ==
    ASSUME IInv, NEW t \in Threads, Invalidate(t) PROVE IInv'
<1>0. BaseInv /\ TypeInv /\ NumbersInv /\ ExtInv /\ CloseInv /\ SwappedInv /\ AdminInv /\ GoneInv /\ TellInv
  BY DEF IInv, BaseInv
<1>1. PICK g : g = frame[t]
  OBVIOUS
<1>2. PICK f : f = IF g.n = NONE THEN Idle ELSE [pc |-> "post", o |-> g.o, n |-> g.n]
  OBVIOUS
<1>3. /\ g.pc = "invalidate" /\ Do(t, f) /\ objs' = [objs EXCEPT ![g.old].admin = FALSE]
      /\ UNCHANGED <<current, lock, status, last, told, queue, task, ext, phase, calls, throws, kind, lapses>>
  BY <1>1, <1>2 DEF Invalidate, At, tracking, work, bounds
<1>4. g.old \in Ids /\ g.o \in Ids /\ g.n \in Nat \cup {NONE} /\ (g.n # NONE => g.n <= MaxCalls)
  BY <1>0, <1>1, <1>3, FrameFacts DEF NumbersInv, TypeInv
<1>5. PICK old \in Ids : old = g.old
  BY <1>4
<1>6. /\ objs' \in Seq(ObjType) /\ Len(objs') = Len(objs)
      /\ \A x \in Ids : x # old => objs'[x] = objs[x]
      /\ objs'[old].removed = objs[old].removed /\ objs'[old].props = objs[old].props
      /\ objs'[old].changeCount = objs[old].changeCount /\ objs'[old].by = objs[old].by
      /\ ~ objs'[old].admin
  BY <1>0, <1>3, <1>5, DetachedIs DEF TypeInv
<1>7. SameObjs
  BY <1>6 DEF SameObjs
<1>8. f \in FrameType /\ f.pc \in {"idle", "post"} /\ Numbers(f, Len(objs'))
  <2>1. CASE g.n = NONE
    BY <1>2, <2>1, IdleIs
  <2>2. CASE g.n # NONE
    <3>1. f = [pc |-> "post", o |-> g.o, n |-> g.n] /\ g.n \in Nat
      BY <1>2, <1>4, <2>2
    <3>2. QED
      BY <1>4, <1>6, <2>2, <3>1 DEF FrameType, Numbers, Ids
  <2>3. QED
    BY <2>1, <2>2
<1>9. Goes(t, f)
  BY <1>0, <1>3, <1>8, DoIs DEF TypeInv, Goes
<1>10. \A x \in Ids : objs'[x].admin => objs[x].admin /\ ~ Clears(t, x)
  BY <1>1, <1>3, <1>5, <1>6 DEF Clears
<1>11. ExtInv'
  BY <1>0, <1>3, <1>7, SameObjsExt
<1>12. phase = "open" /\ frame[t].pc \notin ClosePCs \cup {"adding"} /\ frame[t].pc # "removing"
  BY <1>0, <1>1, <1>3 DEF CloseInv, ClosePCs
<1>13. ASSUME NewsOK
       PROVE  /\ Hands(t, f) /\ (current # 0 => objs'[current].admin)
              /\ f.pc = "post" => f.o # 0 /\ (f.o = current => f.n \in 1 .. Count)
  <2>1. f.pc = "post" => f.o = g.o /\ f.n = g.n /\ g.n # NONE
    BY <1>2, IdleIs
  <2>2. g.n # NONE => f.pc = "post" /\ WillPost(t)'
    BY <1>2, <1>9 DEF WillPost, Goes
  <2>3. Hands(t, f)
    BY <1>1, <1>3, <2>1, <2>2 DEF Hands, WillPost
  <2>4. g.old # current /\ (g.o = current => g.n \in 1 .. Count) /\ (current # 0 => objs[current].admin /\ current \in Ids)
    BY <1>0, <1>1, <1>3, <1>13 DEF NewsOK, ObjsInv, TypeInv, Ids
  <2>5. QED
    BY <1>4, <1>5, <1>6, <2>1, <2>3, <2>4 DEF Ids
<1>14. calls' \in 0 .. MaxCalls /\ calls' >= calls
  BY <1>0, <1>3 DEF TypeInv
<1>15. status' \in [Services -> {"new", "tracked", "removed"}] /\ \A s \in Services : status'[s] = status[s]
  BY <1>0, <1>3 DEF TypeInv
<1>16. QED
  BY <1>3, <1>7, <1>8, <1>9, <1>10, <1>11, <1>12, <1>13, <1>14, <1>15, QuietStep

LEMMA RemovedServiceKeeps ==
    ASSUME IInv, NEW t \in Threads, NEW s \in Services, RemovedService(t, s) PROVE IInv'
<1>0. BaseInv /\ TypeInv /\ NumbersInv /\ ExtInv /\ CloseInv /\ SwappedInv /\ AdminInv /\ GoneInv /\ TellInv
  BY DEF IInv, BaseInv
<1>1. /\ status[s] = "tracked" /\ status' = [status EXCEPT ![s] = "removed"] /\ Call(t, Idle)
      /\ UNCHANGED <<objs, current, lock, last, told, queue, task, ext, phase, throws, kind, lapses>>
  BY DEF RemovedService, work, bounds
<1>2. /\ Goes(t, Idle) /\ frame[t].pc = "idle" /\ frame[t].pc \notin ClosePCs
      /\ calls' = calls + 1 /\ calls' \in 0 .. MaxCalls /\ \A o : ~ Clears(t, o)
  BY <1>0, <1>1, CallIs, IdleIs
<1>3. SameObjs
  BY <1>0, <1>1 DEF SameObjs, TypeInv
<1>4. ExtInv'
  BY <1>0, <1>1, <1>3, SameObjsExt
<1>5. calls' >= calls
  BY <1>0, <1>2 DEF TypeInv
<1>6. /\ status' \in [Services -> {"new", "tracked", "removed"}]
      /\ \A r \in Services : status'[r] = status[r] \/ (status[r] = "tracked" /\ status'[r] = "removed")
  BY <1>0, <1>1 DEF TypeInv
<1>7. NewsOK => Hands(t, Idle) /\ (current # 0 => objs'[current].admin)
  BY <1>1, <1>2 DEF Hands, WillPost, NewsOK, ObjsInv
<1>8. QED
  BY <1>1, <1>2, <1>3, <1>4, <1>5, <1>6, <1>7, IdleIs, QuietStep

\* A step of a thread that posts nothing, whatever it does to the configurations.
LEMMA BaseStep ==
    ASSUME BaseInv, NEW t \in Threads, NEW f \in FrameType, Goes(t, f), f.pc \notin ClosePCs, frame[t].pc \notin ClosePCs,
           Numbers(f, Len(objs')), UNCHANGED <<kind, status, last, told, task, queue, phase, throws>>,
           \/ lock' = {}
           \/ \E u \in Threads : lock' = {u},
           lapses \subseteq lapses', lapses' \subseteq Lapses, calls' \in 0 .. MaxCalls,
           objs' \in Seq(ObjType), Len(objs') >= Len(objs), current' \in 0 .. Len(objs'),
           \A o \in 1 .. Len(objs') : objs'[o].changeCount <= calls', ExtInv',
           phase # "open" => f.pc \in {"idle", "notify", "removing", "removed"},
           Swapped => current' = 0 /\ f.pc # "removed",
           \A o \in 1 .. Len(objs') : objs'[o].admin =>
              \/ current' = o \/ Clears(t, o)'
              \/ o \in Ids /\ objs[o].admin /\ current # o /\ ~ Clears(t, o)
    PROVE  BaseInv'
<1>0. TypeInv /\ NumbersInv /\ CloseInv /\ SwappedInv /\ AdminInv /\ GoneInv
  BY DEF BaseInv
<1>1. Len(objs) \in Nat /\ Len(objs') \in Nat
  BY <1>0 DEF TypeInv
<1>2. queue' \in Seq(PostType) /\ \A i \in 1 .. Len(queue') : PostNumbers(queue[i])'
  BY <1>0, <1>1, QueueGrows
<1>3. status' \in [Services -> {"new", "tracked", "removed"}] /\ last' \in [Services -> 0 .. MaxCalls]
  BY <1>0 DEF TypeInv
<1>4. StepType(t, f)
  BY <1>1, <1>2, <1>3 DEF StepType
<1>5. StepRules(t, f)
  BY DEF StepRules
<1>6. QED
  BY <1>0, <1>4, <1>5, ThreadKeeps DEF BaseInv

\* A configuration is made where there was none.
LEMMA ObjsMade ==
    ASSUME TypeInv, NumbersInv, ObjsInv, NumbersInv', current = 0, queue' = queue, task' = task,
           NEW t \in Threads, NEW f, Goes(t, f), f.pc \in {"idle", "post"}, NEW c \in Nat, c = Len(objs) + 1,
           current' = c, Len(objs') = c,
           \A x \in Ids : objs'[x] = objs[x], ~ objs'[c].removed, objs'[c].admin,
           f.pc = "post" => f.n \in 1 .. objs'[c].changeCount
    PROVE  ObjsInv'
<1>0. /\ frame'[t] = f /\ \A u \in Threads : u # t => frame'[u] = frame[u]
      /\ Len(objs) \in Nat /\ c \notin Ids /\ c # 0 /\ \A x \in 1 .. Len(objs') : x = c \/ x \in Ids
  BY DEF Goes, Ids, TypeInv
<1>1. \A x \in Ids : objs[x].removed
  BY DEF ObjsInv, Ids
<1>2. \A x \in 1 .. Len(objs') : ~ objs'[x].removed => x = c
  BY <1>0, <1>1
<1>3. ASSUME NEW u \in Threads
      PROVE  /\ frame'[u].pc \in {"removing", "removed"} => objs'[frame'[u].o].removed
             /\ frame'[u].pc = "invalidate" => frame'[u].old # c
             /\ frame'[u].pc = "removed" => frame'[u].o # c
             /\ frame'[u].pc \in {"post", "invalidate"} /\ frame'[u].o = c => frame'[u].n \in 1 .. objs'[c].changeCount
             /\ frame'[u].pc = "notify" /\ frame'[u].o = c => objs'[c].changeCount > 0
  <2>1. CASE u = t
    BY <1>0, <2>1
  <2>2. CASE u # t
    BY <1>0, <1>1, <2>2 DEF NumbersInv
  <2>3. QED
    BY <2>1, <2>2
<1>4. \A i \in 1 .. Len(queue) : IsLookup(queue[i]) => queue[i].o # c
  BY <1>0 DEF NumbersInv, IsLookup
<1>5. \A w \in Workers : IsLookup(task[w]) => task[w].o # c
  BY <1>0 DEF NumbersInv, IsLookup
<1>6. QED
  BY <1>2, <1>3, <1>4, <1>5 DEF ObjsInv, Ids, Count

LEMMA GetConfigurationKeeps ==
    ASSUME IInv, NEW t \in Threads, GetConfiguration(t) PROVE IInv'
<1>0. BaseInv /\ TypeInv /\ NumbersInv /\ ExtInv /\ CloseInv /\ SwappedInv /\ AdminInv /\ GoneInv /\ TellInv
  BY DEF IInv, BaseInv
<1>1. /\ phase = "open" /\ current = 0 /\ lock = {} /\ Call(t, Idle)
      /\ objs' = Append(objs, Obj(Empty, 0, "client")) /\ current' = Len(objs) + 1
      /\ \/ ext' = ext
         \/ ext # NONE /\ ext' = [o |-> Len(objs) + 1, n |-> ext.n, reused |-> TRUE]
      /\ UNCHANGED <<lock, status, last, told, queue, task, phase, throws, kind, lapses>>
  BY DEF GetConfiguration, Free, tracking, work, bounds
<1>2. /\ Goes(t, Idle) /\ frame[t].pc = "idle" /\ frame[t].pc \notin ClosePCs
      /\ calls' = calls + 1 /\ calls' \in 0 .. MaxCalls /\ \A o : ~ Clears(t, o)
  BY <1>0, <1>1, CallIs, IdleIs
<1>3. PICK c \in Nat : c = Len(objs) + 1
  BY <1>0 DEF TypeInv
<1>4. /\ objs' \in Seq(ObjType) /\ Len(objs') = c
      /\ \A x \in Ids : objs'[x] = objs[x]
      /\ objs'[c] = Obj(Empty, 0, "client")
  BY <1>0, <1>1, <1>3, MadeIs, AdminAssumption DEF TypeInv
<1>5. objs'[c].changeCount = 0 /\ ~ objs'[c].removed /\ objs'[c].admin
  BY <1>4 DEF Obj
<1>6. Len(objs) \in Nat /\ Len(objs') >= Len(objs) /\ \A x \in 1 .. Len(objs') : x = c \/ x \in Ids
  BY <1>0, <1>3, <1>4 DEF TypeInv, Ids
<1>7. BaseInv'
  <2>1. \A x \in Ids : objs[x].changeCount \in Nat /\ objs[x].changeCount <= calls
    BY <1>0, ObjIs DEF TypeInv
  <2>2. calls \in Nat
    BY <1>0 DEF TypeInv
  <2>3. \A x \in 1 .. Len(objs') : objs'[x].changeCount <= calls'
    BY <1>2, <1>4, <1>5, <1>6, <2>1, <2>2
  <2>4. \A x \in Ids : /\ objs'[x].changeCount >= objs[x].changeCount
                       /\ objs'[x].changeCount = objs[x].changeCount => objs'[x].by = objs[x].by
    BY <1>4, <2>1
  <2>5. ExtInv'
    <3>1. CASE ext' = ext
      BY <1>0, <1>1, <1>4, <1>6, <2>4, <3>1, ExtKeeps
    <3>2. CASE ext # NONE /\ ext' = [o |-> Len(objs) + 1, n |-> ext.n, reused |-> TRUE]
      <4>1. ext.n \in Nat /\ ext.n <= MaxCalls
        BY <1>0, <3>2 DEF ExtInv
      <4>2. ext'.o = c /\ ext'.n = ext.n /\ ext'.reused = TRUE /\ c \in 1 .. Len(objs')
        BY <1>3, <1>4, <1>6, <3>2
      <4>3. QED
        BY <4>1, <4>2 DEF ExtInv, Ids
    <3>3. QED
      BY <1>1, <3>1, <3>2
  <2>6. ~ Swapped
    BY <1>0, <1>1 DEF Swapped, CloseInv, ClosePCs
  <2>7. \A x \in 1 .. Len(objs') : objs'[x].admin =>
              \/ current' = x
              \/ x \in Ids /\ objs[x].admin /\ current # x /\ ~ Clears(t, x)
    BY <1>1, <1>2, <1>3, <1>4, <1>6 DEF Ids
  <2>8. current' \in 0 .. Len(objs')
    BY <1>1, <1>3, <1>4
  <2>9. Idle.pc \notin ClosePCs
    BY IdleIs DEF ClosePCs
  <2>10. lapses \subseteq lapses' /\ lapses' \subseteq Lapses
    BY <1>0, <1>1 DEF TypeInv
  <2>11. UNCHANGED <<lock, status, last, told, queue, task, phase, throws, kind>> /\ phase = "open" /\ lock' = {}
    BY <1>1
  <2>12. QED
    BY <1>0, <1>2, <1>4, <1>6, <2>3, <2>5, <2>6, <2>7, <2>8, <2>9, <2>10, <2>11, IdleIs, BaseStep
<1>8. ASSUME NewsOK PROVE NewsOK'
  <2>1. Untold /\ QueueKeeps
    BY <1>0, <1>1, SameQueue DEF Untold
  <2>2. Hands(t, Idle)
    BY <1>2 DEF Hands, WillPost
  <2>3. Zero /\ Zero'
    BY <1>1, <1>3, <1>5 DEF Zero, Count
  <2>4. LiveInv' /\ ZeroInv' /\ TellerInv' /\ SayInv' /\ FirstInv' /\ NewsInv' /\ OneWorker'
    BY <1>2, <1>8, <2>1, <2>2, <2>3, ZeroTell DEF NewsOK
  <2>5. ObjsInv'
    <3>1. ObjsInv /\ NumbersInv' /\ Idle.pc = "idle"
      BY <1>7, <1>8, IdleIs DEF NewsOK, BaseInv
    <3>2. current = 0 /\ current' = c /\ queue' = queue /\ task' = task
      BY <1>1, <1>3
    <3>3. QED
      BY <1>0, <1>2, <1>3, <1>4, <1>5, <3>1, <3>2, ObjsMade
  <2>6. AddingInv'
    BY <1>1, <1>2, <1>8, IdleIs, AddingFree DEF NewsOK
  <2>7. QED
    BY <2>4, <2>5, <2>6 DEF NewsOK
<1>9. QED
  BY <1>0, <1>1, <1>7, <1>8 DEF IInv, TellInv

\* The current configuration is written.
LEMMA ObjsWritten ==
    ASSUME TypeInv, NumbersInv, ObjsInv, queue' = queue, task' = task, NEW t \in Threads, NEW f, Goes(t, f),
           frame[t].pc = "idle", f.pc \in {"notify", "post"}, NEW c \in Ids, current = c, current' = c, f.o = c,
           Len(objs') = Len(objs), ~ objs[c].removed,
           \A x \in Ids : objs'[x].removed = objs[x].removed /\ objs'[x].admin = objs[x].admin,
           NEW m \in Nat, objs[c].changeCount = m, objs'[c].changeCount = m + 1, f.pc = "post" => f.n = m + 1
    PROVE  ObjsInv'
<1>0. /\ frame'[t] = f /\ \A u \in Threads : u # t => frame'[u] = frame[u]
      /\ Ids' = Ids /\ Count = m /\ Count' = m + 1 /\ c # 0
  BY DEF Goes, Ids, Count
<1>1. \A u \in Threads : frame[u].pc \in {"removing", "removed"} => frame[u].o \in Ids
  BY DEF NumbersInv
<1>2. \A x \in Ids : ~ objs'[x].removed => x = c
  BY DEF ObjsInv
<1>3. \A n \in 1 .. m : n \in 1 .. m + 1
  OBVIOUS
<1>4. ASSUME NEW u \in Threads
      PROVE  /\ frame'[u].pc \in {"removing", "removed"} => objs'[frame'[u].o].removed
             /\ frame'[u].pc = "invalidate" => frame'[u].old # c
             /\ frame'[u].pc = "removed" => frame'[u].o # c
             /\ frame'[u].pc \in {"post", "invalidate"} /\ frame'[u].o = c => frame'[u].n \in 1 .. m + 1
             /\ frame'[u].pc = "notify" /\ frame'[u].o = c => m + 1 > 0
  <2>1. CASE u = t
    BY <1>0, <2>1
  <2>2. CASE u # t
    BY <1>0, <1>1, <1>3, <2>2 DEF ObjsInv
  <2>3. QED
    BY <2>1, <2>2
<1>5. \A i \in 1 .. Len(queue) : IsLookup(queue[i]) /\ queue[i].o = c => queue[i].n \in 1 .. m + 1
  BY <1>0, <1>3 DEF ObjsInv
<1>6. \A w \in Workers : IsLookup(task[w]) /\ task[w].o = c => task[w].n \in 1 .. m + 1
  BY <1>0, <1>3 DEF ObjsInv
<1>7. objs'[c].admin /\ ~ objs'[c].removed
  BY <1>0 DEF ObjsInv
<1>8. QED
  BY <1>0, <1>2, <1>4, <1>5, <1>6, <1>7 DEF ObjsInv

\* A thread that was idle has written the current configuration, and is to announce it.
LEMMA WriteKeeps ==
    ASSUME TypeInv, NumbersInv, NewsOK, queue' = queue, Untold, NEW t \in Threads, NEW f, Goes(t, f), frame[t] = Idle,
           NEW c \in Ids, current = c, current' = c, f.o = c, NEW p \in Props, NEW by \in {"client", "bundle"},
           ~ objs[c].removed, objs' = Written(c, p, by),
           \/ f.pc = "notify"
           \/ f.pc = "post" /\ f.n = objs[c].changeCount + 1,
           AddingInv'
    PROVE  NewsOK'
<1>1. /\ objs' \in Seq(ObjType) /\ Len(objs') = Len(objs)
      /\ \A x \in Ids : x # c => objs'[x] = objs[x]
      /\ objs'[c].changeCount = objs[c].changeCount + 1 /\ objs'[c].props = p
      /\ objs'[c].removed = objs[c].removed /\ objs'[c].admin = objs[c].admin
  BY WrittenIs DEF TypeInv
<1>2. PICK m \in Nat : m = objs[c].changeCount
  BY ObjIs DEF TypeInv
<1>3. Count = m /\ Count' = m + 1 /\ c # 0 /\ Live' /\ frame[t].pc = "idle"
  BY <1>1, <1>2 DEF Count, Live, Ids, Idle
<1>4. (Live /\ Count' = Count + 1) \/ Zero
  BY <1>2, <1>3 DEF Live, Zero
<1>5. Writes(t, f)
  BY <1>2, <1>3 DEF Writes
<1>6. task' = task
  BY DEF Untold
<1>7. ObjsInv'
  <2>1. \A x \in Ids : objs'[x].removed = objs[x].removed /\ objs'[x].admin = objs[x].admin
    BY <1>1
  <2>2. f.pc = "post" => f.n = m + 1
    BY <1>2
  <2>3. ObjsInv /\ objs[c].changeCount = m /\ objs'[c].changeCount = m + 1 /\ f.pc \in {"notify", "post"}
    BY <1>1, <1>2 DEF NewsOK
  <2>4. QED
    BY <1>1, <1>3, <1>6, <2>1, <2>2, <2>3, ObjsWritten
<1>8. LiveInv' /\ ZeroInv' /\ TellerInv' /\ SayInv' /\ FirstInv' /\ NewsInv' /\ OneWorker'
  <2>1. current' = current /\ Count' \in Nat
    BY <1>3
  <2>2. QED
    BY <1>3, <1>4, <1>5, <2>1, WriteTell DEF NewsOK
<1>9. QED
  BY <1>7, <1>8 DEF NewsOK

LEMMA UpdatePropsKeeps ==
    ASSUME IInv, NEW t \in Threads, NEW p \in Props, UpdateProps(t, p) PROVE IInv'
<1>0. BaseInv /\ TypeInv /\ NumbersInv /\ ExtInv /\ CloseInv /\ SwappedInv /\ AdminInv /\ GoneInv /\ TellInv
  BY DEF IInv, BaseInv
<1>1. PICK o \in Ids : ~ objs[o].removed /\ objs' = Written(o, p, "client") /\ Call(t, [pc |-> "notify", o |-> o])
  BY DEF UpdateProps, Ids
<1>2. UNCHANGED <<current, lock, status, last, told, queue, task, ext, phase, throws, kind, lapses>>
  BY DEF UpdateProps, tracking, work, bounds
<1>3. PICK f : f = [pc |-> "notify", o |-> o]
  OBVIOUS
<1>4. f.pc = "notify" /\ f.o = o /\ f \in FrameType
  <2>1. o \in Nat
    BY DEF Ids
  <2>2. f \in FrameType
    BY <1>3, <2>1, FramesAre
  <2>3. QED
    BY <1>3, <2>2
<1>5. /\ Goes(t, f) /\ frame[t] = Idle /\ frame[t].pc = "idle" /\ frame[t].pc \notin ClosePCs
      /\ calls' = calls + 1 /\ calls' \in 0 .. MaxCalls /\ \A x : ~ Clears(t, x)
  BY <1>0, <1>1, <1>3, <1>4, CallIs
<1>6. /\ objs' \in Seq(ObjType) /\ Len(objs') = Len(objs)
      /\ \A x \in Ids : x # o => objs'[x] = objs[x]
      /\ objs'[o].changeCount = objs[o].changeCount + 1 /\ objs'[o].props = p
      /\ objs'[o].removed = objs[o].removed /\ objs'[o].admin = objs[o].admin
  BY <1>0, <1>1, WrittenIs DEF TypeInv
<1>7. Len(objs) \in Nat /\ Len(objs') >= Len(objs) /\ Ids' = Ids
  BY <1>0, <1>6 DEF TypeInv, Ids
<1>8. \A x \in Ids : objs[x].changeCount \in Nat /\ objs[x].changeCount <= calls
  BY <1>0, ObjIs DEF TypeInv
<1>9. BaseInv'
  <2>1. calls \in Nat
    BY <1>0 DEF TypeInv
  <2>2. \A x \in 1 .. Len(objs') : objs'[x].changeCount <= calls'
    BY <1>5, <1>6, <1>7, <1>8, <2>1 DEF Ids
  <2>3. \A x \in Ids : /\ objs'[x].changeCount >= objs[x].changeCount
                       /\ objs'[x].changeCount = objs[x].changeCount => objs'[x].by = objs[x].by
    BY <1>6, <1>8
  <2>4. ExtInv'
    BY <1>0, <1>2, <1>6, <1>7, <2>3, ExtKeeps
  <2>5. Swapped => current' = 0
    BY <1>0, <1>2 DEF SwappedInv
  <2>6. \A x \in 1 .. Len(objs') : objs'[x].admin =>
              \/ current' = x
              \/ x \in Ids /\ objs[x].admin /\ current # x /\ ~ Clears(t, x)
    BY <1>2, <1>5, <1>6, <1>7 DEF Ids
  <2>7. f.pc \notin ClosePCs /\ f.pc \in {"idle", "notify", "removing", "removed"} /\ f.pc # "removed"
    BY <1>4 DEF ClosePCs
  <2>8. lapses \subseteq lapses' /\ lapses' \subseteq Lapses /\ current' \in 0 .. Len(objs')
    BY <1>0, <1>2, <1>6 DEF TypeInv
  <2>9. /\ lock' = {} \/ \E u \in Threads : lock' = {u}
        /\ Numbers(f, Len(objs'))
    BY <1>0, <1>2, <1>4, <1>6 DEF TypeInv, Numbers, Ids
  <2>10. QED
    BY <1>0, <1>2, <1>4, <1>5, <1>6, <1>7, <2>2, <2>4, <2>5, <2>6, <2>7, <2>8, <2>9, BaseStep
<1>10. ASSUME NewsOK PROVE NewsOK'
  <2>1. Untold
    BY <1>2 DEF Untold
  <2>2. o = current /\ AddingInv
    BY <1>1, <1>10 DEF NewsOK, ObjsInv
  <2>3. PICK m \in Nat : m = objs[o].changeCount
    BY <1>8
  <2>4. Count = m /\ Count' = m + 1
    BY <1>2, <1>6, <2>2, <2>3 DEF Count
  <2>5. Announced'
    BY <1>2, <1>4, <1>5, <2>2 DEF Announced, Goes
  <2>6. AddingInv'
    <3>1. SUFFICES ASSUME NEW u \in Threads, frame'[u].pc = "adding"
                   PROVE  /\ lock' = {u} /\ status'[frame'[u].s] = "new"
                          /\ frame'[u].o \in {0, current'}
                          /\ frame'[u].o # 0 => /\ Count' > 0 /\ frame'[u].n <= Count'
                                                /\ Live' /\ frame'[u].n = Count' => frame'[u].p = Value'
      BY <2>5 DEF AddingInv
    <3>2. u # t /\ frame'[u] = frame[u] /\ frame[u].pc = "adding" /\ frame[u] \in FrameType
      BY <1>0, <1>4, <1>5, <3>1 DEF Goes, TypeInv
    <3>3. frame[u].n \in Nat
      BY <3>2, FrameFacts
    <3>4. /\ lock = {u} /\ status[frame[u].s] = "new" /\ frame[u].o \in {0, current}
          /\ frame[u].o # 0 => frame[u].n <= m
      BY <2>2, <2>4, <3>2 DEF AddingInv
    <3>5. frame[u].o # 0 => frame[u].n <= m + 1 /\ frame[u].n # m + 1 /\ m + 1 > 0
      BY <3>3, <3>4
    <3>6. QED
      BY <1>2, <2>4, <3>2, <3>4, <3>5
  <2>7. QED
    BY <1>0, <1>1, <1>2, <1>4, <1>5, <1>10, <2>1, <2>2, <2>6, WriteKeeps
<1>11. QED
  BY <1>0, <1>2, <1>9, <1>10 DEF IInv, TellInv

\* A configuration is made, and the one that was current is out.
LEMMA MadeStep ==
    ASSUME BaseInv, phase = "open", NEW t \in Threads, NEW f \in FrameType, Call(t, f), f.pc \notin ClosePCs,
           NEW p \in Props, NEW n \in {0, 1}, NEW by \in {"client", "bundle"}, objs' = Append(objs, Obj(p, n, by)),
           NEW c \in Nat, c = Len(objs) + 1, current' = c, Numbers(f, c),
           UNCHANGED <<kind, status, last, told, task, queue, phase, throws>>, lock' = {},
           lapses \subseteq lapses', lapses' \subseteq Lapses, NEW d, d = current, d = 0 \/ Clears(t, d)', ExtInv'
    PROVE  BaseInv'
<1>0. TypeInv /\ CloseInv
  BY DEF BaseInv
<1>2. /\ Goes(t, f) /\ frame[t].pc = "idle" /\ frame[t].pc \notin ClosePCs
      /\ calls' = calls + 1 /\ calls' \in 0 .. MaxCalls /\ \A o : ~ Clears(t, o)
  BY <1>0, CallIs
<1>4. /\ objs' \in Seq(ObjType) /\ Len(objs') = c
      /\ \A x \in Ids : objs'[x] = objs[x]
      /\ objs'[c] = Obj(p, n, by)
  BY <1>0, MadeIs DEF TypeInv
<1>5. objs'[c].changeCount \in {0, 1}
  BY <1>4 DEF Obj
<1>6. Len(objs) \in Nat /\ Len(objs') >= Len(objs) /\ \A x \in 1 .. Len(objs') : x = c \/ x \in Ids
  BY <1>0, <1>4 DEF TypeInv, Ids
<1>11. \A x \in Ids : objs[x].changeCount \in Nat /\ objs[x].changeCount <= calls
  BY <1>0, ObjIs DEF TypeInv
<1>12. calls \in Nat
  BY <1>0 DEF TypeInv
<1>13. \A x \in 1 .. Len(objs') : objs'[x].changeCount <= calls'
  BY <1>2, <1>4, <1>5, <1>6, <1>11, <1>12
<1>16. ~ Swapped
  BY <1>0 DEF Swapped, CloseInv, ClosePCs
<1>17. ASSUME NEW x \in 1 .. Len(objs'), objs'[x].admin
      PROVE  \/ current' = x \/ Clears(t, x)'
             \/ x \in Ids /\ objs[x].admin /\ current # x /\ ~ Clears(t, x)
  <2>1. d = x => Clears(t, x)'
    BY <1>6 DEF Ids
  <2>2. QED
    BY <1>2, <1>4, <1>6, <1>17, <2>1
<1>18. current' \in 0 .. Len(objs')
  BY <1>4
<1>22. QED
  BY <1>2, <1>4, <1>6, <1>13, <1>16, <1>17, <1>18, BaseStep

LEMMA AddConfigurationsKeeps ==
    ASSUME IInv, NEW t \in Threads, NEW p \in Props, AddConfigurations(t, p) PROVE IInv'
<1>0. BaseInv /\ TypeInv /\ NumbersInv /\ ExtInv /\ CloseInv /\ SwappedInv /\ AdminInv /\ GoneInv /\ TellInv
  BY DEF IInv, BaseInv
<1>1. /\ phase = "open" /\ lock = {} /\ lock' = {}
      /\ UNCHANGED <<lock, status, last, told, queue, task, phase, throws, kind>>
  BY DEF AddConfigurations, Free, tracking, work, bounds
<1>2. PICK c \in Nat : c = Len(objs) + 1
  BY <1>0 DEF TypeInv
<1>3. Len(objs) \in Nat /\ c \notin Ids /\ c # 0 /\ (current # 0 => current \in Ids) /\ MaxCalls \in Nat
  BY <1>0, <1>2, AdminAssumption DEF TypeInv, Ids
<1>4. NewsOK => Untold
  BY <1>1 DEF Untold
<1>5. CASE /\ current = 0
           /\ objs' = Append(objs, Obj(p, 1, "bundle")) /\ current' = c
           /\ ext' = [o |-> c, n |-> 1, reused |-> FALSE]
           /\ Call(t, [pc |-> "post", o |-> c, n |-> 1])
           /\ UNCHANGED lapses
  <2>1. PICK f : f = [pc |-> "post", o |-> c, n |-> 1]
    OBVIOUS
  <2>2. f \in FrameType /\ f.pc = "post" /\ f.o = c /\ f.n = 1
    <3>1. f \in FrameType
      BY <2>1, FramesAre
    <3>2. QED
      BY <2>1, <3>1
  <2>3. /\ Goes(t, f) /\ frame[t] = Idle /\ frame[t].pc = "idle"
        /\ calls' = calls + 1 /\ calls' \in 0 .. MaxCalls /\ \A o : ~ Clears(t, o)
    BY <1>0, <1>5, <2>1, <2>2, CallIs
  <2>4. /\ objs' \in Seq(ObjType) /\ Len(objs') = c
        /\ \A x \in Ids : objs'[x] = objs[x]
        /\ objs'[c] = Obj(p, 1, "bundle")
    BY <1>0, <1>2, <1>5, MadeIs DEF TypeInv
  <2>5. objs'[c].changeCount = 1 /\ ~ objs'[c].removed /\ objs'[c].admin /\ objs'[c].by = "bundle"
    BY <2>4 DEF Obj
  <2>6. ExtInv'
    <3>1. 1 <= MaxCalls
      BY <1>0, <1>3, <2>3 DEF TypeInv
    <3>2. ext'.o = c /\ ext'.n = 1 /\ c \in 1 .. Len(objs')
      BY <1>3, <1>5, <2>4
    <3>3. QED
      BY <2>5, <3>1, <3>2 DEF ExtInv, Brought, Ids
  <2>7. BaseInv'
    <3>1. f.pc \notin ClosePCs
      BY <2>2 DEF ClosePCs
    <3>2. Numbers(f, c)
      <4>1. calls \in Nat /\ calls + 1 <= MaxCalls /\ c \in 1 .. c
        BY <1>0, <1>3, <2>3 DEF TypeInv
      <4>2. QED
        BY <1>3, <2>2, <4>1 DEF Numbers
    <3>3. lapses \subseteq lapses' /\ lapses' \subseteq Lapses
      BY <1>0, <1>5 DEF TypeInv
    <3>4. /\ Call(t, f) /\ objs' = Append(objs, Obj(p, 1, "bundle")) /\ current = 0 /\ current' = c
          /\ 1 \in {0, 1} /\ "bundle" \in {"client", "bundle"}
      BY <1>5, <2>1
    <3>5. PICK d : d = current /\ d = 0
      BY <3>4
    <3>6. QED
      BY <1>0, <1>1, <1>2, <2>2, <2>6, <3>1, <3>2, <3>3, <3>4, <3>5, MadeStep
  <2>8. ASSUME NewsOK PROVE NewsOK'
    <3>1. Live' /\ Zero /\ Count' = 1
      <4>1. current = 0 /\ current' = c
        BY <1>5
      <4>2. QED
        BY <1>3, <2>5, <4>1 DEF Live, Zero, Count
    <3>2. Writes(t, f)
      BY <1>5, <2>2, <2>3, <3>1 DEF Writes
    <3>3. LiveInv' /\ ZeroInv' /\ TellerInv' /\ SayInv' /\ FirstInv' /\ NewsInv' /\ OneWorker'
      <4>1. Count' \in Nat /\ current' \notin Ids
        BY <1>3, <1>5, <3>1
      <4>2. QED
        BY <1>0, <1>1, <1>4, <2>8, <3>1, <3>2, <4>1, WriteTell DEF NewsOK
    <3>4. ObjsInv'
      <4>1. ObjsInv /\ NumbersInv' /\ f.n \in 1 .. objs'[c].changeCount
        BY <2>2, <2>5, <2>7, <2>8 DEF NewsOK, BaseInv
      <4>2. current = 0 /\ current' = c /\ queue' = queue /\ task' = task /\ f.pc \in {"idle", "post"}
        BY <1>1, <1>5, <2>2
      <4>3. QED
        BY <1>0, <1>2, <2>3, <2>4, <2>5, <4>1, <4>2, ObjsMade
    <3>5. AddingInv'
      BY <1>1, <2>2, <2>3, <2>8, AddingFree DEF NewsOK
    <3>6. QED
      BY <3>3, <3>4, <3>5 DEF NewsOK
  <2>9. QED
    BY <1>0, <1>1, <1>5, <2>7, <2>8 DEF IInv, TellInv
<1>6. CASE /\ current # 0
           /\ ext' = [o |-> current, n |-> 0, reused |-> FALSE] /\ Call(t, Idle)
           /\ UNCHANGED <<objs, current, lapses>>
  <2>1. /\ Goes(t, Idle) /\ frame[t].pc = "idle" /\ frame[t].pc \notin ClosePCs
        /\ calls' = calls + 1 /\ calls' \in 0 .. MaxCalls /\ \A o : ~ Clears(t, o)
    BY <1>0, <1>6, CallIs, IdleIs
  <2>2. SameObjs
    BY <1>0, <1>6 DEF SameObjs, TypeInv
  <2>3. ExtInv'
    <3>1. objs[current].changeCount \in Nat
      BY <1>0, <1>3, <1>6, ObjIs DEF TypeInv
    <3>2. ext'.o = current /\ ext'.n = 0
      BY <1>6
    <3>3. QED
      BY <1>3, <1>6, <3>1, <3>2 DEF ExtInv, Brought, Ids
  <2>4. calls' >= calls
    BY <1>0, <2>1 DEF TypeInv
  <2>5. /\ status' \in [Services -> {"new", "tracked", "removed"}]
        /\ \A r \in Services : status'[r] = status[r]
    BY <1>0, <1>1 DEF TypeInv
  <2>6. NewsOK => Hands(t, Idle) /\ (current # 0 => objs'[current].admin)
    BY <1>6, <2>1 DEF Hands, WillPost, NewsOK, ObjsInv
  <2>7. UNCHANGED <<objs, current, lapses>>
    BY <1>6
  <2>8. QED
    BY <1>1, <2>1, <2>2, <2>3, <2>4, <2>5, <2>6, <2>7, IdleIs, QuietStep
<1>7. CASE /\ current # 0 /\ ~ objs[current].removed
           /\ objs' = Written(current, p, "bundle")
           /\ ext' = [o |-> current, n |-> objs[current].changeCount + 1, reused |-> FALSE]
           /\ Call(t, [pc |-> "post", o |-> current, n |-> objs[current].changeCount + 1])
           /\ UNCHANGED <<current, lapses>>
  <2>1. PICK o \in Ids : o = current /\ o = current'
    BY <1>3, <1>7
  <2>2. PICK m \in Nat : m = objs[o].changeCount
    BY <1>0, ObjIs DEF TypeInv
  <2>3. PICK f : f = [pc |-> "post", o |-> o, n |-> m + 1]
    OBVIOUS
  <2>4. f \in FrameType /\ f.pc = "post" /\ f.o = o /\ f.n = m + 1
    <3>1. o \in Nat /\ m + 1 \in Nat
      BY DEF Ids
    <3>2. f \in FrameType
      BY <2>3, <3>1, FramesAre
    <3>3. QED
      BY <2>3, <3>2
  <2>5. /\ Call(t, f) /\ objs' = Written(o, p, "bundle") /\ ~ objs[o].removed
        /\ ext' = [o |-> o, n |-> m + 1, reused |-> FALSE]
    BY <1>7, <2>1, <2>2, <2>3
  <2>6. /\ Goes(t, f) /\ frame[t] = Idle /\ frame[t].pc = "idle" /\ frame[t].pc \notin ClosePCs
        /\ calls' = calls + 1 /\ calls' \in 0 .. MaxCalls /\ \A x : ~ Clears(t, x)
    BY <1>0, <2>4, <2>5, CallIs
  <2>7. /\ objs' \in Seq(ObjType) /\ Len(objs') = Len(objs)
        /\ \A x \in Ids : x # o => objs'[x] = objs[x]
        /\ objs'[o].changeCount = m + 1 /\ objs'[o].by = "bundle"
        /\ objs'[o].removed = objs[o].removed /\ objs'[o].admin = objs[o].admin
    BY <1>0, <2>2, <2>5, WrittenIs DEF TypeInv
  <2>8. \A x \in Ids : objs[x].changeCount \in Nat /\ objs[x].changeCount <= calls
    BY <1>0, ObjIs DEF TypeInv
  <2>9. calls \in Nat /\ m + 1 <= calls' /\ m + 1 <= MaxCalls /\ Len(objs') >= Len(objs)
    <3>1. calls \in Nat /\ MaxCalls \in Nat /\ m \in Nat /\ m <= calls
      BY <1>0, <1>3, <2>2, <2>8 DEF TypeInv
    <3>2. calls' = calls + 1 /\ calls' \in 0 .. MaxCalls /\ Len(objs') = Len(objs) /\ Len(objs) \in Nat
      BY <1>0, <2>6, <2>7 DEF TypeInv
    <3>3. QED
      BY <3>1, <3>2
  <2>10. BaseInv'
    <3>1. \A x \in 1 .. Len(objs') : objs'[x].changeCount <= calls'
      BY <2>6, <2>7, <2>8, <2>9 DEF Ids
    <3>2. ExtInv'
      <4>1. ext'.o = o /\ ext'.n = m + 1 /\ o \in 1 .. Len(objs')
        BY <2>5, <2>7 DEF Ids
      <4>2. QED
        BY <2>7, <2>9, <4>1 DEF ExtInv, Brought, Ids
    <3>3. ~ Swapped
      BY <1>0, <1>1 DEF Swapped, CloseInv, ClosePCs
    <3>4. \A x \in 1 .. Len(objs') : objs'[x].admin =>
              \/ current' = x
              \/ x \in Ids /\ objs[x].admin /\ current # x /\ ~ Clears(t, x)
      BY <2>1, <2>6, <2>7 DEF Ids
    <3>5. f.pc \notin ClosePCs /\ Numbers(f, Len(objs'))
      BY <2>4, <2>7, <2>9 DEF ClosePCs, Numbers, Ids
    <3>6. lapses \subseteq lapses' /\ lapses' \subseteq Lapses /\ current' \in 0 .. Len(objs')
      BY <1>0, <1>7, <2>7 DEF TypeInv
    <3>7. QED
      BY <1>0, <1>1, <2>4, <2>6, <2>7, <2>9, <3>1, <3>2, <3>3, <3>4, <3>5, <3>6, BaseStep
  <2>11. ASSUME NewsOK PROVE NewsOK'
    <3>1. AddingInv'
      BY <1>1, <2>4, <2>6, <2>11, AddingFree DEF NewsOK
    <3>2. f.n = objs[o].changeCount + 1 /\ "bundle" \in {"client", "bundle"}
      BY <2>2, <2>4
    <3>3. QED
      BY <1>0, <1>1, <1>4, <2>1, <2>4, <2>5, <2>6, <2>11, <3>1, <3>2, WriteKeeps
  <2>12. QED
    BY <1>0, <1>1, <1>7, <2>10, <2>11 DEF IInv, TellInv
<1>8. CASE /\ current # 0
           /\ objs' = Append(objs, Obj(p, 0, "bundle")) /\ current' = c
           /\ ext' = [o |-> c, n |-> 0, reused |-> FALSE] /\ lapses' = lapses \cup {"uncounted"}
           /\ Call(t, [pc |-> "invalidate", old |-> current, o |-> c, n |-> 0])
  <2>1. PICK d \in Ids : d = current
    BY <1>3, <1>8
  <2>2. PICK f : f = [pc |-> "invalidate", old |-> d, o |-> c, n |-> 0]
    OBVIOUS
  <2>3. f \in FrameType /\ f.pc = "invalidate" /\ f.old = d /\ f.o = c /\ f.n = 0
    <3>1. d \in Nat /\ 0 \in Nat
      BY DEF Ids
    <3>2. f \in FrameType
      BY <2>2, <3>1, FramesAre
    <3>3. QED
      BY <2>2, <3>2
  <2>4. /\ Call(t, f) /\ objs' = Append(objs, Obj(p, 0, "bundle")) /\ current' = c
        /\ 0 \in {0, 1} /\ "bundle" \in {"client", "bundle"}
    BY <1>8, <2>1, <2>2
  <2>5. Goes(t, f)
    BY <1>0, <2>3, <2>4, CallIs
  <2>6. objs' \in Seq(ObjType) /\ Len(objs') = c /\ objs'[c] = Obj(p, 0, "bundle")
    BY <1>0, <1>2, <2>4, MadeIs DEF TypeInv
  <2>7. ExtInv'
    <3>1. objs'[c].changeCount \in {0, 1}
      BY <2>6 DEF Obj
    <3>2. ext'.o = c /\ ext'.n = 0 /\ c \in 1 .. Len(objs')
      BY <1>3, <1>8, <2>6
    <3>3. QED
      BY <1>3, <3>1, <3>2 DEF ExtInv, Brought, Ids
  <2>8. BaseInv'
    <3>1. f.pc \notin ClosePCs
      BY <2>3 DEF ClosePCs
    <3>2. Numbers(f, c)
      BY <1>2, <1>3, <2>3 DEF Numbers, Ids
    <3>3. lapses \subseteq lapses' /\ lapses' \subseteq Lapses
      BY <1>0, <1>8 DEF TypeInv, Lapses
    <3>4. Clears(t, d)'
      BY <2>3, <2>5 DEF Clears, Goes
    <3>5. QED
      BY <1>0, <1>1, <1>2, <2>1, <2>3, <2>4, <2>7, <3>1, <3>2, <3>3, <3>4, MadeStep
  <2>9. QED
    BY <1>8, <2>8 DEF IInv, TellInv
<1>9. QED
  BY <1>2, <1>5, <1>6, <1>7, <1>8 DEF AddConfigurations

\* The current configuration is taken away.
LEMMA ObjsTaken ==
    ASSUME NumbersInv, ObjsInv, NumbersInv', current' = 0, queue' = queue, task' = task, NEW t \in Threads, NEW f, Goes(t, f),
           Len(objs') = Len(objs), \A x \in Ids : x = current \/ objs[x].removed => objs'[x].removed,
           f.pc \in {"removing", "removed"} => objs'[f.o].removed
    PROVE  ObjsInv'
<1>0. /\ frame'[t] = f /\ (\A u \in Threads : u # t => frame'[u] = frame[u]) /\ Ids' = Ids /\ 0 \notin Ids'
  BY DEF Goes, Ids
<1>1. \A x \in Ids : objs'[x].removed
  BY DEF ObjsInv
<1>2. \A u \in Threads :
        /\ frame'[u].pc \in {"notify", "removing", "removed", "post", "invalidate"} => frame'[u].o \in Ids'
        /\ frame'[u].pc = "invalidate" => frame'[u].old \in Ids'
  BY DEF NumbersInv
<1>3. \A i \in 1 .. Len(queue') : IsLookup(queue'[i]) => queue'[i].o \in Ids'
  BY DEF NumbersInv, IsLookup
<1>4. \A w \in Workers : IsLookup(task'[w]) => task'[w].o \in Ids'
  BY DEF NumbersInv, IsLookup
<1>5. QED
  BY <1>0, <1>1, <1>2, <1>3, <1>4 DEF ObjsInv

LEMMA RemoveConfigurationsKeeps ==
    ASSUME IInv, NEW t \in Threads, RemoveConfigurations(t) PROVE IInv'
<1>0. BaseInv /\ TypeInv /\ NumbersInv /\ ExtInv /\ CloseInv /\ SwappedInv /\ AdminInv /\ GoneInv /\ TellInv
  BY DEF IInv, BaseInv
<1>1. /\ phase = "open" /\ lock = {} /\ ext # NONE /\ ext' = NONE
      /\ UNCHANGED <<lock, status, last, told, queue, task, phase, throws, kind, lapses>>
  BY DEF RemoveConfigurations, Free, tracking, work, bounds
<1>2. PICK c \in Ids : c = ext.o
  BY <1>0, <1>1 DEF ExtInv
<1>3. PICK n \in Nat : n = ext.n /\ n <= MaxCalls
  BY <1>0, <1>1 DEF ExtInv
<1>4. ExtInv'
  BY <1>1 DEF ExtInv
<1>5. Len(objs) \in Nat /\ NONE \notin Nat
  BY <1>0, AdminAssumption DEF TypeInv
<1>6. Untold /\ QueueKeeps
  BY <1>0, <1>1, SameQueue DEF Untold
<1>7. CASE /\ current = c /\ objs' = [objs EXCEPT ![c].removed = TRUE] /\ current' = 0
           /\ Call(t, [pc |-> "invalidate", old |-> c, o |-> c, n |-> IF objs[c].changeCount > 0 THEN n ELSE NONE])
  <2>1. PICK m : m = IF objs[c].changeCount > 0 THEN n ELSE NONE
    OBVIOUS
  <2>2. PICK f : f = [pc |-> "invalidate", old |-> c, o |-> c, n |-> m]
    OBVIOUS
  <2>3. f \in FrameType /\ f.pc = "invalidate" /\ f.old = c /\ f.o = c /\ f.n = m
    <3>1. c \in Nat /\ m \in Nat \cup {NONE}
      BY <2>1 DEF Ids
    <3>2. f \in FrameType
      BY <2>2, <3>1, FramesAre
    <3>3. QED
      BY <2>2, <3>2
  <2>4. Call(t, f)
    BY <1>7, <2>1, <2>2
  <2>5. /\ Goes(t, f) /\ frame[t].pc = "idle" /\ frame[t].pc \notin ClosePCs
        /\ calls' = calls + 1 /\ calls' \in 0 .. MaxCalls /\ \A x : ~ Clears(t, x)
    BY <1>0, <2>3, <2>4, CallIs
  <2>6. /\ objs' \in Seq(ObjType) /\ Len(objs') = Len(objs)
        /\ \A x \in Ids : x # c => objs'[x] = objs[x]
        /\ objs'[c].removed /\ objs'[c].changeCount = objs[c].changeCount
    BY <1>0, <1>7, RemovedIs DEF TypeInv
  <2>7. BaseInv'
    <3>1. \A x \in Ids : objs[x].changeCount \in Nat /\ objs[x].changeCount <= calls /\ calls \in Nat
      BY <1>0, ObjIs DEF TypeInv
    <3>2. \A x \in 1 .. Len(objs') : objs'[x].changeCount <= calls'
      BY <2>5, <2>6, <3>1 DEF Ids
    <3>3. ~ Swapped
      BY <1>0, <1>1 DEF Swapped, CloseInv, ClosePCs
    <3>4. Clears(t, c)'
      BY <2>3, <2>5 DEF Clears, Goes
    <3>5. ASSUME NEW x \in 1 .. Len(objs'), objs'[x].admin
          PROVE  Clears(t, x)' \/ (x \in Ids /\ objs[x].admin /\ current # x /\ ~ Clears(t, x))
      <4>1. CASE x = c
        BY <3>4, <4>1
      <4>2. CASE x # c
        BY <1>7, <2>5, <2>6, <3>5, <4>2 DEF Ids
      <4>3. QED
        BY <4>1, <4>2
    <3>6. f.pc \notin ClosePCs /\ Numbers(f, Len(objs'))
      BY <1>3, <1>5, <2>1, <2>3, <2>6 DEF ClosePCs, Numbers, Ids
    <3>7. lapses \subseteq lapses' /\ lapses' \subseteq Lapses /\ current' \in 0 .. Len(objs') /\ Len(objs') >= Len(objs)
      BY <1>0, <1>1, <1>5, <1>7, <2>6 DEF TypeInv
    <3>8. QED
      BY <1>0, <1>1, <1>4, <2>3, <2>5, <2>6, <3>2, <3>3, <3>5, <3>6, <3>7, BaseStep
  <2>8. ASSUME NewsOK PROVE NewsOK'
    <3>1. Zero'
      BY <1>7 DEF Zero
    <3>2. LiveInv' /\ ZeroInv' /\ TellerInv' /\ SayInv' /\ FirstInv' /\ NewsInv' /\ OneWorker'
      <4>1. CASE objs[c].changeCount > 0
        <5>1. WillPost(t)'
          BY <1>5, <2>1, <2>3, <2>5, <4>1 DEF WillPost, Goes
        <5>2. QED
          BY <1>6, <2>8, <3>1, <5>1, GoneTell DEF NewsOK
      <4>2. CASE ~ (objs[c].changeCount > 0)
        <5>1. Zero
          BY <1>0, <1>7, <4>2, ObjIs DEF Zero, Count, TypeInv
        <5>2. Hands(t, f)
          BY <2>5 DEF Hands, WillPost
        <5>3. QED
          BY <1>6, <2>5, <2>8, <3>1, <5>1, <5>2, ZeroTell DEF NewsOK
      <4>3. QED
        BY <4>1, <4>2
    <3>3. ObjsInv'
      <4>1. \A x \in Ids : x = current \/ objs[x].removed => objs'[x].removed
        BY <1>7, <2>6
      <4>2. ObjsInv /\ NumbersInv' /\ current' = 0 /\ f.pc \notin {"removing", "removed"}
        BY <1>7, <2>3, <2>7, <2>8 DEF NewsOK, BaseInv
      <4>3. QED
        BY <1>0, <1>1, <2>5, <2>6, <4>1, <4>2, ObjsTaken
    <3>4. AddingInv'
      BY <1>1, <2>3, <2>5, <2>8, AddingFree DEF NewsOK
    <3>5. QED
      BY <3>2, <3>3, <3>4 DEF NewsOK
  <2>9. QED
    BY <1>0, <1>1, <2>7, <2>8 DEF IInv, TellInv
<1>8. CASE Call(t, Idle) /\ UNCHANGED <<objs, current>>
  <2>1. /\ Goes(t, Idle) /\ frame[t].pc = "idle" /\ frame[t].pc \notin ClosePCs
        /\ calls' = calls + 1 /\ calls' \in 0 .. MaxCalls /\ \A o : ~ Clears(t, o)
    BY <1>0, <1>8, CallIs, IdleIs
  <2>2. SameObjs
    BY <1>0, <1>8 DEF SameObjs, TypeInv
  <2>3. calls' >= calls
    BY <1>0, <2>1 DEF TypeInv
  <2>4. /\ status' \in [Services -> {"new", "tracked", "removed"}]
        /\ \A r \in Services : status'[r] = status[r]
    BY <1>0, <1>1 DEF TypeInv
  <2>5. NewsOK => Hands(t, Idle) /\ (current # 0 => objs'[current].admin)
    BY <1>8, <2>1 DEF Hands, WillPost, NewsOK, ObjsInv
  <2>6. QED
    BY <1>1, <1>4, <1>8, <2>1, <2>2, <2>3, <2>4, <2>5, IdleIs, QuietStep
<1>9. QED
  BY <1>2, <1>3, <1>7, <1>8 DEF RemoveConfigurations

LEMMA RemoveEraseKeeps ==
    ASSUME IInv, NEW t \in Threads, RemoveErase(t) PROVE IInv'
<1>0. BaseInv /\ TypeInv /\ NumbersInv /\ ExtInv /\ CloseInv /\ SwappedInv /\ AdminInv /\ GoneInv /\ TellInv
  BY DEF IInv, BaseInv
<1>1. /\ frame[t].pc = "removing" /\ lock = {} /\ frame[t].pc \notin ClosePCs
      /\ UNCHANGED <<lock, status, last, told, queue, task, ext, phase, calls, throws, kind, lapses>>
  BY DEF RemoveErase, At, Free, tracking, work, bounds, ClosePCs
<1>2. PICK o \in Ids : o = frame[t].o
  BY <1>0, <1>1 DEF NumbersInv
<1>3. Untold /\ QueueKeeps /\ \A x : ~ Clears(t, x)
  BY <1>0, <1>1, SameQueue DEF Untold, Clears
<1>4. Len(objs) \in Nat
  BY <1>0 DEF TypeInv
\* What the two branches that take the configuration away have in common.
<1>5. ASSUME current = o, current' = 0, NEW f \in FrameType, Goes(t, f), SameObjs,
             \A x \in Ids : objs'[x].admin => objs[x].admin /\ (x # o \/ Clears(t, x)'),
             \/ f.pc = "removed" /\ f.o = o
             \/ f.pc = "idle" /\ objs[o].changeCount = 0
      PROVE  IInv'
  <2>1. /\ objs' \in Seq(ObjType) /\ Len(objs') = Len(objs) /\ Len(objs') >= Len(objs)
        /\ f.pc \notin ClosePCs /\ f.pc \in {"idle", "removed"}
    BY <1>4, <1>5 DEF SameObjs, ClosePCs
  <2>2. BaseInv'
    <3>1. \A x \in 1 .. Len(objs') : objs'[x].changeCount <= calls'
      BY <1>0, <1>1, <1>5, <2>1 DEF TypeInv, Ids, SameObjs
    <3>2. ~ Swapped
      BY <1>0, <1>5 DEF SwappedInv, Ids
    <3>3. ExtInv'
      BY <1>0, <1>1, <1>5, SameObjsExt
    <3>4. ASSUME NEW x \in 1 .. Len(objs'), objs'[x].admin
          PROVE  Clears(t, x)' \/ (x \in Ids /\ objs[x].admin /\ current # x /\ ~ Clears(t, x))
      BY <1>3, <1>5, <2>1, <3>4 DEF Ids
    <3>5. Numbers(f, Len(objs'))
      BY <1>5, <2>1 DEF Numbers, Ids
    <3>6. lapses \subseteq lapses' /\ lapses' \subseteq Lapses /\ current' \in 0 .. Len(objs') /\ calls' \in 0 .. MaxCalls
      BY <1>0, <1>1, <1>4, <1>5, <2>1 DEF TypeInv
    <3>7. QED
      BY <1>0, <1>1, <1>5, <2>1, <3>1, <3>2, <3>3, <3>4, <3>5, <3>6, BaseStep
  <2>3. ASSUME NewsOK PROVE NewsOK'
    <3>1. Zero'
      BY <1>5 DEF Zero
    <3>2. LiveInv' /\ ZeroInv' /\ TellerInv' /\ SayInv' /\ FirstInv' /\ NewsInv' /\ OneWorker'
      <4>1. CASE f.pc = "removed"
        <5>1. WillPost(t)'
          BY <1>5, <4>1 DEF WillPost, Goes
        <5>2. QED
          BY <1>3, <2>3, <3>1, <5>1, GoneTell DEF NewsOK
      <4>2. CASE f.pc = "idle" /\ objs[o].changeCount = 0
        <5>1. Zero
          BY <1>5, <4>2 DEF Zero, Count
        <5>2. Hands(t, f)
          BY <1>1 DEF Hands, WillPost
        <5>3. QED
          BY <1>3, <1>5, <2>3, <3>1, <5>1, <5>2, ZeroTell DEF NewsOK
      <4>3. QED
        BY <1>5, <4>1, <4>2
    <3>3. ObjsInv'
      <4>0. ObjsInv /\ NumbersInv'
        BY <2>2, <2>3 DEF NewsOK, BaseInv
      <4>1. objs[o].removed
        BY <1>1, <1>2, <4>0 DEF ObjsInv
      <4>2. \A x \in Ids : x = current \/ objs[x].removed => objs'[x].removed
        BY <1>5, <4>1 DEF SameObjs
      <4>3. f.pc \in {"removing", "removed"} => objs'[f.o].removed
        BY <1>5, <4>1 DEF SameObjs
      <4>4. QED
        BY <1>0, <1>1, <1>5, <2>1, <4>0, <4>2, <4>3, ObjsTaken
    <3>4. AddingInv'
      BY <1>1, <1>5, <2>1, <2>3, AddingFree DEF NewsOK
    <3>5. QED
      BY <3>2, <3>3, <3>4 DEF NewsOK
  <2>4. QED
    BY <1>0, <1>1, <2>2, <2>3 DEF IInv, TellInv
<1>6. CASE objs' = [objs EXCEPT ![o].held = TRUE] /\ Do(t, [frame[t] EXCEPT !.pc = "removed"]) /\ current = o /\ current' = 0
  <2>1. PICK f : f = [frame[t] EXCEPT !.pc = "removed"]
    OBVIOUS
  <2>2. f = [pc |-> "removed", o |-> o]
    BY <1>0, <1>1, <1>2, <2>1, FrameFacts DEF TypeInv
  <2>3. f \in FrameType
    <3>1. o \in Nat
      BY DEF Ids
    <3>2. QED
      BY <2>2, <3>1, FramesAre
  <2>4. Goes(t, f) /\ f.pc = "removed" /\ f.o = o
    BY <1>0, <1>6, <2>1, <2>2, <2>3, DoIs DEF TypeInv, Goes
  <2>5. SameObjs /\ \A x \in Ids : objs'[x].admin = objs[x].admin
    BY <1>0, <1>6, HeldIs, ZenonT(60) DEF TypeInv, SameObjs
  <2>6. Clears(t, o)'
    BY <2>4 DEF Clears, Goes
  <2>7. \A x \in Ids : objs'[x].admin => objs[x].admin /\ (x # o \/ Clears(t, x)')
    BY <2>5, <2>6
  <2>8. QED
    BY <1>5, <1>6, <2>3, <2>4, <2>5, <2>7
<1>7. ASSUME objs' = [objs EXCEPT ![o].admin = FALSE], Do(t, Idle)
      PROVE  /\ Goes(t, Idle) /\ SameObjs /\ ~ objs'[o].admin
             /\ \A x \in Ids : x # o => objs'[x] = objs[x]
  BY <1>0, <1>7, DetachedIs, DoIs, IdleIs, ZenonT(60) DEF TypeInv, SameObjs, Goes
<1>8. CASE /\ objs' = [objs EXCEPT ![o].admin = FALSE] /\ Do(t, Idle) /\ current = o /\ current' = 0
           /\ objs[o].changeCount = 0
  <2>1. \A x \in Ids : objs'[x].admin => objs[x].admin /\ (x # o \/ Clears(t, x)')
    BY <1>7, <1>8
  <2>2. QED
    BY <1>5, <1>7, <1>8, <2>1, IdleIs
<1>9. CASE /\ objs' = [objs EXCEPT ![o].admin = FALSE] /\ Do(t, Idle) /\ current' = current
           /\ ~ (objs[o].admin /\ current = o)
  <2>1. \A x \in Ids : objs'[x].admin => objs[x].admin /\ ~ Clears(t, x)
    BY <1>3, <1>7, <1>9
  <2>2. ExtInv'
    BY <1>0, <1>1, <1>7, <1>9, SameObjsExt
  <2>3. /\ status' \in [Services -> {"new", "tracked", "removed"}]
        /\ \A r \in Services : status'[r] = status[r]
        /\ calls' \in 0 .. MaxCalls /\ calls' >= calls
    BY <1>0, <1>1 DEF TypeInv
  <2>4. Hands(t, Idle)
    BY <1>1 DEF Hands, WillPost
  <2>5. NewsOK => current # o /\ (current # 0 => objs'[current].admin)
    BY <1>0, <1>7, <1>9 DEF NewsOK, ObjsInv, TypeInv, Ids
  <2>6. UNCHANGED <<kind, current, lock, last, told, task, queue, phase, throws, lapses>> /\ SameObjs /\ Goes(t, Idle)
    BY <1>1, <1>7, <1>9
  <2>7. QED
    BY <1>1, <1>2, <2>1, <2>2, <2>3, <2>4, <2>5, <2>6, IdleIs, QuietStep
<1>10. objs[o].changeCount \in Nat
  BY <1>0, ObjIs DEF TypeInv
<1>11. QED
  BY <1>2, <1>6, <1>8, <1>9, <1>10 DEF RemoveErase

LEMMA RemoveKeeps ==
    ASSUME IInv, NEW t \in Threads, Remove(t) PROVE IInv'
<1>0. BaseInv /\ TypeInv /\ NumbersInv /\ ExtInv /\ CloseInv /\ SwappedInv /\ AdminInv /\ GoneInv /\ TellInv
  BY DEF IInv, BaseInv
<1>1. PICK o \in Ids : ~ objs[o].removed /\ objs' = [objs EXCEPT ![o].removed = TRUE] /\ Call(t, [pc |-> "removing", o |-> o])
  BY DEF Remove, Ids
<1>2. UNCHANGED <<current, lock, status, last, told, queue, task, ext, phase, throws, kind, lapses>>
  BY DEF Remove, tracking, work, bounds
<1>3. PICK f : f = [pc |-> "removing", o |-> o]
  OBVIOUS
<1>4. f \in FrameType /\ f.pc = "removing" /\ f.o = o
  <2>1. o \in Nat
    BY DEF Ids
  <2>2. f \in FrameType
    BY <1>3, <2>1, FramesAre
  <2>3. QED
    BY <1>3, <2>2
<1>5. /\ Goes(t, f) /\ frame[t] = Idle /\ frame[t].pc = "idle" /\ frame[t].pc \notin ClosePCs
      /\ calls' = calls + 1 /\ calls' \in 0 .. MaxCalls /\ \A x : ~ Clears(t, x)
  BY <1>0, <1>1, <1>3, <1>4, CallIs
<1>6. /\ objs' \in Seq(ObjType) /\ Len(objs') = Len(objs)
      /\ \A x \in Ids : x # o => objs'[x] = objs[x]
      /\ objs'[o].removed /\ objs'[o].props = objs[o].props
      /\ objs'[o].changeCount = objs[o].changeCount /\ objs'[o].by = objs[o].by
      /\ objs'[o].admin = objs[o].admin
  BY <1>0, <1>1, RemovedIs DEF TypeInv
<1>7. Len(objs) \in Nat /\ Len(objs') >= Len(objs) /\ Ids' = Ids /\ calls \in Nat
  BY <1>0, <1>6 DEF TypeInv, Ids
<1>8. \A x \in Ids : objs[x].changeCount \in Nat /\ objs[x].changeCount <= calls
  BY <1>0, ObjIs DEF TypeInv
<1>9. BaseInv'
  <2>1. \A x \in 1 .. Len(objs') : objs'[x].changeCount <= calls'
    BY <1>5, <1>6, <1>7, <1>8 DEF Ids
  <2>2. \A x \in Ids : /\ objs'[x].changeCount >= objs[x].changeCount
                       /\ objs'[x].changeCount = objs[x].changeCount => objs'[x].by = objs[x].by
    BY <1>6, <1>8
  <2>3. ExtInv'
    BY <1>0, <1>2, <1>6, <1>7, <2>2, ExtKeeps
  <2>4. Swapped => current' = 0
    BY <1>0, <1>2 DEF SwappedInv
  <2>5. \A x \in 1 .. Len(objs') : objs'[x].admin =>
              \/ current' = x
              \/ x \in Ids /\ objs[x].admin /\ current # x /\ ~ Clears(t, x)
    BY <1>2, <1>5, <1>6, <1>7 DEF Ids
  <2>6. f.pc \notin ClosePCs /\ f.pc \in {"idle", "notify", "removing", "removed"} /\ f.pc # "removed"
    BY <1>4 DEF ClosePCs
  <2>7. lapses \subseteq lapses' /\ lapses' \subseteq Lapses /\ current' \in 0 .. Len(objs')
    BY <1>0, <1>2, <1>6 DEF TypeInv
  <2>8. /\ lock' = {} \/ \E u \in Threads : lock' = {u}
        /\ Numbers(f, Len(objs'))
    BY <1>0, <1>2, <1>4, <1>6 DEF TypeInv, Numbers, Ids
  <2>9. QED
    BY <1>0, <1>2, <1>4, <1>5, <1>6, <1>7, <2>1, <2>3, <2>4, <2>5, <2>6, <2>7, <2>8, BaseStep
<1>10. ASSUME NewsOK PROVE NewsOK'
  <2>1. Untold /\ QueueKeeps
    BY <1>0, <1>2, SameQueue DEF Untold
  <2>2. o = current /\ o = current' /\ o # 0
    BY <1>1, <1>2, <1>10 DEF NewsOK, ObjsInv, Ids
  <2>3. Hands(t, f)
    BY <1>5 DEF Hands, WillPost
  <2>4. Count' = Count /\ Count \in Nat /\ Value' = Value /\ ~ Live'
    BY <1>6, <1>8, <2>2 DEF Count, Value, Live
  <2>5. LiveInv' /\ ZeroInv' /\ TellerInv' /\ SayInv' /\ FirstInv' /\ NewsInv' /\ OneWorker'
    <3>1. CASE Count = 0
      <4>1. Zero /\ Zero'
        BY <2>4, <3>1 DEF Zero
      <4>2. QED
        BY <1>5, <1>10, <2>1, <2>3, <4>1, ZeroTell DEF NewsOK
    <3>2. CASE Count # 0
      <4>1. ~ Zero'
        BY <2>2, <2>4, <3>2 DEF Zero
      <4>2. QED
        BY <1>10, <2>1, <2>4, <4>1, DyingTell DEF NewsOK
    <3>3. QED
      BY <3>1, <3>2
  <2>6. ObjsInv'
    <3>1. ObjsInv
      BY <1>10 DEF NewsOK
    <3>2. \A x \in Ids' : ~ objs'[x].removed => x = current'
      BY <1>6, <1>7, <2>2, <3>1 DEF ObjsInv
    <3>3. objs'[o].admin
      BY <1>6, <2>2, <3>1 DEF ObjsInv
    <3>4. frame'[t].pc = "removing" /\ frame'[t].o = o
      BY <1>4, <1>5 DEF Goes
    <3>5. \A x \in Ids : objs[x].removed => objs'[x].removed
      BY <1>6
    <3>6. ASSUME NEW u \in Threads
          PROVE  /\ frame'[u].pc \in {"removing", "removed"} => objs'[frame'[u].o].removed
                 /\ frame'[u].pc = "invalidate" => frame'[u].old # o
                 /\ frame'[u].pc = "removed" => frame'[u].o # o
                 /\ frame'[u].pc \in {"post", "invalidate"} /\ frame'[u].o = o => frame'[u].n \in 1 .. Count
                 /\ frame'[u].pc = "notify" /\ frame'[u].o = o => Count > 0
      <4>1. CASE u = t
        BY <1>6, <3>4, <4>1
      <4>2. CASE u # t
        <5>1. frame'[u] = frame[u] /\ (frame[u].pc \in {"removing", "removed"} => frame[u].o \in Ids)
          BY <1>0, <1>5, <4>2 DEF Goes, NumbersInv
        <5>2. QED
          BY <2>2, <3>1, <3>5, <5>1 DEF ObjsInv
      <4>3. QED
        BY <4>1, <4>2
    <3>7. \A i \in 1 .. Len(queue) : IsLookup(queue[i]) /\ queue[i].o = o => queue[i].n \in 1 .. Count
      BY <2>2, <3>1 DEF ObjsInv
    <3>8. \A w \in Workers : IsLookup(task[w]) /\ task[w].o = o => task[w].n \in 1 .. Count
      BY <2>2, <3>1 DEF ObjsInv
    <3>9. QED
      BY <1>2, <2>2, <2>4, <3>2, <3>3, <3>4, <3>6, <3>7, <3>8 DEF ObjsInv
  <2>7. AddingInv'
    <3>1. SUFFICES ASSUME NEW u \in Threads, frame'[u].pc = "adding"
                   PROVE  /\ lock' = {u} /\ status'[frame'[u].s] = "new"
                          /\ frame'[u].o \in {0, current'}
                          /\ frame'[u].o = 0 /\ current' # 0 /\ Count' > 0 => Announced'
                          /\ frame'[u].o # 0 => Count' > 0 /\ frame'[u].n <= Count'
      BY <2>4 DEF AddingInv
    <3>2. u # t /\ frame'[u] = frame[u] /\ frame[u].pc = "adding"
      BY <1>4, <1>5, <3>1 DEF Goes
    <3>3. /\ lock = {u} /\ status[frame[u].s] = "new" /\ frame[u].o \in {0, current}
          /\ frame[u].o = 0 /\ current # 0 /\ Count > 0 => Announced
          /\ frame[u].o # 0 => Count > 0 /\ frame[u].n <= Count
      BY <1>10, <3>2 DEF AddingInv, NewsOK
    <3>4. Announced => Announced'
      BY <1>2, <1>5, <2>1, <2>3, <2>4, AnnouncedGrows, KeepsAll
    <3>5. QED
      BY <1>2, <2>4, <3>2, <3>3, <3>4
  <2>8. QED
    BY <2>5, <2>6, <2>7 DEF NewsOK
<1>11. QED
  BY <1>0, <1>2, <1>9, <1>10 DEF IInv, TellInv

LEMMA AddingServiceKeeps ==
    ASSUME IInv, NEW t \in Threads, NEW s \in Services, AddingService(t, s) PROVE IInv'
<1>0. BaseInv /\ TypeInv /\ NumbersInv /\ ExtInv /\ CloseInv /\ SwappedInv /\ AdminInv /\ GoneInv /\ TellInv
  BY DEF IInv, BaseInv
<1>1. /\ phase = "open" /\ status[s] = "new" /\ lock = {} /\ lock' = {t}
      /\ UNCHANGED <<objs, current, status, last, told, queue, task, ext, phase, throws, kind, lapses>>
  BY DEF AddingService, Free, tracking, work, bounds
<1>2. PICK p, o, n : /\ p = IF current # 0 /\ ~ objs[current].removed THEN objs[current].props ELSE Empty
                     /\ o = IF current # 0 /\ objs[current].changeCount > 0 THEN current ELSE 0
                     /\ n = IF current # 0 /\ ~ objs[current].removed THEN objs[current].changeCount ELSE 0
  OBVIOUS
<1>3. current # 0 => /\ current \in Ids /\ objs[current].props \in Props /\ objs[current].changeCount \in Nat
                     /\ objs[current].changeCount <= calls
  BY <1>0, ObjIs DEF TypeInv, Ids
<1>4. Len(objs) \in Nat /\ calls \in 0 .. MaxCalls /\ MaxCalls \in Nat /\ Empty \in Props /\ current \in 0 .. Len(objs)
  BY <1>0, AdminAssumption DEF TypeInv
<1>5. p \in Props /\ o \in Nat /\ o \in 0 .. Len(objs) /\ n \in Nat /\ n <= MaxCalls
  BY <1>2, <1>3, <1>4
<1>6. PICK f : f = [pc |-> "adding", s |-> s, p |-> p, o |-> o, n |-> n]
  OBVIOUS
<1>7. f \in FrameType /\ f.pc = "adding" /\ f.s = s /\ f.p = p /\ f.o = o /\ f.n = n
  <2>1. f \in FrameType
    BY <1>5, <1>6, FramesAre
  <2>2. QED
    BY <1>6, <2>1
<1>8. Call(t, f)
  BY <1>2, <1>6 DEF AddingService
<1>9. /\ Goes(t, f) /\ frame[t] = Idle /\ frame[t].pc = "idle" /\ frame[t].pc \notin ClosePCs
      /\ calls' = calls + 1 /\ calls' \in 0 .. MaxCalls /\ \A x : ~ Clears(t, x)
  BY <1>0, <1>7, <1>8, CallIs
<1>10. SameObjs
  BY <1>0, <1>1 DEF SameObjs, TypeInv
<1>11. BaseInv'
  <2>1. \A x \in 1 .. Len(objs') : objs'[x].changeCount <= calls'
    <3>1. \A x \in Ids : objs[x].changeCount \in Nat /\ objs[x].changeCount <= calls
      BY <1>0, ObjIs DEF TypeInv
    <3>2. QED
      BY <1>1, <1>4, <1>9, <3>1 DEF Ids
  <2>2. ExtInv'
    BY <1>0, <1>1, <1>10, SameObjsExt
  <2>3. ~ Swapped
    BY <1>0, <1>1 DEF Swapped, CloseInv, ClosePCs
  <2>4. \A x \in 1 .. Len(objs') : objs'[x].admin =>
              \/ current' = x
              \/ x \in Ids /\ objs[x].admin /\ current # x /\ ~ Clears(t, x)
    BY <1>1, <1>9 DEF Ids
  <2>5. f.pc \notin ClosePCs /\ Numbers(f, Len(objs'))
    BY <1>1, <1>5, <1>7 DEF ClosePCs, Numbers
  <2>6. /\ lapses \subseteq lapses' /\ lapses' \subseteq Lapses /\ current' \in 0 .. Len(objs')
        /\ objs' \in Seq(ObjType) /\ Len(objs') >= Len(objs)
    BY <1>0, <1>1 DEF TypeInv
  <2>7. QED
    BY <1>0, <1>1, <1>7, <1>9, <2>1, <2>2, <2>3, <2>4, <2>5, <2>6, BaseStep
<1>12. ASSUME NewsOK PROVE NewsOK'
  <2>1. Untold /\ QueueKeeps /\ \A i : ~ New(i)
    BY <1>0, <1>1, SameQueue DEF Untold
  <2>2. SameConfig
    BY <1>1 DEF SameConfig, Count, Value
  <2>3. Hands(t, f)
    BY <1>9 DEF Hands, WillPost
  <2>4. AddingInv'
    <3>1. \A u \in Threads : frame'[u].pc = "adding" => u = t
      BY <1>1, <1>9, <1>12 DEF NewsOK, AddingInv, Goes
    <3>2. frame'[t] = f
      BY <1>9 DEF Goes
    <3>3. Count' = Count /\ Value' = Value /\ (Live' <=> Live) /\ current' = current /\ status' = status
      BY <1>1 DEF Count, Value, Live
    <3>4. o \in {0, current} /\ ~ (o = 0 /\ current # 0 /\ Count > 0)
      BY <1>2, <1>3 DEF Count
    <3>5. o # 0 => Count > 0 /\ n <= Count /\ (Live /\ n = Count => p = Value)
      BY <1>2, <1>3 DEF Count, Value, Live
    <3>6. QED
      BY <1>1, <1>7, <3>1, <3>2, <3>3, <3>4, <3>5 DEF AddingInv
  <2>5. /\ \A x \in Ids : objs'[x].removed = objs[x].removed
        /\ current # 0 => objs'[current].admin
        /\ Len(objs') = Len(objs) /\ f.pc \notin {"removing", "removed", "invalidate", "notify"}
    BY <1>1, <1>7, <1>12 DEF NewsOK, ObjsInv
  <2>6. QED
    BY <1>0, <1>7, <1>9, <1>12, <2>1, <2>2, <2>3, <2>4, <2>5, QuietKeeps
<1>13. QED
  BY <1>0, <1>1, <1>11, <1>12 DEF IInv, TellInv

\* A service becomes tracked: what NewsOK says of it, and of the others.
LEMMA TrackTell ==
    ASSUME TypeInv, NumbersInv, NewsOK, NEW t \in Threads, frame[t].pc = "adding", Goes(t, Idle),
           NEW s \in Services, frame[t].s = s, NEW n \in Nat, NEW tell \in BOOLEAN, NEW p, p = frame[t].p,
           status' = [status EXCEPT ![s] = "tracked"], last' = [last EXCEPT ![s] = n], lock' = {},
           IF tell THEN Posted(Initial(s, p)) ELSE queue' = queue,
           UNCHANGED <<objs, current, told, task>>,
           frame[t].o = 0 => n = 0 /\ ~ tell,
           Live /\ frame[t].o # 0 => n = Count /\ tell /\ p = Value
    PROVE  NewsOK'
<1>0. LiveInv /\ ZeroInv /\ TellerInv /\ SayInv /\ FirstInv /\ NewsInv /\ OneWorker /\ ObjsInv /\ AddingInv
  BY DEF NewsOK
<1>1. /\ lock = {t} /\ status[s] = "new" /\ frame[t].o \in {0, current}
      /\ frame[t].o = 0 /\ current # 0 /\ Count > 0 => Announced
      /\ frame[t].o # 0 => Count > 0
  BY <1>0 DEF AddingInv
<1>2. /\ last[s] = 0 /\ told[s] = NONE /\ ~ FirstCall(s) /\ ~ Resets(s)
      /\ \A w \in Workers : ~ ToTell(task[w], s) /\ ~ Recording(task[w], s)
  BY <1>0, <1>1 DEF NewsInv, Resets
<1>3. /\ status'[s] = "tracked" /\ last'[s] = n
      /\ \A r \in Services : r # s => status'[r] = status[r] /\ last'[r] = last[r]
      /\ told' = told /\ task' = task /\ current' = current /\ objs' = objs
  BY DEF TypeInv
<1>4. Count' = Count /\ Value' = Value /\ (Live' <=> Live) /\ (Zero' <=> Zero)
  BY <1>3 DEF Count, Value, Live, Zero
<1>5. Len(queue) \in Nat /\ \A j \in 1 .. Len(queue) : ~ IsFirst(queue[j], s)
  BY <1>2 DEF TypeInv, FirstCall
<1>6. /\ QueueGoesOn
      /\ \A i \in 1 .. Len(queue') : i > Len(queue) =>
            ~ IsLookup(queue'[i]) /\ \A r : IsFirst(queue'[i], r) => r = s /\ tell /\ queue'[i].p = p
      /\ tell => \E i \in 1 .. Len(queue') : IsFirst(queue'[i], s)
  <2>1. CASE ~ tell
    <3>1. queue' = queue
      BY <2>1
    <3>2. QED
      BY <1>5, <2>1, <3>1 DEF QueueGoesOn
  <2>2. CASE tell
    <3>1. PICK k : k = Initial(s, p)
      OBVIOUS
    <3>2. k.pc = "initial" /\ k.s = s /\ k.p = p /\ Hold.pc = "finish"
      BY <3>1 DEF Initial, Hold
    <3>3. /\ Len(queue') \in Nat /\ Len(queue') > Len(queue)
          /\ \A i \in 1 .. Len(queue) : queue'[i] = queue[i]
          /\ queue'[Len(queue) + 1] = k
          /\ \A i \in 1 .. Len(queue') : i > Len(queue) + 1 => queue'[i] = Hold
      BY <2>2, <3>1 DEF Posted
    <3>4. QueueGoesOn /\ Len(queue) + 1 \in 1 .. Len(queue')
      BY <1>5, <3>3 DEF QueueGoesOn
    <3>5. \A i \in 1 .. Len(queue') : i > Len(queue) => queue'[i] \in {k, Hold}
      BY <1>5, <3>3
    <3>6. QED
      BY <2>2, <3>2, <3>3, <3>4, <3>5 DEF IsLookup, IsFirst
  <2>3. QED
    BY <2>1, <2>2
<1>7. Hands(t, Idle)
  BY DEF Hands, WillPost
<1>8. Stale => Stale'
  BY <1>3, <1>6, <1>7, StaleGrows
<1>9. \A r : r # s => KeepsFor(r)
  BY <1>6 DEF KeepsFor
<1>10. ~ Resets(s)'
  BY <1>2, <1>3, ResetsSame
<1>11. ASSUME NEW j \in 1 .. Len(queue'), IsFirst(queue'[j], s) PROVE queue'[j].p = p /\ tell /\ j > Len(queue)
  <2>1. ASSUME ~ (j > Len(queue)) PROVE j \in 1 .. Len(queue) /\ queue'[j] = queue[j]
    BY <1>6, <2>1 DEF QueueGoesOn
  <2>2. j > Len(queue)
    BY <1>5, <1>11, <2>1
  <2>3. QED
    BY <1>6, <1>11, <2>2
<1>12. \A i \in 1 .. Len(queue) : i \in 1 .. Len(queue') /\ queue'[i] = queue[i]
  BY <1>6 DEF QueueGoesOn
<1>13. ASSUME Live, ~Stale PROVE LiveOK(s)'
  <2>1. CASE frame[t].o # 0
    <3>1. n = Count /\ p = Value /\ tell
      BY <1>13, <2>1
    <3>2. Behind(0, s, Value)'
      BY <1>4, <1>11, <3>1 DEF Behind
    <3>3. UnderWay(s, Value)'
      BY <1>2, <1>3 DEF UnderWay, FirstCall
    <3>4. FirstCall(s)'
      BY <1>6, <3>1 DEF FirstCall
    <3>5. QED
      BY <1>3, <1>4, <1>10, <3>1, <3>2, <3>3, <3>4 DEF LiveOK, LiveKnown
  <2>2. CASE frame[t].o = 0
    <3>1. n = 0 /\ ~ tell /\ Announced /\ Count > 0
      BY <1>1, <1>13, <2>2 DEF Live
    <3>2. \A j \in 1 .. Len(queue') : ~ IsFirst(queue'[j], s)
      BY <1>11, <3>1
    <3>3. \A i \in Nat : Behind(i, s, Value)'
      <4>1. \A i \in Nat : \A j \in i + 1 .. Len(queue') : j \in 1 .. Len(queue')
        BY <1>6 DEF QueueGoesOn
      <4>2. QED
        BY <3>2, <4>1 DEF Behind
    <3>4. LiveComing(s)'
      <4>1. ASSUME NEW u \in Threads, frame[u].pc = "notify" /\ frame[u].o = current PROVE LiveComing(s)'
        BY <1>3, <4>1 DEF LiveComing, Goes
      <4>2. ASSUME NEW i \in 1 .. Len(queue), Announces(queue[i]) PROVE LiveComing(s)'
        <5>1. Announces(queue[i])' /\ i \in 1 .. Len(queue') /\ i \in Nat
          BY <1>3, <1>4, <1>12, <4>2 DEF Announces
        <5>2. Behind(i, s, Value)'
          BY <3>3, <5>1
        <5>3. QED
          BY <5>1, <5>2 DEF LiveComing
      <4>3. ASSUME NEW w \in Workers, Announces(task[w]) PROVE LiveComing(s)'
        <5>1. Announces(task[w])'
          BY <1>3, <1>4, <4>3 DEF Announces
        <5>2. Behind(0, s, Value)'
          BY <3>3
        <5>3. QED
          BY <5>1, <5>2 DEF LiveComing
      <4>4. QED
        BY <3>1, <4>1, <4>2, <4>3 DEF Announced
    <3>5. QED
      BY <1>3, <1>4, <3>1, <3>4 DEF LiveOK
  <2>3. QED
    BY <2>1, <2>2
<1>14. LiveInv'
  <2>1. SUFFICES ASSUME Live', ~Stale', NEW r \in Tracked' PROVE LiveOK(r)'
    BY DEF LiveInv
  <2>2. CASE r = s
    BY <1>4, <1>8, <1>13, <2>1, <2>2
  <2>3. CASE r # s
    <3>1. r \in Services /\ r \in Tracked /\ last'[r] = last[r] /\ told'[r] = told[r]
      BY <1>3, <2>1, <2>3 DEF Tracked
    <3>2. LiveOK(r) /\ KeepsFor(r)
      BY <1>0, <1>4, <1>8, <1>9, <2>1, <2>3, <3>1 DEF LiveInv
    <3>3. UNCHANGED <<current, Count, Value>> /\ task' = task
      BY <1>3, <1>4
    <3>4. QED
      BY <1>7, <3>1, <3>2, <3>3, LiveGrows
  <2>4. QED
    BY <2>2, <2>3
<1>15. ASSUME Zero PROVE ZeroOK(s)'
  <2>1. frame[t].o = 0
    BY <1>1, <1>15 DEF Zero
  <2>2. n = 0 /\ \A j \in 1 .. Len(queue') : ~ IsFirst(queue'[j], s)
    BY <1>11, <2>1
  <2>3. Behind(0, s, Empty)' /\ UnderWay(s, Empty)'
    BY <1>2, <1>3, <2>2 DEF Behind, UnderWay, FirstCall
  <2>4. QED
    BY <1>2, <1>3, <2>2, <2>3 DEF ZeroOK, ZeroKnown, Good
<1>16. ZeroInv'
  <2>1. SUFFICES ASSUME Zero', NEW r \in Tracked' PROVE ZeroOK(r)'
    BY DEF ZeroInv
  <2>2. CASE r = s
    BY <1>4, <1>15, <2>1, <2>2
  <2>3. CASE r # s
    <3>1. r \in Services /\ r \in Tracked /\ last'[r] = last[r] /\ told'[r] = told[r]
      BY <1>3, <2>1, <2>3 DEF Tracked
    <3>2. ZeroOK(r) /\ KeepsFor(r) /\ task' = task
      BY <1>0, <1>3, <1>4, <1>9, <2>1, <2>3, <3>1 DEF ZeroInv
    <3>3. QED
      BY <1>7, <3>1, <3>2, ZeroGrows
  <2>4. QED
    BY <2>2, <2>3
<1>17. TellerInv'
  <2>1. ASSUME NEW w \in Workers, Live', ~Stale', TellsProps(task'[w])
        PROVE  task'[w].n <= Count' /\ (task'[w].n = Count' => task'[w].p = Value')
    BY <1>0, <1>3, <1>4, <1>8, <2>1 DEF TellerInv
  <2>2. ASSUME NEW w \in Workers, Zero', TellsProps(task'[w])
        PROVE  (\E u \in Threads : WillPost(u)') \/ \E i \in 1 .. Len(queue') : IsLookup(queue'[i])
    <3>1. (\E u \in Threads : WillPost(u)) \/ \E i \in 1 .. Len(queue) : IsLookup(queue[i])
      BY <1>0, <1>3, <1>4, <2>2 DEF TellerInv
    <3>2. QED
      BY <1>6, <1>7, <3>1, PostsGrow
  <2>3. QED
    BY <2>1, <2>2 DEF TellerInv
<1>18. SayInv'
  <2>1. \A w \in Workers : task[w].pc \in {"tell", "record"} => task[w].s # s /\ task[w].s \in Services
    BY <1>2 DEF ToTell, Recording, Telling, TellPCs, NumbersInv
  <2>2. QED
    BY <1>0, <1>3, <2>1 DEF SayInv
<1>19. FirstInv'
  <2>1. SUFFICES ASSUME Live', ~Stale', NEW r \in Services, NEW j \in 1 .. Len(queue'), IsFirst(queue'[j], r)
                 PROVE  /\ \A i \in 1 .. j - 1 : IsLookup(queue'[i]) => queue'[i].n <= last'[r] /\ ~ Resets(r)'
                        /\ \A w \in Workers : IsLookup(task'[w]) \/ TellsProps(task'[w]) => task'[w].n <= last'[r]
    BY DEF FirstInv
  <2>2. CASE r # s
    <3>1. ~ (j > Len(queue))
      BY <1>6, <2>1, <2>2
    <3>2. j \in 1 .. Len(queue) /\ queue'[j] = queue[j]
      BY <1>6, <3>1 DEF QueueGoesOn
    <3>3. /\ \A i \in 1 .. j - 1 : IsLookup(queue[i]) => queue[i].n <= last[r] /\ ~ Resets(r)
          /\ \A w \in Workers : IsLookup(task[w]) \/ TellsProps(task[w]) => task[w].n <= last[r]
      BY <1>0, <1>4, <1>8, <2>1, <3>2 DEF FirstInv
    <3>4. \A i \in 1 .. j - 1 : queue'[i] = queue[i]
      BY <1>6, <3>2 DEF QueueGoesOn
    <3>5. Resets(r)' <=> Resets(r)
      BY <1>3, ResetsSame
    <3>6. QED
      BY <1>3, <2>2, <3>3, <3>4, <3>5
  <2>3. CASE r = s
    <3>1. tell
      BY <1>11, <2>1, <2>3
    <3>2. n = Count
      BY <1>4, <2>1, <3>1
    <3>3. ASSUME NEW i \in 1 .. j - 1, IsLookup(queue'[i]) PROVE queue'[i].n <= n
      <4>1. i \in 1 .. Len(queue')
        BY <1>6 DEF QueueGoesOn
      <4>2. ~ (i > Len(queue))
        BY <1>6, <3>3, <4>1
      <4>3. i \in 1 .. Len(queue) /\ queue'[i] = queue[i]
        BY <1>6, <4>1, <4>2 DEF QueueGoesOn
      <4>4. queue[i].o = current
        BY <1>8, <2>1, <3>3, <4>3 DEF Stale
      <4>5. queue[i].n \in 1 .. Count
        BY <1>0, <3>3, <4>3, <4>4 DEF ObjsInv
      <4>6. QED
        BY <3>2, <4>3, <4>5
    <3>4. ASSUME NEW w \in Workers, IsLookup(task[w]) PROVE task[w].n <= n
      <4>1. task[w].o = current
        BY <1>8, <2>1, <3>4 DEF Stale
      <4>2. task[w].n \in 1 .. Count
        BY <1>0, <3>4, <4>1 DEF ObjsInv
      <4>3. QED
        BY <3>2, <4>2
    <3>5. \A w \in Workers : TellsProps(task[w]) => task[w].n <= n
      BY <1>0, <1>4, <1>8, <2>1, <3>2 DEF TellerInv
    <3>6. QED
      BY <1>3, <1>10, <2>3, <3>3, <3>4, <3>5
  <2>4. QED
    BY <2>2, <2>3
<1>20. NewsInv' /\ OneWorker'
  <2>1. ASSUME NEW r \in Services, status'[r] = "new" PROVE status[r] = "new" /\ last'[r] = last[r] /\ (FirstCall(r)' <=> FirstCall(r))
    <3>1. r # s
      BY <1>3, <2>1
    <3>2. KeepsFor(r) /\ task' = task
      BY <1>3, <1>9, <3>1
    <3>3. QED
      BY <1>3, <2>1, <3>1, <3>2, FirstGrows
  <2>2. QED
    BY <1>0, <1>3, <2>1 DEF NewsInv, OneWorker
<1>21. ObjsInv'
  <2>1. /\ \A i : ~ New(i)
        /\ \A o \in Ids : objs'[o].removed = objs[o].removed
        /\ Len(objs') = Len(objs) /\ (current # 0 => objs'[current].admin /\ Count' = Count)
        /\ Idle.pc \notin {"removing", "removed", "post", "invalidate", "notify"}
    BY <1>0, <1>3, <1>4, <1>6, IdleIs DEF New, ObjsInv
  <2>2. QED
    BY <1>0, <1>3, <1>6, <2>1, ObjsQuiet
<1>22. AddingInv'
  BY <1>0, <1>1, IdleIs DEF AddingInv, Goes
<1>23. QED
  BY <1>14, <1>16, <1>17, <1>18, <1>19, <1>20, <1>21, <1>22 DEF NewsOK

LEMMA AddingTrackKeeps ==
    ASSUME IInv, NEW t \in Threads, AddingTrack(t) PROVE IInv'
<1>0. BaseInv /\ TypeInv /\ NumbersInv /\ ExtInv /\ CloseInv /\ SwappedInv /\ AdminInv /\ GoneInv /\ TellInv
  BY DEF IInv, BaseInv
<1>1. PICK f : f = frame[t]
  OBVIOUS
<1>2. PICK n : n = IF f.o # 0 /\ ~ objs[f.o].removed THEN objs[f.o].changeCount ELSE 0
  OBVIOUS
<1>3. PICK tell \in BOOLEAN : tell = (f.o # 0 /\ (kind = "ManagedService" \/ n # 0))
  OBVIOUS
<1>4. /\ f.pc = "adding" /\ status' = [status EXCEPT ![f.s] = "tracked"] /\ last' = [last EXCEPT ![f.s] = n]
      /\ IF tell THEN Post(<<Initial(f.s, f.p)>>) ELSE UNCHANGED queue
      /\ lapses' = lapses \cup (IF tell /\ n # f.n THEN {"torn"} ELSE {})
      /\ lock' = {} /\ Do(t, Idle)
      /\ UNCHANGED <<objs, current, told, task, ext, phase, calls, throws, kind>>
  BY <1>1, <1>2, <1>3 DEF AddingTrack, At, bounds
<1>5. /\ f.s \in Services /\ f.p \in Props /\ f.o \in 0 .. Len(objs) /\ f.n \in Nat /\ (f.o # 0 => f.o \in Ids)
  BY <1>0, <1>1, <1>4, FrameFacts DEF TypeInv, NumbersInv, Ids
<1>6. n \in 0 .. MaxCalls /\ n \in Nat
  <2>1. \A x \in Ids : objs[x].changeCount \in Nat /\ objs[x].changeCount <= calls /\ calls \in 0 .. MaxCalls
    BY <1>0, ObjIs DEF TypeInv
  <2>2. QED
    BY <1>2, <1>5, <2>1, AdminAssumption
<1>7. PICK s \in Services : s = f.s
  BY <1>5
<1>8. PICK k : k = Initial(s, f.p)
  OBVIOUS
<1>9. k \in PostType /\ ~ IsLookup(k)
  BY <1>5, <1>8 DEF Initial, PostType, IsLookup
<1>10. IF tell THEN Posted(k) ELSE queue' = queue
  BY <1>0, <1>4, <1>7, <1>8, <1>9, PostIs DEF TypeInv
<1>11. Goes(t, Idle) /\ phase = "open" /\ frame[t].pc \notin ClosePCs /\ \A x : ~ Clears(t, x)
  BY <1>0, <1>1, <1>4, DoIs, IdleIs DEF TypeInv, Goes, CloseInv, ClosePCs, Clears
<1>12. Len(objs) \in Nat /\ Len(objs') \in Nat /\ Len(objs') >= Len(objs) /\ SameObjs /\ Ids' = Ids
  BY <1>0, <1>4 DEF TypeInv, SameObjs, Ids
<1>13. queue' \in Seq(PostType) /\ \A i \in 1 .. Len(queue') : PostNumbers(queue[i])'
  <2>1. CASE tell
    <3>1. Posted(k)
      BY <1>10, <2>1
    <3>2. PostNumbers(k)'
      BY <1>9 DEF PostNumbers
    <3>3. \A i \in 1 .. Len(queue') : PostNumbers(queue[i])'
      BY <1>0, <1>9, <1>12, <3>1, <3>2, PostedNumbers
    <3>4. QED
      BY <3>1, <3>3 DEF Posted
  <2>2. CASE ~ tell
    BY <1>0, <1>10, <1>12, <2>2, QueueGrows
  <2>3. QED
    BY <2>1, <2>2
<1>14. StepType(t, Idle)
  <2>1. \A x \in 1 .. Len(objs') : objs'[x].changeCount <= calls'
    BY <1>0, <1>4 DEF TypeInv, Ids
  <2>2. status' \in [Services -> {"new", "tracked", "removed"}] /\ last' \in [Services -> 0 .. MaxCalls]
    BY <1>0, <1>4, <1>5, <1>6 DEF TypeInv
  <2>3. lapses \subseteq lapses' /\ lapses' \subseteq Lapses
    BY <1>0, <1>4 DEF TypeInv, Lapses
  <2>4. Idle.pc \notin ClosePCs
    BY IdleIs DEF ClosePCs
  <2>5. current' \in 0 .. Len(objs') /\ calls' \in 0 .. MaxCalls /\ objs' \in Seq(ObjType)
    BY <1>0, <1>4 DEF TypeInv
  <2>6. UNCHANGED <<kind, told, task, phase, throws>> /\ lock' = {}
    BY <1>4
  <2>7. QED
    BY <1>11, <1>12, <1>13, <2>1, <2>2, <2>3, <2>4, <2>5, <2>6, IdleIs DEF StepType
<1>15. StepRules(t, Idle)
  <2>1. ~ Swapped
    BY <1>0, <1>11 DEF Swapped, CloseInv, ClosePCs
  <2>2. \A x \in 1 .. Len(objs') : objs'[x].admin => current' = x \/ (x \in Ids /\ objs[x].admin /\ current # x /\ ~ Clears(t, x))
    BY <1>4, <1>11 DEF Ids
  <2>3. QED
    BY <1>11, <2>1, <2>2 DEF StepRules
<1>16. BaseInv'
  <2>1. ExtInv'
    BY <1>0, <1>4, <1>12, SameObjsExt
  <2>2. TypeInv' /\ NumbersInv' /\ CloseInv' /\ SwappedInv' /\ AdminInv' /\ GoneInv'
    BY <1>0, <1>14, <1>15, IdleIs, ThreadKeeps
  <2>3. QED
    BY <2>1, <2>2 DEF BaseInv
<1>17. ASSUME NewsOK, lapses' = {} PROVE NewsOK'
  <2>1. /\ f.o \in {0, current} /\ (f.o # 0 => Count > 0)
        /\ f.o # 0 /\ Live /\ f.n = Count => f.p = Value
    BY <1>1, <1>4, <1>17 DEF NewsOK, AddingInv
  <2>2. f.o = 0 => n = 0 /\ ~ tell
    BY <1>2, <1>3
  <2>3. tell => n = f.n
    BY <1>4, <1>17
  <2>4. ASSUME Live, f.o # 0 PROVE n = Count /\ tell /\ f.p = Value
    <3>1. n = Count
      BY <1>2, <2>1, <2>4 DEF Live, Count
    <3>2. Count # 0
      BY <1>6, <2>1, <2>4, <3>1
    <3>3. tell
      BY <1>3, <2>4, <3>1, <3>2
    <3>4. QED
      BY <2>1, <2>3, <2>4, <3>1, <3>3
  <2>5. /\ IF tell THEN Posted(Initial(s, f.p)) ELSE queue' = queue
        /\ status' = [status EXCEPT ![s] = "tracked"] /\ last' = [last EXCEPT ![s] = n]
        /\ frame[t].pc = "adding" /\ frame[t].s = s /\ frame[t].o = f.o /\ f.p = frame[t].p
        /\ UNCHANGED <<objs, current, told, task>> /\ lock' = {}
    BY <1>1, <1>4, <1>7, <1>8, <1>10
  <2>6. PICK p : p = f.p
    OBVIOUS
  <2>7. QED
    BY <1>0, <1>6, <1>11, <1>17, <2>2, <2>4, <2>5, <2>6, TrackTell
<1>18. QED
  BY <1>0, <1>4, <1>11, <1>16, <1>17 DEF IInv, TellInv

-----------------------------------------------------------------------------
(* The destructor. *)

LEMMA NothingLeft ==
    ASSUME TypeInv PROVE Incomplete = 0 <=> queue = << >> /\ Running = {}
<1>1. IsFiniteSet(Running)
  BY FS_Subset, AdminAssumption DEF Running
<1>2. Cardinality(Running) \in Nat /\ (Cardinality(Running) = 0 <=> Running = {})
  BY <1>1, FS_CardinalityType, FS_EmptySet
<1>3. Len(queue) \in Nat /\ (Len(queue) = 0 <=> queue = << >>)
  BY DEF TypeInv
<1>4. QED
  BY <1>2, <1>3 DEF Incomplete

LEMMA CloseKeeps ==
    ASSUME IInv, NEW t \in Threads, Close(t) PROVE IInv'
<1>0. BaseInv /\ TypeInv /\ NumbersInv /\ ExtInv /\ CloseInv /\ SwappedInv /\ AdminInv /\ GoneInv /\ TellInv
  BY DEF IInv, BaseInv
<1>1. /\ phase = "open" /\ phase' = "closing"
      /\ \A u \in Threads : frame[u].pc \in {"idle", "notify", "removing", "removed"}
      /\ status' = [s \in Services |-> IF status[s] = "tracked" THEN "removed" ELSE status[s]]
      /\ UNCHANGED <<objs, current, lock, last, told, queue, task, ext, throws, kind, lapses>>
  BY DEF Close, work, bounds
<1>2. PICK f : f = [pc |-> "swap", tell |-> {s \in Services : status[s] = "tracked"}]
  OBVIOUS
<1>3. f \in FrameType /\ f.pc = "swap"
  <2>1. f \in [pc : {"swap"}, tell : SUBSET Services]
    BY <1>2
  <2>2. QED
    BY <1>2, <2>1 DEF FrameType
<1>4. Call(t, f)
  BY <1>2 DEF Close
<1>5. /\ Goes(t, f) /\ frame[t].pc = "idle" /\ calls' = calls + 1 /\ calls' \in 0 .. MaxCalls /\ \A o : ~ Clears(t, o)
  BY <1>0, <1>3, <1>4, CallIs
<1>6. frame' \in [Threads -> FrameType] /\ frame'[t] = f /\ \A u \in Threads : u # t => frame'[u] = frame[u]
  BY <1>5 DEF Goes
<1>7. Len(objs) \in Nat /\ Len(objs') \in Nat /\ Len(objs') >= Len(objs) /\ SameObjs /\ Ids' = Ids /\ calls \in Nat
  BY <1>0, <1>1 DEF TypeInv, SameObjs, Ids
<1>8. TypeInv'
  <2>1. \A x \in Ids' : objs'[x].changeCount <= calls'
    <3>1. \A x \in Ids : objs[x].changeCount \in Nat /\ objs[x].changeCount <= calls
      BY <1>0, ObjIs DEF TypeInv
    <3>2. QED
      BY <1>1, <1>5, <1>7, <3>1
  <2>2. status' \in [Services -> {"new", "tracked", "removed"}]
    BY <1>0, <1>1 DEF TypeInv
  <2>3. QED
    BY <1>0, <1>1, <1>5, <1>6, <2>1, <2>2 DEF TypeInv
<1>9. NumbersInv'
  <2>1. \A i \in 1 .. Len(queue') : PostNumbers(queue[i])'
    BY <1>0, <1>1, <1>7, QueueGrows
  <2>2. Numbers(f, Len(objs'))
    BY <1>3 DEF Numbers
  <2>3. task' = task
    BY <1>1
  <2>4. QED
    BY <1>0, <1>3, <1>5, <1>7, <2>1, <2>2, <2>3, NumbersKeeps
<1>10. ExtInv'
  BY <1>0, <1>1, <1>7, SameObjsExt
<1>11. CloseInv'
  BY <1>1, <1>3, <1>6 DEF CloseInv, ClosePCs
<1>12. SwappedInv'
  BY <1>1, <1>3, <1>6 DEF SwappedInv, Swapped
<1>13. AdminInv'
  <2>1. \A o, u : u \in Threads /\ Clears(u, o) => Clears(u, o)'
    BY <1>5, <1>6 DEF Clears
  <2>2. QED
    BY <1>0, <1>1, <1>7, <2>1 DEF AdminInv
<1>14. GoneInv' /\ TellInv'
  BY <1>1 DEF GoneInv, TellInv
<1>15. QED
  BY <1>8, <1>9, <1>10, <1>11, <1>12, <1>13, <1>14 DEF IInv, BaseInv

\* What the steps of the destructor have in common.
LEMMA CloseStep ==
    ASSUME IInv, NEW t \in Threads, NEW f \in FrameType, Do(t, f), Numbers(f, Len(objs)), SameObjs,
           frame[t].pc \in ClosePCs,
           UNCHANGED <<lock, status, last, queue, task, ext, calls, throws, kind>>,
           told' \in [Services -> Props \cup {NONE}], current' \in 0 .. Len(objs),
           phase' \in {"closing", "gone"}, lapses' \subseteq Lapses
    PROVE  /\ Goes(t, f) /\ TypeInv' /\ NumbersInv' /\ ExtInv' /\ TellInv'
           /\ phase = "closing" /\ \A u \in Threads : u # t => frame[u].pc \in {"idle", "notify", "removing", "removed"}
<1>0. TypeInv /\ NumbersInv /\ ExtInv /\ CloseInv
  BY DEF IInv, BaseInv
<1>1. Goes(t, f)
  BY <1>0, DoIs DEF TypeInv, Goes
<1>2. Len(objs) \in Nat /\ Len(objs') = Len(objs) /\ Ids' = Ids /\ objs' \in Seq(ObjType) /\ Len(objs') >= Len(objs)
  BY <1>0 DEF TypeInv, SameObjs, Ids
<1>3. TypeInv'
  <2>1. \A x \in Ids' : objs'[x].changeCount <= calls'
    BY <1>0, <1>2 DEF TypeInv, SameObjs
  <2>2. QED
    BY <1>0, <1>1, <1>2, <2>1 DEF TypeInv, Goes
<1>4. NumbersInv'
  <2>1. \A i \in 1 .. Len(queue') : PostNumbers(queue[i])'
    BY <1>0, <1>2, QueueGrows
  <2>2. QED
    BY <1>0, <1>1, <1>2, <2>1, NumbersKeeps
<1>5. ExtInv'
  BY <1>0, SameObjsExt
<1>6. phase = "closing" /\ \A u \in Threads : u # t => frame[u].pc \in {"idle", "notify", "removing", "removed"}
  <2>1. phase = "closing"
    BY <1>0 DEF CloseInv
  <2>2. QED
    BY <1>0, <2>1 DEF CloseInv
<1>7. TellInv'
  BY DEF TellInv
<1>8. QED
  BY <1>1, <1>3, <1>4, <1>5, <1>6, <1>7

LEMMA CloseSwapKeeps ==
    ASSUME IInv, NEW t \in Threads, CloseSwap(t) PROVE IInv'
<1>0. BaseInv /\ TypeInv /\ NumbersInv /\ ExtInv /\ CloseInv /\ SwappedInv /\ AdminInv /\ GoneInv /\ TellInv
  BY DEF IInv, BaseInv
<1>1. /\ frame[t].pc = "swap" /\ current' = 0
      /\ lapses' = lapses \cup (IF \E u \in Threads : frame[u].pc = "removed" THEN {"erased"} ELSE {})
      /\ UNCHANGED <<objs, lock, status, last, told, queue, task, ext, phase, calls, throws, kind>>
  BY DEF CloseSwap, At, tracking, work, bounds
<1>2. PICK c : c = current
  OBVIOUS
<1>3. PICK f : f = [pc |-> "closeInvalidate", o |-> c, tell |-> frame[t].tell]
  OBVIOUS
<1>4. f \in FrameType /\ f.pc = "closeInvalidate" /\ f.o = c /\ c \in 0 .. Len(objs)
  <2>1. c \in Nat /\ c \in 0 .. Len(objs) /\ frame[t].tell \subseteq Services
    BY <1>0, <1>1, <1>2, FrameFacts DEF TypeInv
  <2>2. f \in [pc : {"closeInvalidate"}, o : Nat, tell : SUBSET Services]
    BY <1>3, <2>1
  <2>3. QED
    BY <1>3, <2>1, <2>2 DEF FrameType
<1>5. Do(t, f) /\ Numbers(f, Len(objs)) /\ SameObjs /\ frame[t].pc \in ClosePCs
  <2>1. Do(t, f)
    BY <1>2, <1>3 DEF CloseSwap
  <2>2. Numbers(f, Len(objs))
    BY <1>4 DEF Numbers
  <2>3. QED
    BY <1>0, <1>1, <2>1, <2>2 DEF SameObjs, ClosePCs, TypeInv
<1>6. told' \in [Services -> Props \cup {NONE}] /\ current' \in 0 .. Len(objs) /\ lapses' \subseteq Lapses /\ phase' \in {"closing", "gone"}
  BY <1>0, <1>1, <1>5 DEF TypeInv, Lapses, CloseInv
<1>7. /\ Goes(t, f) /\ TypeInv' /\ NumbersInv' /\ ExtInv' /\ TellInv'
      /\ phase = "closing" /\ \A u \in Threads : u # t => frame[u].pc \in {"idle", "notify", "removing", "removed"}
  BY <1>1, <1>4, <1>5, <1>6, CloseStep
<1>8. frame'[t] = f /\ \A u \in Threads : u # t => frame'[u] = frame[u]
  BY <1>7 DEF Goes
<1>9. CloseInv'
  BY <1>1, <1>4, <1>7, <1>8 DEF CloseInv, ClosePCs
<1>10. SwappedInv'
  BY <1>1, <1>4, <1>8 DEF SwappedInv
<1>11. AdminInv'
  <2>1. ASSUME NEW o \in Ids, objs[o].admin PROVE \E u \in Threads : Clears(u, o)'
    <3>1. CASE o = c
      BY <1>4, <1>8, <3>1 DEF Clears
    <3>2. CASE o # c
      <4>1. PICK u \in Threads : Clears(u, o)
        BY <1>0, <1>2, <2>1, <3>2 DEF AdminInv
      <4>2. u # t
        BY <1>1, <4>1 DEF Clears
      <4>3. QED
        BY <1>8, <4>1, <4>2 DEF Clears
    <3>3. QED
      BY <3>1, <3>2
  <2>2. QED
    BY <1>1, <2>1 DEF AdminInv, Ids
<1>12. GoneInv'
  BY <1>1, <1>7 DEF GoneInv
<1>13. QED
  BY <1>7, <1>9, <1>10, <1>11, <1>12 DEF IInv, BaseInv

LEMMA CloseInvalidateKeeps ==
    ASSUME IInv, NEW t \in Threads, CloseInvalidate(t) PROVE IInv'
<1>0. BaseInv /\ TypeInv /\ NumbersInv /\ ExtInv /\ CloseInv /\ SwappedInv /\ AdminInv /\ GoneInv /\ TellInv
  BY DEF IInv, BaseInv
<1>1. PICK o : o = frame[t].o
  OBVIOUS
<1>2. PICK f : f = [pc |-> "closeWait"]
  OBVIOUS
<1>3. /\ frame[t].pc = "closeInvalidate" /\ Do(t, f)
      /\ UNCHANGED <<current, lock, status, last, queue, task, ext, phase, calls, throws, kind, lapses>>
      /\ \/ o # 0 /\ objs' = [objs EXCEPT ![o].admin = FALSE]
         \/ o = 0 /\ objs' = objs
  BY <1>1, <1>2 DEF CloseInvalidate, At, work, bounds
<1>4. o \in 0 .. Len(objs) /\ (o # 0 => o \in Ids)
  BY <1>0, <1>1, <1>3 DEF NumbersInv, Ids, TypeInv
<1>5. told' \in [Services -> Props \cup {NONE}]
  <2>1. \/ told' = told
        \/ told' = [s \in Services |-> IF s \notin frame[t].tell THEN told[s]
                                       ELSE IF kind = "ManagedService" THEN Empty ELSE NONE]
    BY DEF CloseInvalidate
  <2>2. QED
    BY <1>0, <2>1, AdminAssumption DEF TypeInv
<1>6. f \in FrameType /\ f.pc = "closeWait" /\ Numbers(f, Len(objs)) /\ frame[t].pc \in ClosePCs
  BY <1>2, <1>3 DEF FrameType, Numbers, ClosePCs
<1>7. SameObjs /\ \A x \in Ids : objs'[x].admin => objs[x].admin /\ x # o
  <2>1. CASE o = 0
    BY <1>0, <1>3, <1>4, <2>1 DEF SameObjs, TypeInv, Ids
  <2>2. CASE o # 0
    <3>1. /\ objs' \in Seq(ObjType) /\ Len(objs') = Len(objs)
          /\ \A x \in Ids : x # o => objs'[x] = objs[x]
          /\ objs'[o].removed = objs[o].removed /\ objs'[o].props = objs[o].props
          /\ objs'[o].changeCount = objs[o].changeCount /\ objs'[o].by = objs[o].by
          /\ ~ objs'[o].admin
      BY <1>0, <1>3, <1>4, <2>2, DetachedIs DEF TypeInv
    <3>2. QED
      BY <3>1 DEF SameObjs
  <2>3. QED
    BY <2>1, <2>2
<1>8. current' \in 0 .. Len(objs) /\ lapses' \subseteq Lapses /\ phase' \in {"closing", "gone"}
  BY <1>0, <1>3, <1>6 DEF TypeInv, CloseInv
<1>9. /\ Goes(t, f) /\ TypeInv' /\ NumbersInv' /\ ExtInv' /\ TellInv'
      /\ phase = "closing" /\ \A u \in Threads : u # t => frame[u].pc \in {"idle", "notify", "removing", "removed"}
  BY <1>3, <1>5, <1>6, <1>7, <1>8, CloseStep
<1>10. frame'[t] = f /\ \A u \in Threads : u # t => frame'[u] = frame[u]
  BY <1>9 DEF Goes
<1>11. CloseInv'
  BY <1>3, <1>6, <1>9, <1>10 DEF CloseInv, ClosePCs
<1>12. SwappedInv'
  BY <1>0, <1>3, <1>6, <1>10 DEF SwappedInv, Swapped
<1>13. AdminInv'
  <2>1. ASSUME NEW x \in Ids, objs'[x].admin PROVE current' = x \/ \E u \in Threads : Clears(u, x)'
    <3>1. objs[x].admin /\ x # o
      BY <1>7, <2>1
    <3>2. CASE current = x
      BY <1>3, <3>2
    <3>3. ASSUME NEW u \in Threads, Clears(u, x) PROVE Clears(u, x)'
      <4>1. u # t
        BY <1>1, <1>3, <3>1, <3>3 DEF Clears
      <4>2. QED
        BY <1>10, <3>3, <4>1 DEF Clears
    <3>4. QED
      BY <1>0, <3>1, <3>2, <3>3 DEF AdminInv
  <2>2. QED
    BY <1>7, <2>1 DEF AdminInv, Ids, SameObjs
<1>14. GoneInv'
  BY <1>3, <1>9 DEF GoneInv
<1>15. QED
  BY <1>9, <1>11, <1>12, <1>13, <1>14 DEF IInv, BaseInv

LEMMA CloseWaitKeeps ==
    ASSUME IInv, NEW t \in Threads, CloseWait(t) PROVE IInv'
<1>0. BaseInv /\ TypeInv /\ NumbersInv /\ ExtInv /\ CloseInv /\ SwappedInv /\ AdminInv /\ GoneInv /\ TellInv
  BY DEF IInv, BaseInv
<1>1. /\ frame[t].pc = "closeWait" /\ Do(t, Idle) /\ Incomplete = 0 /\ phase' = "gone"
      /\ UNCHANGED <<objs, current, lock, status, last, told, queue, task, ext, calls, throws, kind, lapses>>
  BY DEF CloseWait, At, tracking, work, bounds
<1>2. /\ told' \in [Services -> Props \cup {NONE}] /\ current' \in 0 .. Len(objs) /\ lapses' \subseteq Lapses
      /\ phase' \in {"closing", "gone"} /\ frame[t].pc \in ClosePCs /\ SameObjs
  BY <1>0, <1>1 DEF TypeInv, ClosePCs, SameObjs
<1>3. /\ Goes(t, Idle) /\ TypeInv' /\ NumbersInv' /\ ExtInv' /\ TellInv'
      /\ phase = "closing" /\ \A u \in Threads : u # t => frame[u].pc \in {"idle", "notify", "removing", "removed"}
  BY <1>1, <1>2, IdleIs, CloseStep
<1>4. frame'[t] = Idle /\ Idle.pc = "idle" /\ \A u \in Threads : u # t => frame'[u] = frame[u]
  BY <1>3, IdleIs DEF Goes
<1>5. CloseInv'
  BY <1>1, <1>3, <1>4 DEF CloseInv, ClosePCs
<1>6. SwappedInv'
  <2>1. Swapped
    BY <1>1 DEF Swapped
  <2>2. QED
    BY <1>0, <1>1, <1>4, <2>1 DEF SwappedInv
<1>7. AdminInv'
  <2>1. \A x, u : u \in Threads /\ Clears(u, x) => Clears(u, x)'
    BY <1>1, <1>4 DEF Clears
  <2>2. QED
    BY <1>0, <1>1, <2>1 DEF AdminInv, Ids
<1>8. GoneInv'
  BY <1>0, <1>1, NothingLeft DEF GoneInv, Running
<1>9. QED
  BY <1>3, <1>5, <1>6, <1>7, <1>8 DEF IInv, BaseInv

-----------------------------------------------------------------------------
(* The steps of the workers. *)

TaskNumbers(k) ==
    /\ IsLookup(k) => k.o \in Ids /\ k.n <= MaxCalls
    /\ Telling(k) => k.n <= MaxCalls
    /\ k.pc \in {"tell", "record"} => k.s \in Services

LEMMA WorkerBase ==
    ASSUME BaseInv, NEW w \in Workers, NEW l \in TaskType, task' = [task EXCEPT ![w] = l], TaskNumbers(l),
           task[w] # Idle \/ queue # << >>,
           queue' = queue \/ (queue # << >> /\ queue' = Tail(queue)),
           UNCHANGED <<kind, objs, current, lock, status, frame, ext, phase, calls>>,
           last' \in [Services -> 0 .. MaxCalls], told' \in [Services -> Props \cup {NONE}],
           throws' \in Nat, lapses \subseteq lapses', lapses' \subseteq Lapses
    PROVE  BaseInv'
<1>0. TypeInv /\ NumbersInv /\ ExtInv /\ CloseInv /\ SwappedInv /\ AdminInv /\ GoneInv
  BY DEF BaseInv
<1>1. task' \in [Workers -> TaskType] /\ task'[w] = l /\ \A v \in Workers : v # w => task'[v] = task[v]
  BY <1>0 DEF TypeInv
<1>2. queue' \in Seq(PostType) /\ \A i \in 1 .. Len(queue') : \E j \in 1 .. Len(queue) : queue'[i] = queue[j]
  <2>1. CASE queue' = queue
    BY <1>0, <2>1 DEF TypeInv
  <2>2. CASE queue # << >> /\ queue' = Tail(queue)
    <3>1. /\ queue' \in Seq(PostType) /\ Len(queue') = Len(queue) - 1 /\ Len(queue) \in Nat
          /\ \A i \in 1 .. Len(queue) - 1 : queue'[i] = queue[i + 1]
      BY <1>0, <2>2 DEF TypeInv
    <3>2. \A i \in 1 .. Len(queue) - 1 : i + 1 \in 1 .. Len(queue)
      BY <3>1
    <3>3. QED
      BY <3>1, <3>2
  <2>3. QED
    BY <2>1, <2>2
<1>3. Ids' = Ids
  BY DEF Ids
<1>4. TypeInv'
  BY <1>0, <1>1, <1>2 DEF TypeInv, Ids
<1>5. NumbersInv'
  <2>1. \A i \in 1 .. Len(queue') : queue'[i].pc = "lookup" => queue'[i].o \in Ids /\ queue'[i].n <= MaxCalls
    BY <1>0, <1>2 DEF NumbersInv
  <2>2. \A v \in Workers :
          /\ task'[v].pc = "lookup" => task'[v].o \in Ids
          /\ task'[v].pc \in {"lookup"} \cup TellPCs => task'[v].n <= MaxCalls
          /\ task'[v].pc \in {"tell", "record"} => task'[v].s \in Services
    BY <1>0, <1>1 DEF NumbersInv, TaskNumbers, IsLookup, Telling
  <2>3. QED
    BY <1>0, <1>3, <2>1, <2>2 DEF NumbersInv
<1>6. ExtInv' /\ CloseInv' /\ AdminInv'
  BY <1>0, <1>3 DEF ExtInv, Brought, CloseInv, AdminInv, Clears
<1>7. SwappedInv'
  BY <1>0 DEF SwappedInv, Swapped
<1>8. GoneInv'
  BY <1>0 DEF GoneInv, Running
<1>9. QED
  BY <1>4, <1>5, <1>6, <1>7, <1>8 DEF BaseInv

\* Worker w, the only one that is busy, goes from k to l.
OneStep(w, k, l) ==
    /\ task[w] = k /\ task'[w] = l
    /\ \A v \in Workers : v # w => task[v] = Idle /\ task'[v] = Idle

LEMMA IdleTask ==
    /\ ~ IsLookup(Idle) /\ ~ Telling(Idle) /\ ~ TellsProps(Idle) /\ ~ TellsRemoval(Idle)
    /\ Idle.pc \notin {"tell", "record"}
    /\ \A s : ~ IsFirst(Idle, s) /\ ~ ToTell(Idle, s) /\ ~ Recording(Idle, s)
BY DEF IsLookup, Telling, TellPCs, TellsProps, TellsRemoval, Idle, IsFirst, ToTell, Recording

ResetsBy(k, s) == TellsRemoval(k) /\ (ToTell(k, s) \/ Recording(k, s))

\* What is said of some worker is said of w.
LEMMA OneIs ==
    ASSUME NEW w \in Workers, NEW k, NEW l, OneStep(w, k, l), NEW s
    PROVE  /\ Resets(s) <=> ResetsBy(k, s)
           /\ Resets(s)' <=> ResetsBy(l, s)
           /\ (\E v \in Workers : IsFirst(task[v], s)) <=> IsFirst(k, s)
           /\ (\E v \in Workers : IsFirst(task'[v], s)) <=> IsFirst(l, s)
           /\ \A p : UnderWay(s, p) <=> (IsFirst(k, s) => k.p = p)
           /\ \A p : UnderWay(s, p)' <=> (IsFirst(l, s) => l.p = p)
<1>1. \A v \in Workers : v = w \/ (task[v] = Idle /\ task'[v] = Idle)
  BY DEF OneStep
<1>2. task[w] = k /\ task'[w] = l
  BY DEF OneStep
<1>3. /\ Resets(s) <=> ResetsBy(k, s)
      /\ Resets(s)' <=> ResetsBy(l, s)
  BY <1>1, <1>2, IdleTask DEF Resets, ResetsBy
<1>4. /\ (\E v \in Workers : IsFirst(task[v], s)) <=> IsFirst(k, s)
      /\ (\E v \in Workers : IsFirst(task'[v], s)) <=> IsFirst(l, s)
  BY <1>1, <1>2, IdleTask
<1>5. \A p : UnderWay(s, p) <=> (IsFirst(k, s) => k.p = p)
  BY <1>1, <1>2, IdleTask DEF UnderWay
<1>6. \A p : UnderWay(s, p)' <=> (IsFirst(l, s) => l.p = p)
  BY <1>1, <1>2, IdleTask DEF UnderWay
<1>7. QED
  BY <1>3, <1>4, <1>5, <1>6

LEMMA OneTells ==
    ASSUME NEW w \in Workers, NEW k, NEW l, OneStep(w, k, l), NEW s
    PROVE  /\ LiveTelling(s) <=> Behind(0, s, Value) /\ TellsProps(k) /\ k.n = Count /\ ToTell(k, s)
           /\ LiveTelling(s)' <=> Behind(0, s, Value)' /\ TellsProps(l) /\ l.n = Count' /\ ToTell(l, s)
           /\ LiveRecording(s) <=> Behind(0, s, Value) /\ TellsProps(k) /\ k.n = Count /\ Recording(k, s)
           /\ LiveRecording(s)' <=> Behind(0, s, Value)' /\ TellsProps(l) /\ l.n = Count' /\ Recording(l, s)
           /\ ZeroTelling(s) <=> /\ Behind(0, s, Empty) /\ TellsRemoval(k)
                                 /\ ToTell(k, s) \/ (Recording(k, s) /\ Good(s))
           /\ ZeroTelling(s)' <=> /\ Behind(0, s, Empty)' /\ TellsRemoval(l)
                                  /\ ToTell(l, s) \/ (Recording(l, s) /\ Good(s)')
<1>1. \A v \in Workers : v = w \/ (task[v] = Idle /\ task'[v] = Idle)
  BY DEF OneStep
<1>2. task[w] = k /\ task'[w] = l
  BY DEF OneStep
<1>3. /\ LiveTelling(s) <=> Behind(0, s, Value) /\ TellsProps(k) /\ k.n = Count /\ ToTell(k, s)
      /\ LiveTelling(s)' <=> Behind(0, s, Value)' /\ TellsProps(l) /\ l.n = Count' /\ ToTell(l, s)
  BY <1>1, <1>2, IdleTask DEF LiveTelling
<1>4. /\ LiveRecording(s) <=> Behind(0, s, Value) /\ TellsProps(k) /\ k.n = Count /\ Recording(k, s)
      /\ LiveRecording(s)' <=> Behind(0, s, Value)' /\ TellsProps(l) /\ l.n = Count' /\ Recording(l, s)
  BY <1>1, <1>2, IdleTask DEF LiveRecording
<1>5. /\ ZeroTelling(s) <=> /\ Behind(0, s, Empty) /\ TellsRemoval(k)
                            /\ ToTell(k, s) \/ (Recording(k, s) /\ Good(s))
      /\ ZeroTelling(s)' <=> /\ Behind(0, s, Empty)' /\ TellsRemoval(l)
                             /\ ToTell(l, s) \/ (Recording(l, s) /\ Good(s)')
  BY <1>1, <1>2, IdleTask DEF ZeroTelling
<1>6. QED
  BY <1>3, <1>4, <1>5

\* A step of w that changes nothing but its task and what services know.
WStep(w, k, l) == OneStep(w, k, l) /\ UNCHANGED <<objs, current, lock, status, queue, frame>>

LEMMA QueueSays ==
    ASSUME UNCHANGED <<objs, current, lock, status, queue, frame>>
    PROVE  /\ Count' = Count /\ Value' = Value /\ (Live' <=> Live) /\ (Zero' <=> Zero)
           /\ \A i, s, p : Behind(i, s, p)' <=> Behind(i, s, p)
           /\ \A i, s : Behind(i, s, Value)' <=> Behind(i, s, Value)
           /\ Tracked' = Tracked
           /\ \A t : WillPost(t)' <=> WillPost(t)
           /\ \A x : Announces(x)' <=> Announces(x)
<1>1. Count' = Count /\ Value' = Value /\ (Live' <=> Live) /\ (Zero' <=> Zero)
  BY DEF Count, Value, Live, Zero
<1>2. \A i, s, p : Behind(i, s, p)' <=> Behind(i, s, p)
  BY DEF Behind
<1>3. \A i, s : Behind(i, s, Value)' <=> Behind(i, s, Value)
  BY <1>1 DEF Behind
<1>4. Tracked' = Tracked /\ \A t : WillPost(t)' <=> WillPost(t)
  BY DEF Tracked, WillPost
<1>5. \A x : Announces(x)' <=> Announces(x)
  BY <1>1 DEF Announces
<1>6. QED
  BY <1>1, <1>2, <1>3, <1>4, <1>5

\* Neither before nor after it is the task one that looks up.
LEMMA WFacts ==
    ASSUME NEW w \in Workers, NEW k, NEW l, WStep(w, k, l), ~ IsLookup(k), ~ IsLookup(l)
    PROVE  /\ Stale' <=> Stale
           /\ \A s : (LiveComing(s)' <=> LiveComing(s)) /\ (ZeroComing(s)' <=> ZeroComing(s))
           /\ ObjsInv => ObjsInv'
           /\ AddingInv => AddingInv'
           /\ OneWorker'
<1>0. UNCHANGED <<objs, current, lock, status, queue, frame>>
  BY DEF WStep
<1>1. \A v \in Workers : ~ IsLookup(task[v]) /\ ~ IsLookup(task'[v])
  BY IdleTask DEF WStep, OneStep
<1>2. \A v \in Workers : ~ Announces(task[v]) /\ ~ Announces(task[v])'
  BY <1>1 DEF Announces
<1>3. Stale' <=> Stale
  BY <1>0, <1>1, QueueSays DEF Stale
<1>4. \A s : LiveComing(s)' <=> LiveComing(s)
  <2>1. ASSUME NEW s PROVE LiveComing(s)' <=> LiveComing(s)
    <3>1. (\E i \in 1 .. Len(queue) : Announces(queue[i]) /\ Behind(i, s, Value))'
            <=> \E i \in 1 .. Len(queue) : Announces(queue[i]) /\ Behind(i, s, Value)
      <4>1. \A i : Announces(queue[i])' <=> Announces(queue[i])
        BY <1>0, QueueSays DEF Announces
      <4>2. QED
        BY <1>0, <4>1, QueueSays
    <3>2. /\ (\E t \in Threads : WillPost(t) /\ frame[t].pc # "removed" /\ frame[t].o = current /\ frame[t].n = Count)'
            <=> \E t \in Threads : WillPost(t) /\ frame[t].pc # "removed" /\ frame[t].o = current /\ frame[t].n = Count
          /\ (\E t \in Threads : frame[t].pc = "notify" /\ frame[t].o = current)'
            <=> \E t \in Threads : frame[t].pc = "notify" /\ frame[t].o = current
      BY <1>0, QueueSays
    <3>3. QED
      BY <1>2, <3>1, <3>2 DEF LiveComing
  <2>2. QED
    BY <2>1
<1>5. \A s : ZeroComing(s)' <=> ZeroComing(s)
  <2>1. ASSUME NEW s PROVE ZeroComing(s)' <=> ZeroComing(s)
    BY <1>0, <1>1, QueueSays DEF ZeroComing
  <2>2. QED
    BY <2>1
<1>6. ObjsInv => ObjsInv'
  <2>1. Ids' = Ids /\ Count' = Count
    BY <1>0, QueueSays DEF Ids
  <2>2. QED
    BY <1>0, <1>1, <2>1 DEF ObjsInv
<1>7. AddingInv => AddingInv'
  <2>1. Announced => Announced'
    <3>1. \A i : Announces(queue[i])' <=> Announces(queue[i])
      BY <1>0, QueueSays DEF Announces
    <3>2. QED
      BY <1>0, <1>2, <3>1 DEF Announced
  <2>2. Count' = Count /\ Value' = Value /\ (Live' <=> Live)
    BY <1>0, QueueSays
  <2>3. QED
    BY <1>0, <2>1, <2>2 DEF AddingInv
<1>8. OneWorker'
  BY DEF OneWorker, WStep, OneStep
<1>9. QED
  BY <1>3, <1>4, <1>5, <1>6, <1>7, <1>8

\* The step is none that matters to service s.
Untouched(k, l, s) ==
    /\ told'[s] = told[s] /\ last'[s] = last[s]
    /\ IsFirst(l, s) <=> IsFirst(k, s)
    /\ IsFirst(l, s) => l.p = k.p
    /\ ToTell(l, s) <=> ToTell(k, s)
    /\ Recording(l, s) <=> Recording(k, s)
    /\ ToTell(k, s) \/ Recording(k, s) => l.n = k.n /\ l.removed = k.removed

LEMMA UntouchedKeeps ==
    ASSUME NEW w \in Workers, NEW k, NEW l, WStep(w, k, l), ~ IsLookup(k), ~ IsLookup(l), NEW s,
           Untouched(k, l, s)
    PROVE  /\ LiveOK(s) => LiveOK(s)'
           /\ ZeroOK(s) => ZeroOK(s)'
           /\ Resets(s)' <=> Resets(s)
<1>0. UNCHANGED <<objs, current, lock, status, queue, frame>> /\ OneStep(w, k, l)
  BY DEF WStep
<1>1. \A x : (ToTell(x, s) => Telling(x)) /\ (Recording(x, s) => Telling(x))
  BY DEF ToTell, Recording, Telling, TellPCs
<1>2. /\ TellsProps(k) /\ ToTell(k, s) => TellsProps(l) /\ ToTell(l, s) /\ l.n = k.n
      /\ TellsProps(k) /\ Recording(k, s) => TellsProps(l) /\ Recording(l, s) /\ l.n = k.n
      /\ TellsRemoval(k) /\ ToTell(k, s) <=> TellsRemoval(l) /\ ToTell(l, s)
      /\ TellsRemoval(k) /\ Recording(k, s) <=> TellsRemoval(l) /\ Recording(l, s)
  BY <1>1 DEF Untouched, TellsProps, TellsRemoval
<1>3. Resets(s)' <=> Resets(s)
  BY <1>0, <1>2, OneIs DEF ResetsBy
<1>4. Count' = Count /\ Value' = Value /\ (Behind(0, s, Value)' <=> Behind(0, s, Value)) /\ (Behind(0, s, Empty)' <=> Behind(0, s, Empty))
  BY <1>0, QueueSays
<1>5. /\ LiveTelling(s) => LiveTelling(s)'
      /\ LiveRecording(s) => LiveRecording(s)'
  BY <1>0, <1>2, <1>4, OneTells
<1>6. told'[s] = told[s] /\ last'[s] = last[s] /\ (Good(s)' <=> Good(s))
  BY DEF Untouched, Good
<1>7. ZeroTelling(s) => ZeroTelling(s)'
  BY <1>0, <1>2, <1>4, <1>6, OneTells
<1>8. UnderWay(s, Value) => UnderWay(s, Value)'
  <2>1. PICK p : p = Value
    OBVIOUS
  <2>2. UnderWay(s, p) => UnderWay(s, p)'
    BY <1>0, OneIs DEF Untouched
  <2>3. Value' = p
    BY <1>4, <2>1
  <2>4. UnderWay(s, Value)' <=> UnderWay(s, p)'
    BY <2>3 DEF UnderWay
  <2>5. QED
    BY <2>1, <2>2, <2>4
<1>9. UnderWay(s, Empty) => UnderWay(s, Empty)'
  BY <1>0, OneIs DEF Untouched
<1>10. FirstCall(s) => FirstCall(s)'
  BY <1>0, OneIs DEF Untouched, FirstCall
<1>11. LiveComing(s) => LiveComing(s)'
  BY WFacts
<1>12. ZeroComing(s) => ZeroComing(s)'
  BY WFacts
<1>13. LiveKnown(s) => LiveKnown(s)'
  BY <1>3, <1>4, <1>6, <1>8, <1>10 DEF LiveKnown
<1>14. ZeroKnown(s) => ZeroKnown(s)'
  BY <1>4, <1>6, <1>9 DEF ZeroKnown
<1>15. LiveOK(s) => LiveOK(s)'
  BY <1>3, <1>4, <1>5, <1>6, <1>11, <1>13 DEF LiveOK
<1>16. ZeroOK(s) => ZeroOK(s)'
  BY <1>7, <1>12, <1>14 DEF ZeroOK
<1>17. QED
  BY <1>3, <1>15, <1>16

\* The step tells nothing that was not told before it.
Continues(k, l) == TellsProps(l) => TellsProps(k) /\ l.n = k.n /\ l.p = k.p

LEMMA FirstKept ==
    ASSUME NEW w \in Workers, NEW k, NEW l, WStep(w, k, l), ~ IsLookup(k), ~ IsLookup(l), FirstInv,
           Continues(k, l), \A s \in Services : last'[s] = last[s] /\ (ResetsBy(l, s) => ResetsBy(k, s))
    PROVE  FirstInv'
<1>0. UNCHANGED <<objs, current, lock, status, queue, frame>> /\ OneStep(w, k, l)
  BY DEF WStep
<1>1. (Live' <=> Live) /\ (Stale' <=> Stale)
  BY <1>0, QueueSays, WFacts
<1>2. \A s \in Services : Resets(s)' => Resets(s)
  BY <1>0, OneIs
<1>3. ASSUME NEW v \in Workers, IsLookup(task'[v]) \/ TellsProps(task'[v])
      PROVE  TellsProps(task[v]) /\ task'[v].n = task[v].n
  BY <1>0, <1>3, IdleTask DEF OneStep, Continues
<1>4. QED
  BY <1>0, <1>1, <1>2, <1>3 DEF FirstInv

LEMMA WorkerKeeps ==
    ASSUME NewsOK, NEW w \in Workers, NEW k, NEW l, WStep(w, k, l), ~ IsLookup(k), ~ IsLookup(l), Continues(k, l),
           NEW T \in SUBSET Services, \A s \in Services \ T : Untouched(k, l, s),
           \A s \in T : status[s] # "new",
           \A s \in T : Live /\ ~Stale /\ LiveOK(s) => LiveOK(s)',
           \A s \in T : Zero /\ ZeroOK(s) => ZeroOK(s)',
           SayInv', FirstInv'
    PROVE  NewsOK'
<1>0. LiveInv /\ ZeroInv /\ TellerInv /\ NewsInv /\ ObjsInv /\ AddingInv
  BY DEF NewsOK
<1>1. UNCHANGED <<objs, current, lock, status, queue, frame>> /\ OneStep(w, k, l)
  BY DEF WStep
<1>2. (Live' <=> Live) /\ (Zero' <=> Zero) /\ (Stale' <=> Stale) /\ Tracked' = Tracked /\ Tracked \subseteq Services
  BY <1>1, QueueSays, WFacts DEF Tracked
<1>3. LiveInv'
  <2>1. ASSUME NEW s \in Services, Live, ~Stale, LiveOK(s) PROVE LiveOK(s)'
    BY <2>1, UntouchedKeeps
  <2>2. QED
    BY <1>0, <1>2, <2>1 DEF LiveInv
<1>4. ZeroInv'
  <2>1. ASSUME NEW s \in Services, Zero, ZeroOK(s) PROVE ZeroOK(s)'
    BY <2>1, UntouchedKeeps
  <2>2. QED
    BY <1>0, <1>2, <2>1 DEF ZeroInv
<1>5. TellerInv'
  <2>1. ASSUME NEW v \in Workers, TellsProps(task'[v])
        PROVE  TellsProps(task[v]) /\ task'[v].n = task[v].n /\ task'[v].p = task[v].p
    BY <1>1, <2>1, IdleTask DEF OneStep, Continues
  <2>2. Count' = Count /\ Value' = Value /\ \A t : WillPost(t)' <=> WillPost(t)
    BY <1>1, QueueSays
  <2>3. QED
    BY <1>0, <1>1, <1>2, <2>1, <2>2 DEF TellerInv
<1>6. NewsInv'
  <2>1. ASSUME NEW s \in Services, status[s] = "new"
        PROVE  /\ last'[s] = 0 /\ told'[s] = NONE /\ ~ FirstCall(s)'
               /\ \A v \in Workers : ~ ToTell(task'[v], s) /\ ~ Recording(task'[v], s)
    <3>1. Untouched(k, l, s)
      BY <2>1
    <3>2. /\ last[s] = 0 /\ told[s] = NONE /\ ~ FirstCall(s)
          /\ \A v \in Workers : ~ ToTell(task[v], s) /\ ~ Recording(task[v], s)
      BY <1>0, <2>1 DEF NewsInv
    <3>3. ~ FirstCall(s)'
      BY <1>1, <3>1, <3>2, OneIs DEF FirstCall, Untouched
    <3>4. \A v \in Workers : ~ ToTell(task'[v], s) /\ ~ Recording(task'[v], s)
      BY <1>1, <3>1, <3>2, IdleTask DEF OneStep, Untouched
    <3>5. QED
      BY <3>1, <3>2, <3>3, <3>4 DEF Untouched
  <2>2. QED
    BY <1>1, <2>1 DEF NewsInv
<1>7. ObjsInv' /\ AddingInv' /\ OneWorker'
  BY <1>0, WFacts
<1>8. QED
  BY <1>3, <1>4, <1>5, <1>6, <1>7 DEF NewsOK

\* No service is concerned.
LEMMA WorkerQuiet ==
    ASSUME NewsOK, NEW w \in Workers, NEW k, NEW l, WStep(w, k, l), ~ IsLookup(k), ~ IsLookup(l), Continues(k, l),
           \A s \in Services : Untouched(k, l, s), SayInv'
    PROVE  NewsOK'
<1>1. FirstInv'
  <2>1. \A s \in Services : last'[s] = last[s] /\ (ResetsBy(l, s) => ResetsBy(k, s))
    <3>1. ASSUME NEW s \in Services PROVE last'[s] = last[s] /\ (ResetsBy(l, s) => ResetsBy(k, s))
      <4>1. OneStep(w, k, l) /\ (Resets(s)' <=> Resets(s))
        BY UntouchedKeeps DEF WStep
      <4>2. QED
        BY <4>1, OneIs DEF Untouched
    <3>2. QED
      BY <3>1
  <2>2. FirstInv
    BY DEF NewsOK
  <2>3. QED
    BY <2>1, <2>2, FirstKept
<1>2. PICK T \in SUBSET Services : T = {}
  OBVIOUS
<1>3. \A s \in Services \ T : Untouched(k, l, s)
  BY <1>2
<1>4. /\ \A s \in T : status[s] # "new"
      /\ \A s \in T : Live /\ ~Stale /\ LiveOK(s) => LiveOK(s)'
      /\ \A s \in T : Zero /\ ZeroOK(s) => ZeroOK(s)'
  BY <1>2
<1>5. QED
  BY <1>1, <1>3, <1>4, WorkerKeeps

\* A worker that is busy is the only one.
LEMMA OneBusy ==
    ASSUME OneWorker, task \in [Workers -> TaskType], NEW w \in Workers, task[w] # Idle, NEW l,
           task' = [task EXCEPT ![w] = l]
    PROVE  OneStep(w, task[w], l)
BY DEF OneWorker, OneStep

LEMMA HoldIs ==
    /\ Hold \in TaskType /\ TaskNumbers(Hold) /\ Hold # Idle
    /\ ~ IsLookup(Hold) /\ ~ Telling(Hold) /\ ~ TellsProps(Hold) /\ ~ TellsRemoval(Hold)
    /\ Hold.pc = "finish" /\ Hold.pc \notin {"tell", "record"}
    /\ \A s : ~ IsFirst(Hold, s) /\ ~ ToTell(Hold, s) /\ ~ Recording(Hold, s) /\ ~ ResetsBy(Hold, s)
BY DEF TaskType, PostType, TaskNumbers, IsLookup, Telling, TellPCs, TellsProps, TellsRemoval, Hold, Idle, IsFirst,
       ToTell, Recording, ResetsBy


LEMMA FinishKeeps ==
    ASSUME IInv, NEW w \in Workers, Finish(w) PROVE IInv'
<1>0. BaseInv /\ TellInv /\ TypeInv
  BY DEF IInv, BaseInv
<1>1. /\ task[w] = Hold /\ task' = [task EXCEPT ![w] = Idle]
      /\ UNCHANGED <<kind, objs, current, lock, status, last, told, queue, frame, ext, phase, calls, throws, lapses>>
  BY DEF Finish, tracking, bounds
<1>2. Idle \in TaskType /\ TaskNumbers(Idle)
  BY IdleTask DEF TaskType, TaskNumbers
<1>3. BaseInv'
  <2>1. last' \in [Services -> 0 .. MaxCalls] /\ told' \in [Services -> Props \cup {NONE}] /\ throws' \in Nat
    BY <1>0, <1>1 DEF TypeInv
  <2>2. lapses \subseteq lapses' /\ lapses' \subseteq Lapses
    BY <1>0, <1>1 DEF TypeInv
  <2>3. QED
    BY <1>0, <1>1, <1>2, <2>1, <2>2, HoldIs, WorkerBase
<1>4. ASSUME NewsOK PROVE NewsOK'
  <2>0. OneWorker /\ SayInv
    BY <1>4 DEF NewsOK
  <2>1. WStep(w, Hold, Idle)
    BY <1>0, <1>1, <2>0, HoldIs, OneBusy DEF WStep, TypeInv
  <2>2. ~ IsLookup(Hold) /\ ~ IsLookup(Idle) /\ Continues(Hold, Idle)
    BY HoldIs, IdleTask DEF Continues
  <2>3. \A s \in Services : Untouched(Hold, Idle, s)
    BY <1>1, HoldIs, IdleTask DEF Untouched
  <2>4. SayInv'
    BY <1>0, <1>1, <2>0, IdleTask DEF SayInv, TypeInv
  <2>5. QED
    BY <1>4, <2>1, <2>2, <2>3, <2>4, WorkerQuiet
<1>5. QED
  BY <1>0, <1>1, <1>3, <1>4 DEF IInv, TellInv

\* Steps within a task that tells.
LEMMA TellIs ==
    ASSUME NEW k \in TellType
    PROVE  /\ k \in TaskType /\ k # Idle /\ Telling(k) /\ ~ IsLookup(k) /\ \A s : ~ IsFirst(k, s)
           /\ k.pc \in TellPCs /\ k.n \in Nat /\ k.removed \in BOOLEAN /\ k.p \in Props /\ k.todo \subseteq Services
           /\ TellsProps(k) <=> ~ k.removed
           /\ TellsRemoval(k) <=> k.removed
BY DEF TellType, TaskType, TellPCs, Telling, TellsProps, TellsRemoval, IsLookup, IsFirst, Idle

LEMMA PcIs ==
    ASSUME NEW k \in TellType, NEW pc \in TellPCs
    PROVE  /\ [k EXCEPT !.pc = pc] \in TellType
           /\ [k EXCEPT !.pc = pc].pc = pc /\ [k EXCEPT !.pc = pc].n = k.n
           /\ [k EXCEPT !.pc = pc].removed = k.removed /\ [k EXCEPT !.pc = pc].p = k.p
           /\ [k EXCEPT !.pc = pc].todo = k.todo /\ [k EXCEPT !.pc = pc].s = k.s
BY DEF TellType

SayOf(k) ==
    /\ k.removed => k.p = Empty
    /\ k.pc \in {"tell", "record"} => k.s \notin k.todo
    /\ ~ k.removed /\ k.pc \in {"tell", "record"} => last[k.s] < k.n
    /\ ~ k.removed /\ k.pc = "record" => told[k.s] = k.p

LEMMA SayIs ==
    ASSUME SayInv, NEW w \in Workers, task[w] \in TellType
    PROVE  SayOf(task[w])
BY TellIs DEF SayInv, SayOf

LEMMA SayKept ==
    ASSUME NEW w \in Workers, NEW k, NEW l \in TellType, OneStep(w, k, l), SayOf(l)'
    PROVE  SayInv'
<1>1. task'[w] = l /\ \A v \in Workers : v # w => task'[v] = Idle
  BY DEF OneStep
<1>2. ASSUME NEW v \in Workers
      PROVE  /\ TellsRemoval(task'[v]) => task'[v].p = Empty
             /\ task'[v].pc \in {"tell", "record"} => task'[v].s \notin task'[v].todo
             /\ TellsProps(task'[v]) /\ task'[v].pc \in {"tell", "record"} => last'[task'[v].s] < task'[v].n
             /\ TellsProps(task'[v]) /\ task'[v].pc = "record" => told'[task'[v].s] = task'[v].p
  <2>1. CASE v = w
    BY <1>1, <2>1, TellIs DEF SayOf
  <2>2. CASE v # w
    BY <1>1, <2>2, IdleTask
  <2>3. QED
    BY <2>1, <2>2
<1>3. QED
  BY <1>2 DEF SayInv

LEMMA KnownKept ==
    ASSUME NEW w \in Workers, NEW k, NEW l, WStep(w, k, l), ~ IsLookup(k), ~ IsLookup(l), NEW s,
           told'[s] = told[s], last'[s] = last[s], ~ IsFirst(k, s), ~ IsFirst(l, s),
           ResetsBy(l, s) => ResetsBy(k, s)
    PROVE  /\ LiveKnown(s) => LiveKnown(s)'
           /\ ZeroKnown(s) => ZeroKnown(s)'
<1>0. UNCHANGED <<objs, current, lock, status, queue, frame>> /\ OneStep(w, k, l)
  BY DEF WStep
<1>1. Count' = Count /\ Value' = Value /\ (Behind(0, s, Value)' <=> Behind(0, s, Value)) /\ (Behind(0, s, Empty)' <=> Behind(0, s, Empty))
  BY <1>0, QueueSays
<1>2. Resets(s)' => Resets(s)
  BY <1>0, OneIs
<1>3. ~ \E v \in Workers : IsFirst(task'[v], s)
  BY <1>0, OneIs
<1>4. UnderWay(s, Value)' /\ UnderWay(s, Empty)'
  BY <1>3 DEF UnderWay
<1>5. FirstCall(s) => FirstCall(s)'
  <2>1. ~ \E v \in Workers : IsFirst(task[v], s)
    BY <1>0, OneIs
  <2>2. QED
    BY <1>0, <2>1 DEF FirstCall
<1>6. QED
  BY <1>1, <1>2, <1>4, <1>5 DEF LiveKnown, ZeroKnown, Good

LEMMA TellBase ==
    ASSUME IInv, NEW w \in Workers, task[w].pc \in TellPCs, NEW l \in TellType, task' = [task EXCEPT ![w] = l],
           l.n = task[w].n, l.pc \in {"tell", "record"} => l.s \in Services,
           UNCHANGED <<kind, objs, current, lock, status, queue, frame, ext, phase, calls, throws, lapses>>,
           last' \in [Services -> 0 .. MaxCalls], told' \in [Services -> Props \cup {NONE}]
    PROVE  BaseInv' /\ (OneWorker => WStep(w, task[w], l))
<1>0. BaseInv /\ TypeInv /\ NumbersInv
  BY DEF IInv, BaseInv
<1>1. task[w] \in TellType /\ task[w].n <= MaxCalls
  BY <1>0, TaskFacts DEF TypeInv, NumbersInv
<1>2. TaskNumbers(l)
  BY <1>1, TellIs DEF TaskNumbers
<1>3. l \in TaskType /\ task[w] # Idle
  BY <1>1, TellIs
<1>4. throws' \in Nat /\ lapses \subseteq lapses' /\ lapses' \subseteq Lapses
  BY <1>0 DEF TypeInv
<1>5. BaseInv'
  BY <1>0, <1>2, <1>3, <1>4, WorkerBase
<1>6. OneWorker => WStep(w, task[w], l)
  BY <1>0, <1>3, OneBusy DEF WStep, TypeInv
<1>7. QED
  BY <1>5, <1>6

LEMMA CallListenersKeeps ==
    ASSUME IInv, NEW w \in Workers, CallListeners(w) PROVE IInv'
<1>0. BaseInv /\ TellInv /\ TypeInv /\ NumbersInv
  BY DEF IInv, BaseInv
<1>1. PICK k : k = task[w]
  OBVIOUS
<1>2. k.pc = "listeners" /\ k \in TellType /\ k.pc \in TellPCs
  BY <1>0, <1>1, TaskFacts DEF CallListeners, TellPCs, TypeInv
<1>3. UNCHANGED <<kind, objs, current, lock, status, last, told, queue, frame, ext, phase, calls>>
  BY DEF CallListeners, tracking
<1>4. last' \in [Services -> 0 .. MaxCalls] /\ told' \in [Services -> Props \cup {NONE}]
  BY <1>0, <1>3 DEF TypeInv
<1>5. CASE task' = [task EXCEPT ![w].pc = "check"] /\ UNCHANGED <<throws, lapses>>
  <2>1. PICK l : l = [k EXCEPT !.pc = "check"]
    OBVIOUS
  <2>2. /\ l \in TellType /\ l.pc = "check" /\ l.n = k.n /\ l.removed = k.removed /\ l.p = k.p
        /\ l.todo = k.todo /\ l.s = k.s
    BY <1>2, <2>1, PcIs DEF TellPCs
  <2>3. task' = [task EXCEPT ![w] = l]
    BY <1>1, <1>5, <2>1
  <2>4. BaseInv' /\ (OneWorker => WStep(w, k, l))
    BY <1>1, <1>2, <1>3, <1>4, <1>5, <2>2, <2>3, TellBase
  <2>5. ASSUME NewsOK PROVE NewsOK'
    <3>0. SayInv /\ OneWorker
      BY <2>5 DEF NewsOK
    <3>1. ~ IsLookup(k) /\ ~ IsLookup(l) /\ Continues(k, l)
      BY <1>2, <2>2, TellIs DEF Continues
    <3>2. ASSUME NEW s \in Services PROVE Untouched(k, l, s)
      <4>1. ~ IsFirst(k, s) /\ ~ IsFirst(l, s) /\ Telling(k) /\ Telling(l)
        BY <1>2, <2>2, TellIs
      <4>2. (ToTell(l, s) <=> ToTell(k, s)) /\ ~ Recording(k, s) /\ ~ Recording(l, s)
        BY <1>2, <2>2, <4>1 DEF ToTell, Recording
      <4>3. QED
        BY <1>3, <2>2, <4>1, <4>2 DEF Untouched
    <3>3. SayInv'
      <4>1. SayOf(k)
        BY <1>1, <1>2, <3>0, SayIs
      <4>2. SayOf(l)'
        BY <2>2, <4>1 DEF SayOf
      <4>3. OneStep(w, k, l)
        BY <2>4, <3>0 DEF WStep
      <4>4. QED
        BY <2>2, <4>2, <4>3, SayKept
    <3>4. QED
      BY <2>4, <2>5, <3>0, <3>1, <3>2, <3>3, WorkerQuiet
  <2>6. QED
    BY <1>0, <1>3, <1>5, <2>4, <2>5 DEF IInv, TellInv
<1>6. CASE throws' = throws + 1 /\ task' = [task EXCEPT ![w] = Hold] /\ lapses' = lapses \cup {"thrown"}
  <2>1. throws' \in Nat /\ lapses \subseteq lapses' /\ lapses' \subseteq Lapses
    BY <1>0, <1>6 DEF TypeInv, Lapses
  <2>2. task[w] # Idle
    BY <1>1, <1>2, TellIs
  <2>3. BaseInv'
    BY <1>0, <1>3, <1>4, <1>6, <2>1, <2>2, HoldIs, WorkerBase
  <2>4. QED
    BY <1>6, <2>3 DEF IInv, TellInv
<1>7. QED
  BY <1>5, <1>6 DEF CallListeners

LEMMA CheckKeeps ==
    ASSUME IInv, NEW w \in Workers, Check(w) PROVE IInv'
<1>0. BaseInv /\ TellInv /\ TypeInv /\ NumbersInv
  BY DEF IInv, BaseInv
<1>1. PICK k : k = task[w]
  OBVIOUS
<1>2. k.pc = "check" /\ k \in TellType /\ k.pc \in TellPCs
  BY <1>0, <1>1, TaskFacts, ZenonT(60) DEF Check, TellPCs, TypeInv
<1>3. UNCHANGED <<kind, objs, current, lock, status, last, told, queue, frame, ext, phase, calls, throws, lapses>>
  BY DEF Check, tracking, bounds
<1>4. /\ last' \in [Services -> 0 .. MaxCalls] /\ told' \in [Services -> Props \cup {NONE}]
      /\ last \in [Services -> Nat]
  BY <1>0, <1>3 DEF TypeInv
<1>5. /\ k \in TaskType /\ k # Idle /\ ~ IsLookup(k) /\ Telling(k) /\ k.todo \subseteq Services /\ k.n \in Nat
      /\ \A s : ~ IsFirst(k, s) /\ ~ Recording(k, s)
      /\ \A s : ToTell(k, s) <=> s \in k.todo
      /\ TellsProps(k) <=> ~ k.removed
      /\ TellsRemoval(k) <=> k.removed
  BY <1>2, TellIs DEF Recording, ToTell
<1>6. CASE k.todo = {} /\ task' = [task EXCEPT ![w] = Hold]
  <2>1. throws' \in Nat /\ lapses \subseteq lapses' /\ lapses' \subseteq Lapses
    BY <1>0, <1>3 DEF TypeInv
  <2>2. task[w] # Idle
    BY <1>1, <1>5
  <2>3. BaseInv'
    BY <1>0, <1>3, <1>4, <1>6, <2>1, <2>2, HoldIs, WorkerBase
  <2>4. ASSUME NewsOK PROVE NewsOK'
    <3>0. OneWorker
      BY <2>4 DEF NewsOK
    <3>1. WStep(w, k, Hold)
      BY <1>0, <1>1, <1>3, <1>6, <2>2, <3>0, OneBusy DEF WStep, TypeInv
    <3>2. ~ IsLookup(k) /\ ~ IsLookup(Hold) /\ Continues(k, Hold)
      BY <1>5, HoldIs DEF Continues
    <3>3. \A s \in Services : Untouched(k, Hold, s)
      BY <1>3, <1>5, <1>6, HoldIs DEF Untouched
    <3>4. SayInv'
      BY <3>1, IdleTask, HoldIs DEF SayInv, WStep, OneStep
    <3>5. QED
      BY <2>4, <3>1, <3>2, <3>3, <3>4, WorkerQuiet
  <2>5. QED
    BY <1>0, <1>3, <2>3, <2>4 DEF IInv, TellInv
<1>7. ASSUME NEW z \in k.todo, k.removed \/ last[z] < k.n,
             task' = [task EXCEPT ![w] = [k EXCEPT !.pc = "tell", !.s = z, !.todo = @ \ {z}]]
      PROVE  IInv'
  <2>1. PICK l : l = [k EXCEPT !.pc = "tell", !.s = z, !.todo = @ \ {z}]
    OBVIOUS
  <2>2. /\ l \in TellType /\ l.pc = "tell" /\ l.n = k.n /\ l.removed = k.removed /\ l.p = k.p
        /\ l.todo = k.todo \ {z} /\ l.s = z /\ z \in Services
    BY <1>2, <1>5, <2>1 DEF TellType, TellPCs
  <2>3. task' = [task EXCEPT ![w] = l]
    BY <1>7, <2>1
  <2>4. BaseInv' /\ (OneWorker => WStep(w, k, l))
    BY <1>1, <1>2, <1>3, <1>4, <2>2, <2>3, TellBase
  <2>5. ASSUME NewsOK PROVE NewsOK'
    <3>0. SayInv /\ OneWorker
      BY <2>5 DEF NewsOK
    <3>1. ~ IsLookup(k) /\ ~ IsLookup(l) /\ Continues(k, l)
      BY <1>2, <2>2, TellIs DEF Continues
    <3>2. ASSUME NEW s \in Services PROVE Untouched(k, l, s)
      <4>1. ~ IsFirst(l, s) /\ Telling(l)
        BY <2>2, TellIs
      <4>2. (ToTell(l, s) <=> ToTell(k, s)) /\ ~ Recording(l, s)
        BY <1>5, <2>2, <4>1 DEF ToTell, Recording
      <4>3. QED
        BY <1>3, <1>5, <2>2, <4>1, <4>2 DEF Untouched
    <3>3. SayInv'
      <4>1. SayOf(k)
        BY <1>1, <1>2, <3>0, SayIs
      <4>2. SayOf(l)'
        BY <1>3, <1>7, <2>2, <4>1 DEF SayOf
      <4>3. OneStep(w, k, l)
        BY <2>4, <3>0 DEF WStep
      <4>4. QED
        BY <2>2, <4>2, <4>3, SayKept
    <3>4. QED
      BY <2>4, <2>5, <3>0, <3>1, <3>2, <3>3, WorkerQuiet
  <2>6. QED
    BY <1>0, <1>3, <2>4, <2>5 DEF IInv, TellInv
<1>8. ASSUME NEW z \in k.todo, ~ k.removed, ~ (last[z] < k.n),
             task' = [task EXCEPT ![w] = [k EXCEPT !.todo = @ \ {z}]]
      PROVE  IInv'
  <2>1. PICK l : l = [k EXCEPT !.todo = @ \ {z}]
    OBVIOUS
  <2>2. /\ l \in TellType /\ l.pc = "check" /\ l.n = k.n /\ l.removed = k.removed /\ l.p = k.p
        /\ l.todo = k.todo \ {z} /\ l.s = k.s /\ z \in Services
    BY <1>2, <1>5, <2>1 DEF TellType, TellPCs
  <2>3. task' = [task EXCEPT ![w] = l]
    BY <1>8, <2>1
  <2>4. BaseInv' /\ (OneWorker => WStep(w, k, l))
    BY <1>1, <1>2, <1>3, <1>4, <2>2, <2>3, TellBase
  <2>5. ASSUME NewsOK PROVE NewsOK'
    <3>0. SayInv /\ OneWorker /\ FirstInv /\ NewsInv /\ ObjsInv
      BY <2>5 DEF NewsOK
    <3>1. ~ IsLookup(k) /\ ~ IsLookup(l) /\ Continues(k, l) /\ WStep(w, k, l) /\ OneStep(w, k, l)
      BY <1>2, <2>2, <2>4, <3>0, TellIs DEF Continues, WStep
    <3>2. /\ \A s : ~ IsFirst(l, s) /\ ~ Recording(l, s)
          /\ \A s : ToTell(l, s) <=> s \in k.todo \ {z}
          /\ ~ TellsRemoval(k) /\ ~ TellsRemoval(l)
      BY <1>5, <1>8, <2>2, TellIs DEF ToTell, Recording
    <3>3. PICK T \in SUBSET Services : T = {z}
      BY <2>2
    <3>4. \A s \in Services \ T : Untouched(k, l, s)
      BY <1>3, <1>5, <2>2, <3>2, <3>3 DEF Untouched
    <3>5. status[z] # "new"
      BY <1>1, <1>5, <2>2, <3>0 DEF NewsInv
    <3>6. /\ LiveKnown(z) => LiveKnown(z)'
          /\ ZeroKnown(z) => ZeroKnown(z)'
      <4>1. told'[z] = told[z] /\ last'[z] = last[z] /\ ~ IsFirst(k, z) /\ ~ IsFirst(l, z) /\ (ResetsBy(l, z) => ResetsBy(k, z))
        BY <1>3, <1>5, <3>2 DEF ResetsBy
      <4>2. QED
        BY <3>1, <4>1, KnownKept
    <3>7. /\ LiveComing(z) => LiveComing(z)'
          /\ ZeroComing(z) => ZeroComing(z)'
      BY <3>1, WFacts
    <3>8. ASSUME Live, ~Stale, LiveOK(z) PROVE LiveOK(z)'
      <4>1. ~ Resets(z) /\ Count' = Count /\ last'[z] = last[z]
        BY <1>3, <3>1, <3>2, OneIs, QueueSays DEF ResetsBy, WStep
      <4>2. Count \in Nat /\ last[z] \in Nat
        <5>1. current \in Ids
          BY <1>0, <3>8 DEF Live, TypeInv, Ids
        <5>2. QED
          BY <1>0, <1>4, <2>2, <5>1, ObjIs DEF Count, TypeInv
      <4>3. last[z] < Count => ~ LiveTelling(z) /\ ~ LiveRecording(z)
        <5>1. LiveTelling(z) => k.n = Count
          BY <3>1, OneTells
        <5>2. LiveRecording(z) => Recording(k, z)
          BY <3>1, OneTells
        <5>3. QED
          BY <1>5, <1>8, <4>2, <5>1, <5>2
      <4>4. QED
        BY <3>6, <3>7, <3>8, <4>1, <4>3 DEF LiveOK
    <3>9. ASSUME ZeroOK(z) PROVE ZeroOK(z)'
      <4>1. ~ ZeroTelling(z)
        BY <3>1, <3>2, OneTells
      <4>2. QED
        BY <3>6, <3>7, <3>9, <4>1 DEF ZeroOK
    <3>10. SayInv'
      <4>1. SayOf(k)
        BY <1>1, <1>2, <3>0, SayIs
      <4>2. SayOf(l)'
        BY <1>3, <1>8, <2>2, <4>1 DEF SayOf
      <4>3. QED
        BY <2>2, <3>1, <4>2, SayKept
    <3>11. FirstInv'
      <4>1. \A s \in Services : last'[s] = last[s] /\ (ResetsBy(l, s) => ResetsBy(k, s))
        BY <1>3, <3>2 DEF ResetsBy
      <4>2. QED
        BY <3>0, <3>1, <4>1, FirstKept
    <3>12. /\ \A s \in T : status[s] # "new"
           /\ \A s \in T : Live /\ ~Stale /\ LiveOK(s) => LiveOK(s)'
           /\ \A s \in T : Zero /\ ZeroOK(s) => ZeroOK(s)'
      BY <3>3, <3>5, <3>8, <3>9
    <3>13. QED
      BY <2>5, <3>1, <3>4, <3>10, <3>11, <3>12, WorkerKeeps
  <2>6. QED
    BY <1>0, <1>3, <2>4, <2>5 DEF IInv, TellInv
<1>9. QED
  BY <1>1, <1>6, <1>7, <1>8 DEF Check, NeedsAnUpdateNotification

\* While a worker still tells properties of a configuration that is gone, the removal is on its way.
LEMMA ZeroPending ==
    ASSUME TellerInv, queue \in Seq(PostType), Zero, NEW w \in Workers, NEW k, NEW l, OneStep(w, k, l), TellsProps(k),
           NEW s, ZeroOK(s)
    PROVE  ZeroComing(s)
<1>1. \/ \E t \in Threads : WillPost(t)
      \/ \E i \in 1 .. Len(queue) : IsLookup(queue[i])
  BY DEF TellerInv, OneStep
<1>2. ~ ZeroTelling(s)
  BY OneTells DEF TellsProps, TellsRemoval
<1>3. Behind(0, s, Empty) => \A i \in 1 .. Len(queue) : Behind(i, s, Empty)
  BY DEF Behind
<1>4. QED
  BY <1>1, <1>2, <1>3 DEF ZeroOK, ZeroKnown, ZeroComing

LEMMA CountIsNat ==
    ASSUME TypeInv, Live PROVE Count \in Nat /\ Count > 0 /\ current \in Ids
<1>1. current \in Ids
  BY DEF Live, TypeInv, Ids
<1>2. QED
  BY <1>1, ObjIs DEF Count, TypeInv, Live

LEMMA TellKeeps ==
    ASSUME IInv, NEW w \in Workers, Tell(w) PROVE IInv'
<1>0. BaseInv /\ TellInv /\ TypeInv /\ NumbersInv
  BY DEF IInv, BaseInv
<1>1. PICK k : k = task[w]
  OBVIOUS
<1>2. k.pc = "tell" /\ k \in TellType /\ k.pc \in TellPCs
  BY <1>0, <1>1, TaskFacts DEF Tell, TellPCs, TypeInv
<1>3. UNCHANGED <<kind, objs, current, lock, status, last, queue, frame, ext, phase, calls, throws, lapses>>
  BY DEF Tell, bounds
<1>4. PICK z : z = k.s
  OBVIOUS
<1>5. PICK v : v = (IF k.removed /\ kind = "ManagedServiceFactory" THEN NONE ELSE k.p)
  OBVIOUS
<1>6. /\ k \in TaskType /\ k # Idle /\ ~ IsLookup(k) /\ Telling(k) /\ k.todo \subseteq Services /\ k.n \in Nat
      /\ \A s : ~ IsFirst(k, s) /\ ~ Recording(k, s)
      /\ \A s : ToTell(k, s) <=> s \in k.todo \/ s = z
      /\ TellsProps(k) <=> ~ k.removed
      /\ TellsRemoval(k) <=> k.removed
      /\ k.p \in Props /\ k.removed \in BOOLEAN
  BY <1>2, <1>4, TellIs DEF Recording, ToTell
<1>7. z \in Services /\ v \in Props \cup {NONE} /\ told' = [told EXCEPT ![z] = v]
  <2>1. told' = [told EXCEPT ![z] = v]
    BY <1>1, <1>4, <1>5 DEF Tell
  <2>2. z \in Services
    BY <1>0, <1>1, <1>2, <1>4 DEF NumbersInv
  <2>3. QED
    BY <1>5, <1>6, <2>1, <2>2
<1>8. /\ last' \in [Services -> 0 .. MaxCalls] /\ told' \in [Services -> Props \cup {NONE}]
      /\ told'[z] = v /\ (\A s \in Services : s # z => told'[s] = told[s])
      /\ last \in [Services -> Nat]
  BY <1>0, <1>3, <1>7 DEF TypeInv
<1>9. PICK l : l = [k EXCEPT !.pc = "record"]
  OBVIOUS
<1>10. /\ l \in TellType /\ l.pc = "record" /\ l.n = k.n /\ l.removed = k.removed /\ l.p = k.p
       /\ l.todo = k.todo /\ l.s = z
  BY <1>2, <1>4, <1>9, PcIs DEF TellPCs
<1>11. task' = [task EXCEPT ![w] = l]
  BY <1>1, <1>9 DEF Tell
<1>12. BaseInv' /\ (OneWorker => WStep(w, k, l))
  BY <1>1, <1>2, <1>3, <1>7, <1>8, <1>10, <1>11, TellBase
<1>13. ASSUME NewsOK PROVE NewsOK'
  <2>0. SayInv /\ OneWorker /\ FirstInv /\ NewsInv /\ TellerInv
    BY <1>13 DEF NewsOK
  <2>1. ~ IsLookup(k) /\ ~ IsLookup(l) /\ Continues(k, l) /\ WStep(w, k, l) /\ OneStep(w, k, l)
    BY <1>2, <1>10, <1>12, <2>0, TellIs DEF Continues, WStep
  <2>2. /\ \A s : ~ IsFirst(l, s)
        /\ \A s : Recording(l, s) <=> s = z
        /\ \A s : ToTell(l, s) <=> s \in k.todo
        /\ TellsProps(l) <=> ~ k.removed
        /\ TellsRemoval(l) <=> k.removed
    BY <1>10, TellIs DEF ToTell, Recording
  <2>3. PICK T \in SUBSET Services : T = {z}
    BY <1>7
  <2>4. \A s \in Services \ T : Untouched(k, l, s)
    BY <1>3, <1>6, <1>8, <1>10, <2>2, <2>3 DEF Untouched
  <2>5. status[z] # "new"
    BY <1>1, <1>6, <1>7, <2>0 DEF NewsInv
  <2>6. SayOf(k)
    BY <1>1, <1>2, <2>0, SayIs
  <2>7. \A s : ResetsBy(l, s) <=> ResetsBy(k, s)
    BY <1>6, <2>2 DEF ResetsBy
  <2>8. /\ LiveComing(z) => LiveComing(z)'
        /\ ZeroComing(z) => ZeroComing(z)'
        /\ Count' = Count /\ Value' = Value
        /\ Behind(0, z, Value)' <=> Behind(0, z, Value)
        /\ Behind(0, z, Empty)' <=> Behind(0, z, Empty)
        /\ Resets(z) <=> ResetsBy(k, z)
        /\ Resets(z)' <=> ResetsBy(k, z)
    BY <2>1, <2>7, WFacts, QueueSays, OneIs DEF WStep
  <2>9. ASSUME Live, ~Stale, LiveOK(z) PROVE LiveOK(z)'
    <3>1. Count \in Nat /\ last[z] \in Nat /\ last'[z] = last[z]
      BY <1>0, <1>3, <1>7, <1>8, <2>9, CountIsNat
    <3>2. CASE k.removed
      <4>1. ResetsBy(k, z)
        BY <1>6, <3>2 DEF ResetsBy
      <4>2. ~ LiveKnown(z)
        BY <2>8, <4>1 DEF LiveKnown
      <4>3. ~ LiveTelling(z) /\ ~ LiveRecording(z)
        BY <1>6, <2>1, <3>2, OneTells
      <4>4. QED
        BY <2>8, <2>9, <4>1, <4>2, <4>3 DEF LiveOK
    <3>3. CASE ~ k.removed
      <4>1. k.n <= Count
        BY <1>1, <1>6, <2>0, <2>9, <3>3 DEF TellerInv
      <4>2. last[z] < Count
        <5>1. last[z] < k.n
          BY <1>2, <1>4, <2>6, <3>3 DEF SayOf
        <5>2. QED
          BY <1>6, <3>1, <4>1, <5>1
      <4>3. ~ LiveKnown(z)
        BY <3>1, <4>2 DEF LiveKnown
      <4>4. ~ LiveRecording(z)
        BY <1>6, <2>1, OneTells
      <4>5. LiveTelling(z) => LiveRecording(z)'
        BY <1>6, <1>10, <2>1, <2>2, <2>8, OneTells
      <4>6. QED
        BY <2>8, <2>9, <3>1, <4>2, <4>3, <4>4, <4>5 DEF LiveOK
    <3>4. QED
      BY <1>6, <3>2, <3>3
  <2>10. ASSUME Zero, ZeroOK(z) PROVE ZeroOK(z)'
    <3>1. CASE ~ k.removed
      <4>1. TellsProps(k) /\ queue \in Seq(PostType)
        BY <1>0, <1>6, <3>1 DEF TypeInv
      <4>2. ZeroComing(z)
        BY <2>0, <2>1, <2>10, <4>1, ZeroPending
      <4>3. QED
        BY <2>8, <4>2 DEF ZeroOK
    <3>2. CASE k.removed
      <4>1. Good(z)'
        <5>1. k.p = Empty
          BY <2>6, <3>2 DEF SayOf
        <5>2. v \in {NONE, Empty}
          BY <1>5, <5>1
        <5>3. QED
          BY <1>8, <5>2 DEF Good
      <4>2. Behind(0, z, Empty) => ZeroTelling(z)'
        BY <2>1, <2>2, <2>8, <3>2, <4>1, OneTells
      <4>3. QED
        BY <2>8, <2>10, <4>2 DEF ZeroOK, ZeroKnown, ZeroTelling
    <3>3. QED
      BY <1>6, <3>1, <3>2
  <2>11. SayInv'
    <3>1. SayOf(l)'
      <4>1. ~ k.removed => v = k.p
        BY <1>5
      <4>2. QED
        BY <1>2, <1>3, <1>4, <1>8, <1>10, <2>6, <4>1 DEF SayOf
    <3>2. QED
      BY <1>10, <2>1, <3>1, SayKept
  <2>12. FirstInv'
    <3>1. \A s \in Services : last'[s] = last[s] /\ (ResetsBy(l, s) => ResetsBy(k, s))
      BY <1>3, <2>7
    <3>2. QED
      BY <2>0, <2>1, <3>1, FirstKept
  <2>13. /\ \A s \in T : status[s] # "new"
         /\ \A s \in T : Live /\ ~Stale /\ LiveOK(s) => LiveOK(s)'
         /\ \A s \in T : Zero /\ ZeroOK(s) => ZeroOK(s)'
    BY <2>3, <2>5, <2>9, <2>10
  <2>14. QED
    BY <1>13, <2>1, <2>4, <2>11, <2>12, <2>13, WorkerKeeps
<1>14. QED
  BY <1>0, <1>3, <1>12, <1>13 DEF IInv, TellInv

LEMMA RecordKeeps ==
    ASSUME IInv, NEW w \in Workers, Record(w) PROVE IInv'
<1>0. BaseInv /\ TellInv /\ TypeInv /\ NumbersInv
  BY DEF IInv, BaseInv
<1>1. PICK k : k = task[w]
  OBVIOUS
<1>2. k.pc = "record" /\ k \in TellType /\ k.pc \in TellPCs
  BY <1>0, <1>1, TaskFacts DEF Record, TellPCs, TypeInv
<1>3. UNCHANGED <<kind, objs, current, lock, status, told, queue, frame, ext, phase, calls, throws, lapses>>
  BY DEF Record, bounds
<1>4. PICK z : z = k.s
  OBVIOUS
<1>5. PICK v : v = (IF k.removed THEN 0 ELSE k.n)
  OBVIOUS
<1>6. /\ k \in TaskType /\ k # Idle /\ ~ IsLookup(k) /\ Telling(k) /\ k.todo \subseteq Services /\ k.n \in Nat
      /\ \A s : ~ IsFirst(k, s)
      /\ \A s : Recording(k, s) <=> s = z
      /\ \A s : ToTell(k, s) <=> s \in k.todo
      /\ TellsProps(k) <=> ~ k.removed
      /\ TellsRemoval(k) <=> k.removed
      /\ k.p \in Props /\ k.removed \in BOOLEAN
  BY <1>2, <1>4, TellIs DEF Recording, ToTell
<1>7. z \in Services /\ v \in 0 .. MaxCalls /\ last' = [last EXCEPT ![z] = v]
  <2>1. last' = [last EXCEPT ![z] = v]
    BY <1>1, <1>4, <1>5 DEF Record
  <2>2. z \in Services /\ k.n <= MaxCalls
    BY <1>0, <1>1, <1>2, <1>4 DEF NumbersInv
  <2>3. QED
    BY <1>5, <1>6, <2>1, <2>2, AdminAssumption
<1>8. /\ last' \in [Services -> 0 .. MaxCalls] /\ told' \in [Services -> Props \cup {NONE}]
      /\ last'[z] = v /\ (\A s \in Services : s # z => last'[s] = last[s])
      /\ last \in [Services -> Nat]
  BY <1>0, <1>3, <1>7 DEF TypeInv
<1>9. PICK l : l = [k EXCEPT !.pc = "check"]
  OBVIOUS
<1>10. /\ l \in TellType /\ l.pc = "check" /\ l.n = k.n /\ l.removed = k.removed /\ l.p = k.p
       /\ l.todo = k.todo /\ l.s = z
  BY <1>2, <1>4, <1>9, PcIs DEF TellPCs
<1>11. task' = [task EXCEPT ![w] = l]
  BY <1>1, <1>9 DEF Record
<1>12. BaseInv' /\ (OneWorker => WStep(w, k, l))
  BY <1>1, <1>2, <1>3, <1>7, <1>8, <1>10, <1>11, TellBase
<1>13. ASSUME NewsOK PROVE NewsOK'
  <2>0. SayInv /\ OneWorker /\ FirstInv /\ NewsInv /\ TellerInv
    BY <1>13 DEF NewsOK
  <2>1. ~ IsLookup(k) /\ ~ IsLookup(l) /\ Continues(k, l) /\ WStep(w, k, l) /\ OneStep(w, k, l)
    BY <1>2, <1>10, <1>12, <2>0, TellIs DEF Continues, WStep
  <2>2. /\ \A s : ~ IsFirst(l, s) /\ ~ Recording(l, s)
        /\ \A s : ToTell(l, s) <=> s \in k.todo
        /\ TellsProps(l) <=> ~ k.removed
        /\ TellsRemoval(l) <=> k.removed
    BY <1>10, TellIs DEF ToTell, Recording
  <2>3. PICK T \in SUBSET Services : T = {z}
    BY <1>7
  <2>4. \A s \in Services \ T : Untouched(k, l, s)
    BY <1>3, <1>6, <1>8, <1>10, <2>2, <2>3 DEF Untouched
  <2>5. status[z] # "new"
    BY <1>1, <1>6, <1>7, <2>0 DEF NewsInv
  <2>6. SayOf(k)
    BY <1>1, <1>2, <2>0, SayIs
  <2>7. z \notin k.todo /\ (~ k.removed => last[z] < k.n /\ told[z] = k.p)
    BY <1>2, <1>4, <2>6 DEF SayOf
  <2>8. \A s : ResetsBy(l, s) => ResetsBy(k, s) /\ s # z
    BY <1>6, <2>2, <2>7 DEF ResetsBy
  <2>9. /\ LiveComing(z) => LiveComing(z)'
        /\ ZeroComing(z) => ZeroComing(z)'
        /\ Count' = Count /\ Value' = Value
        /\ Behind(0, z, Value)' <=> Behind(0, z, Value)
        /\ Behind(0, z, Empty)' <=> Behind(0, z, Empty)
        /\ Live' <=> Live
        /\ Stale' <=> Stale
    BY <2>1, WFacts, QueueSays DEF WStep
  <2>10. /\ Resets(z) <=> k.removed
         /\ ~ Resets(z)'
         /\ \A s : Resets(s)' => Resets(s)
         /\ UnderWay(z, Value)' /\ UnderWay(z, Empty)'
    <3>1. ResetsBy(k, z) <=> k.removed
      BY <1>6 DEF ResetsBy
    <3>2. ~ \E x \in Workers : IsFirst(task'[x], z)
      BY <2>1, <2>2, OneIs
    <3>3. UnderWay(z, Value)' /\ UnderWay(z, Empty)'
      BY <3>2 DEF UnderWay
    <3>4. QED
      BY <2>1, <2>8, <3>1, <3>3, OneIs
  <2>11. ASSUME Live, ~Stale, ~ k.removed PROVE \A j \in 1 .. Len(queue) : ~ IsFirst(queue[j], z)
    <3>1. TellsProps(task[w]) /\ task[w].n = k.n /\ last[z] \in Nat
      BY <1>1, <1>6, <1>7, <1>8, <2>11
    <3>2. ASSUME NEW j \in 1 .. Len(queue), IsFirst(queue[j], z) PROVE FALSE
      <4>1. task[w].n <= last[z]
        BY <1>7, <2>0, <2>11, <3>1, <3>2 DEF FirstInv
      <4>2. QED
        BY <1>6, <2>7, <2>11, <3>1, <4>1
    <3>3. QED
      BY <3>2
  <2>12. ASSUME Live, ~Stale, LiveOK(z) PROVE LiveOK(z)'
    <3>1. Count \in Nat /\ Count > 0 /\ last[z] \in Nat /\ last'[z] = v
      BY <1>0, <1>7, <1>8, <2>12, CountIsNat
    <3>2. ~ LiveTelling(z)
      BY <1>6, <2>1, <2>7, OneTells
    <3>3. CASE k.removed
      <4>1. ~ LiveKnown(z)
        BY <2>10, <3>3 DEF LiveKnown
      <4>2. ~ LiveRecording(z)
        BY <1>6, <2>1, <3>3, OneTells
      <4>3. LiveComing(z)'
        BY <2>9, <2>12, <3>2, <4>1, <4>2 DEF LiveOK
      <4>4. last'[z] < Count'
        BY <1>5, <2>9, <3>1, <3>3
      <4>5. QED
        BY <4>3, <4>4 DEF LiveOK
    <3>4. CASE ~ k.removed
      <4>1. k.n <= Count /\ (k.n = Count => k.p = Value)
        BY <1>1, <1>6, <2>0, <2>12, <3>4 DEF TellerInv
      <4>2. last[z] < Count /\ v = k.n
        BY <1>5, <1>6, <2>7, <3>1, <3>4, <4>1
      <4>3. ~ LiveKnown(z)
        BY <3>1, <4>2 DEF LiveKnown
      <4>4. CASE k.n # Count
        <5>1. ~ LiveRecording(z)
          BY <2>1, <4>4, OneTells
        <5>2. LiveComing(z)'
          BY <2>9, <2>12, <3>2, <4>3, <5>1 DEF LiveOK
        <5>3. last'[z] < Count'
          BY <1>6, <2>9, <3>1, <4>1, <4>2, <4>4
        <5>4. QED
          BY <5>2, <5>3 DEF LiveOK
      <4>5. CASE k.n = Count
        <5>1. Behind(0, z, Value)
          <6>1. \A j \in 0 + 1 .. Len(queue) : j \in 1 .. Len(queue)
            OBVIOUS
          <6>2. QED
            BY <2>11, <2>12, <3>4, <6>1 DEF Behind
        <5>2. last'[z] = Count' /\ told'[z] = Value'
          BY <1>3, <2>7, <2>9, <3>1, <3>4, <4>1, <4>2, <4>5
        <5>3. LiveKnown(z)'
          BY <2>9, <2>10, <5>1, <5>2 DEF LiveKnown
        <5>4. QED
          BY <5>3 DEF LiveOK
      <4>6. QED
        BY <4>4, <4>5
    <3>5. QED
      BY <1>6, <3>3, <3>4
  <2>13. ASSUME Zero, ZeroOK(z) PROVE ZeroOK(z)'
    <3>1. CASE ~ k.removed
      <4>1. TellsProps(k) /\ queue \in Seq(PostType)
        BY <1>0, <1>6, <3>1 DEF TypeInv
      <4>2. ZeroComing(z)
        BY <2>0, <2>1, <2>13, <4>1, ZeroPending
      <4>3. QED
        BY <2>9, <4>2 DEF ZeroOK
    <3>2. CASE k.removed
      <4>1. last'[z] = 0 /\ (Good(z)' <=> Good(z))
        BY <1>3, <1>5, <1>8, <3>2 DEF Good
      <4>2. ZeroTelling(z) => Behind(0, z, Empty) /\ Good(z)
        BY <1>6, <2>1, <2>7, OneTells
      <4>3. Behind(0, z, Empty) /\ Good(z) => ZeroKnown(z)'
        BY <2>9, <2>10, <4>1 DEF ZeroKnown
      <4>4. QED
        BY <2>9, <2>13, <4>2, <4>3 DEF ZeroOK, ZeroKnown
    <3>3. QED
      BY <1>6, <3>1, <3>2
  <2>14. SayInv'
    <3>1. SayOf(l)'
      BY <1>10, <2>6 DEF SayOf
    <3>2. QED
      BY <1>10, <2>1, <3>1, SayKept
  <2>15. FirstInv'
    <3>1. ASSUME Live, ~Stale, NEW s \in Services, NEW j \in 1 .. Len(queue), IsFirst(queue[j], s)
          PROVE  /\ \A i \in 1 .. j - 1 : IsLookup(queue[i]) => queue[i].n <= last'[s] /\ ~ Resets(s)'
                 /\ IsLookup(l) \/ TellsProps(l) => l.n <= last'[s]
      <4>1. /\ \A i \in 1 .. j - 1 : IsLookup(queue[i]) => queue[i].n <= last[s] /\ ~ Resets(s)
            /\ TellsProps(task[w]) => task[w].n <= last[s]
        BY <2>0, <3>1 DEF FirstInv
      <4>2. CASE s = z
        <5>1. k.removed
          BY <1>6, <2>11, <3>1, <4>2
        <5>2. QED
          BY <2>1, <2>2, <2>10, <4>1, <4>2, <5>1
      <4>3. CASE s # z
        <5>1. last'[s] = last[s]
          BY <1>8, <4>3
        <5>2. QED
          BY <1>1, <1>6, <1>10, <2>1, <2>2, <2>10, <4>1, <5>1
      <4>4. QED
        BY <4>2, <4>3
    <3>2. ASSUME NEW x \in Workers, IsLookup(task'[x]) \/ TellsProps(task'[x]) PROVE x = w /\ task'[x] = l
      BY <2>1, <3>2, IdleTask DEF OneStep
    <3>3. QED
      BY <1>3, <2>9, <3>1, <3>2 DEF FirstInv
  <2>16. /\ \A s \in T : status[s] # "new"
         /\ \A s \in T : Live /\ ~Stale /\ LiveOK(s) => LiveOK(s)'
         /\ \A s \in T : Zero /\ ZeroOK(s) => ZeroOK(s)'
    BY <2>3, <2>5, <2>12, <2>13
  <2>17. QED
    BY <1>13, <2>1, <2>4, <2>14, <2>15, <2>16, WorkerKeeps
<1>14. QED
  BY <1>0, <1>3, <1>12, <1>13 DEF IInv, TellInv

LEMMA TellInitialKeeps ==
    ASSUME IInv, NEW w \in Workers, TellInitial(w) PROVE IInv'
<1>0. BaseInv /\ TellInv /\ TypeInv /\ NumbersInv
  BY DEF IInv, BaseInv
<1>1. PICK k : k = task[w]
  OBVIOUS
<1>2. k.pc = "initial" /\ k \in TaskType
  BY <1>0, <1>1 DEF TellInitial, TypeInv
<1>3. PICK z : z = k.s
  OBVIOUS
<1>4. /\ UNCHANGED <<kind, objs, current, lock, status, last, queue, frame, ext, phase, calls, throws, lapses>>
      /\ told' = [told EXCEPT ![z] = k.p] /\ task' = [task EXCEPT ![w] = Hold]
  BY <1>1, <1>3 DEF TellInitial, bounds
<1>5. z \in Services /\ k.p \in Props /\ k # Idle
  BY <1>2, <1>3, TaskFacts
<1>6. /\ last' \in [Services -> 0 .. MaxCalls] /\ told' \in [Services -> Props \cup {NONE}]
      /\ told'[z] = k.p /\ (\A s \in Services : s # z => told'[s] = told[s])
  BY <1>0, <1>4, <1>5 DEF TypeInv
<1>7. BaseInv'
  <2>1. throws' \in Nat /\ lapses \subseteq lapses' /\ lapses' \subseteq Lapses
    BY <1>0, <1>4 DEF TypeInv
  <2>2. task[w] # Idle
    BY <1>1, <1>5
  <2>3. QED
    BY <1>0, <1>4, <1>6, <2>1, <2>2, HoldIs, WorkerBase
<1>8. /\ ~ IsLookup(k) /\ ~ Telling(k) /\ ~ TellsProps(k) /\ ~ TellsRemoval(k)
      /\ \A s : IsFirst(k, s) <=> s = z
      /\ \A s : ~ ToTell(k, s) /\ ~ Recording(k, s) /\ ~ ResetsBy(k, s)
  BY <1>2, <1>3 DEF IsLookup, Telling, TellPCs, TellsProps, TellsRemoval, IsFirst, ToTell, Recording, ResetsBy
<1>9. ASSUME NewsOK PROVE NewsOK'
  <2>0. OneWorker /\ FirstInv /\ NewsInv
    BY <1>9 DEF NewsOK
  <2>1. WStep(w, k, Hold) /\ OneStep(w, k, Hold)
    BY <1>0, <1>1, <1>4, <1>5, <2>0, OneBusy DEF WStep, TypeInv
  <2>2. ~ IsLookup(Hold) /\ Continues(k, Hold)
    BY HoldIs DEF Continues
  <2>3. PICK T \in SUBSET Services : T = {z}
    BY <1>5
  <2>4. \A s \in Services \ T : Untouched(k, Hold, s)
    BY <1>4, <1>6, <1>8, <2>3, HoldIs DEF Untouched
  <2>5. status[z] # "new"
    BY <1>1, <1>5, <1>8, <2>0 DEF NewsInv, FirstCall
  <2>6. /\ LiveComing(z) => LiveComing(z)'
        /\ ZeroComing(z) => ZeroComing(z)'
        /\ Count' = Count /\ Value' = Value
        /\ Behind(0, z, Value)' <=> Behind(0, z, Value)
        /\ Behind(0, z, Empty)' <=> Behind(0, z, Empty)
    BY <1>8, <2>1, <2>2, WFacts, QueueSays DEF WStep
  <2>7. /\ ~ Resets(z) /\ ~ Resets(z)'
        /\ UnderWay(z, Value)' /\ UnderWay(z, Empty)'
        /\ UnderWay(z, Value) => k.p = Value
        /\ UnderWay(z, Empty) => k.p = Empty
    <3>1. ~ \E x \in Workers : IsFirst(task'[x], z)
      BY <2>1, HoldIs, OneIs
    <3>2. UnderWay(z, Value)' /\ UnderWay(z, Empty)'
      BY <3>1 DEF UnderWay
    <3>3. ~ Resets(z) /\ ~ Resets(z)'
      BY <1>8, <2>1, HoldIs, OneIs
    <3>4. (UnderWay(z, Value) => k.p = Value) /\ (UnderWay(z, Empty) => k.p = Empty)
      BY <1>1, <1>8 DEF UnderWay
    <3>5. QED
      BY <3>2, <3>3, <3>4
  <2>8. ~ LiveTelling(z) /\ ~ LiveRecording(z) /\ ~ ZeroTelling(z)
    BY <1>8, <2>1, OneTells
  <2>9. ASSUME LiveOK(z) PROVE LiveOK(z)'
    <3>1. LiveKnown(z) => LiveKnown(z)'
      BY <1>4, <1>6, <2>6, <2>7 DEF LiveKnown
    <3>2. QED
      BY <1>4, <2>6, <2>7, <2>8, <2>9, <3>1 DEF LiveOK
  <2>10. ASSUME ZeroOK(z) PROVE ZeroOK(z)'
    <3>1. ZeroKnown(z) => ZeroKnown(z)'
      BY <1>4, <1>6, <2>6, <2>7 DEF ZeroKnown, Good
    <3>2. QED
      BY <2>6, <2>8, <2>10, <3>1 DEF ZeroOK
  <2>11. SayInv'
    BY <2>1, IdleTask, HoldIs DEF SayInv, OneStep
  <2>12. FirstInv'
    <3>1. \A s \in Services : last'[s] = last[s] /\ (ResetsBy(Hold, s) => ResetsBy(k, s))
      BY <1>4, HoldIs
    <3>2. QED
      BY <1>8, <2>0, <2>1, <2>2, <3>1, FirstKept
  <2>13. /\ \A s \in T : status[s] # "new"
         /\ \A s \in T : Live /\ ~Stale /\ LiveOK(s) => LiveOK(s)'
         /\ \A s \in T : Zero /\ ZeroOK(s) => ZeroOK(s)'
    BY <2>3, <2>5, <2>9, <2>10
  <2>14. QED
    BY <1>8, <1>9, <2>1, <2>2, <2>4, <2>11, <2>12, <2>13, WorkerKeeps
<1>10. QED
  BY <1>0, <1>4, <1>7, <1>9 DEF IInv, TellInv

\* A task looks up what the configuration is by now, and no other configuration was made since.
LEMMA LookupTell ==
    ASSUME NewsOK, TypeInv, NEW w \in Workers, NEW k, NEW l \in TellType, WStep(w, k, l), IsLookup(k), lock = {},
           current \in {0, k.o}, told' = told, last' = last,
           l.pc = "listeners", l.n = k.n, l.n \in Nat, l.removed <=> current = 0 \/ objs[current].removed,
           l.p = IF l.removed THEN Empty ELSE Value, l.todo = Tracked
    PROVE  NewsOK'
<1>0. LiveInv /\ ZeroInv /\ TellerInv /\ SayInv /\ FirstInv /\ NewsInv /\ ObjsInv /\ AddingInv
  BY DEF NewsOK
<1>1. UNCHANGED <<objs, current, lock, status, queue, frame>> /\ OneStep(w, k, l) /\ task[w] = k /\ task'[w] = l
  BY DEF WStep, OneStep
<1>2. /\ ~ Telling(k) /\ ~ TellsProps(k) /\ ~ TellsRemoval(k)
      /\ \A s : ~ IsFirst(k, s) /\ ~ ToTell(k, s) /\ ~ Recording(k, s) /\ ~ ResetsBy(k, s)
  BY DEF IsLookup, Telling, TellPCs, TellsProps, TellsRemoval, IsFirst, ToTell, Recording, ResetsBy
<1>3. /\ ~ IsLookup(l) /\ Telling(l)
      /\ \A s : ~ IsFirst(l, s) /\ ~ Recording(l, s)
      /\ \A s : ToTell(l, s) <=> s \in Tracked
      /\ TellsProps(l) <=> ~ l.removed
      /\ TellsRemoval(l) <=> l.removed
  BY TellIs DEF ToTell, Recording
<1>4. /\ Count' = Count /\ Value' = Value /\ (Live' <=> Live) /\ (Zero' <=> Zero) /\ Tracked' = Tracked
      /\ \A i, s, p : Behind(i, s, p)' <=> Behind(i, s, p)
      /\ \A i, s : Behind(i, s, Value)' <=> Behind(i, s, Value)
      /\ \A t : WillPost(t)' <=> WillPost(t)
  BY <1>1, QueueSays
<1>5. \A v \in Workers : v # w => ~ IsLookup(task[v])
  BY <1>1, IdleTask DEF OneStep
<1>6. \A v \in Workers : ~ IsLookup(task'[v])
  BY <1>1, <1>3, IdleTask DEF OneStep
<1>7. current # 0 => k.o = current /\ k.n \in 1 .. Count /\ Count \in Nat /\ Count > 0
  <2>1. ASSUME current # 0 PROVE k.o = current /\ k.n \in 1 .. Count /\ Count \in Nat
    <3>1. k.o = current /\ k.n \in 1 .. Count
      BY <1>0, <1>1, <2>1 DEF ObjsInv
    <3>2. current \in Ids
      BY <2>1 DEF TypeInv, Ids
    <3>3. QED
      BY <3>1, <3>2, ObjIs DEF Count, TypeInv
  <2>2. QED
    BY <2>1
<1>8. /\ Live => current # 0 /\ ~ l.removed
      /\ Zero => current = 0 /\ l.removed
  BY <1>7 DEF Live, Zero
<1>9. Live => (Stale' <=> Stale)
  BY <1>1, <1>4, <1>5, <1>6, <1>7, <1>8 DEF Stale
<1>10. \A s : ~ Resets(s)
  BY <1>1, <1>2, OneIs
<1>11. Live => \A s : ~ Resets(s)'
  <2>1. Live => \A s : ~ ResetsBy(l, s)
    BY <1>3, <1>8 DEF ResetsBy
  <2>2. QED
    BY <1>1, <2>1, OneIs
<1>12. \A s : UnderWay(s, Value)' /\ UnderWay(s, Empty)'
  <2>1. \A s : ~ \E v \in Workers : IsFirst(task'[v], s)
    BY <1>1, <1>3, OneIs
  <2>2. QED
    BY <2>1 DEF UnderWay
<1>13. \A s : FirstCall(s)' <=> FirstCall(s)
  <2>1. \A s : ~ \E v \in Workers : IsFirst(task'[v], s)
    BY <1>1, <1>3, OneIs
  <2>2. \A s : ~ \E v \in Workers : IsFirst(task[v], s)
    BY <1>1, <1>2, OneIs
  <2>3. QED
    BY <1>1, <2>1, <2>2 DEF FirstCall
<1>14. LiveInv'
  <2>1. ASSUME Live, ~ Stale, NEW s \in Tracked, LiveOK(s) PROVE LiveOK(s)'
    <3>1. LiveKnown(s) => LiveKnown(s)'
      BY <1>4, <1>11, <1>12, <1>13, <2>1 DEF LiveKnown
    <3>2. ASSUME LiveComing(s) PROVE LiveComing(s)' \/ LiveTelling(s)'
      <4>1. ASSUME Behind(0, s, Value), NEW v \in Workers, Announces(task[v]) PROVE LiveTelling(s)'
        <5>1. v = w /\ k.n = Count
          BY <1>1, <1>5, <4>1 DEF Announces
        <5>2. TellsProps(l) /\ l.n = Count' /\ ToTell(l, s)
          BY <1>3, <1>4, <1>8, <2>1, <5>1
        <5>3. QED
          BY <1>1, <1>4, <4>1, <5>2, OneTells
      <4>2. ASSUME NEW i \in 1 .. Len(queue), Announces(queue[i]), Behind(i, s, Value) PROVE LiveComing(s)'
        <5>1. Announces(queue[i])' /\ Behind(i, s, Value)' /\ i \in 1 .. Len(queue')
          BY <1>1, <1>4, <4>2 DEF Announces
        <5>2. QED
          BY <5>1 DEF LiveComing
      <4>3. ASSUME NEW t \in Threads, WillPost(t), frame[t].pc # "removed", frame[t].o = current, frame[t].n = Count
            PROVE  LiveComing(s)'
        <5>1. WillPost(t)' /\ frame'[t].pc # "removed" /\ frame'[t].o = current' /\ frame'[t].n = Count'
          BY <1>1, <1>4, <4>3
        <5>2. QED
          BY <5>1 DEF LiveComing
      <4>4. ASSUME NEW t \in Threads, frame[t].pc = "notify", frame[t].o = current PROVE LiveComing(s)'
        BY <1>1, <4>4 DEF LiveComing
      <4>5. QED
        BY <3>2, <4>1, <4>2, <4>3, <4>4 DEF LiveComing
    <3>3. ~ LiveTelling(s) /\ ~ LiveRecording(s)
      BY <1>1, <1>2, OneTells
    <3>4. QED
      BY <1>4, <1>10, <2>1, <3>1, <3>2, <3>3 DEF LiveOK
  <2>2. QED
    BY <1>0, <1>4, <1>9, <2>1 DEF LiveInv
<1>15. ZeroInv'
  <2>1. ASSUME Zero, NEW s \in Tracked, ZeroOK(s) PROVE ZeroOK(s)'
    <3>1. Behind(0, s, Empty) => ZeroTelling(s)'
      BY <1>1, <1>3, <1>4, <1>8, <2>1, OneTells
    <3>2. ZeroComing(s) => Behind(0, s, Empty) \/ ZeroComing(s)'
      BY <1>1, <1>4 DEF ZeroComing
    <3>3. QED
      BY <2>1, <3>1, <3>2 DEF ZeroOK, ZeroKnown, ZeroTelling
  <2>2. QED
    BY <1>0, <1>4, <2>1 DEF ZeroInv
<1>16. TellerInv'
  <2>1. ASSUME NEW v \in Workers, TellsProps(task'[v]) PROVE task'[v] = l /\ ~ l.removed
    BY <1>1, <1>3, <2>1, IdleTask DEF OneStep
  <2>2. ~ l.removed => k.n <= Count /\ l.p = Value /\ ~ Zero
    BY <1>7, <1>8
  <2>3. QED
    BY <1>4, <2>1, <2>2 DEF TellerInv
<1>17. SayInv'
  <2>1. SayOf(l)'
    BY DEF SayOf
  <2>2. QED
    BY <1>1, <2>1, SayKept
<1>18. FirstInv'
  <2>1. ASSUME NEW v \in Workers, IsLookup(task'[v]) \/ TellsProps(task'[v]) PROVE IsLookup(task[v]) /\ task'[v].n = task[v].n
    BY <1>1, <1>6, <2>1, IdleTask DEF OneStep
  <2>2. QED
    BY <1>0, <1>1, <1>4, <1>9, <1>11, <2>1 DEF FirstInv
<1>19. NewsInv'
  <2>1. ASSUME NEW s \in Services, status[s] = "new", NEW v \in Workers PROVE ~ ToTell(task'[v], s) /\ ~ Recording(task'[v], s)
    BY <1>1, <1>3, <2>1, IdleTask DEF OneStep, Tracked
  <2>2. QED
    BY <1>0, <1>1, <1>13, <2>1 DEF NewsInv
<1>20. ObjsInv'
  <2>1. Ids' = Ids
    BY <1>1 DEF Ids
  <2>2. QED
    BY <1>0, <1>1, <1>4, <1>6, <2>1 DEF ObjsInv
<1>21. AddingInv'
  <2>1. \A t \in Threads : frame[t].pc # "adding"
    BY <1>0 DEF AddingInv
  <2>2. QED
    BY <1>1, <2>1 DEF AddingInv
<1>22. OneWorker'
  BY <1>1 DEF OneWorker, OneStep
<1>23. QED
  BY <1>14, <1>15, <1>16, <1>17, <1>18, <1>19, <1>20, <1>21, <1>22 DEF NewsOK

LEMMA LookupKeeps ==
    ASSUME IInv, NEW w \in Workers, Lookup(w) PROVE IInv'
<1>0. BaseInv /\ TellInv /\ TypeInv /\ NumbersInv
  BY DEF IInv, BaseInv
<1>1. PICK k : k = task[w]
  OBVIOUS
<1>2. PICK c : c = current
  OBVIOUS
<1>3. PICK r : r = (c = 0 \/ objs[c].removed)
  OBVIOUS
<1>4. PICK p : p = (IF r THEN Empty ELSE objs[c].props)
  OBVIOUS
<1>5. PICK g : g = [pc |-> "listeners", n |-> k.n, removed |-> r, p |-> p, todo |-> Tracked, s |-> NONE]
  OBVIOUS
<1>6. /\ UNCHANGED <<kind, objs, current, lock, status, last, told, queue, frame, ext, phase, calls, throws>>
      /\ k.pc = "lookup" /\ lock = {}
      /\ lapses' = lapses \cup (IF c \notin {0, k.o} THEN {"recreated"} ELSE {})
      /\ task' = [task EXCEPT ![w] = IF c # 0 /\ objs[c].changeCount = 0 THEN Hold ELSE g]
  BY <1>1, <1>2, <1>3, <1>4, <1>5 DEF Lookup, tracking, bounds, Free, Tracked
<1>7. k \in TaskType /\ k.n \in Nat /\ k.o \in Nat /\ k # Idle /\ k.n <= MaxCalls /\ IsLookup(k)
  <2>1. k \in TaskType /\ k.n <= MaxCalls
    BY <1>0, <1>1, <1>6 DEF TypeInv, NumbersInv
  <2>2. QED
    BY <1>6, <2>1, TaskFacts DEF IsLookup
<1>8. /\ g \in TellType /\ g.pc = "listeners" /\ g.n = k.n /\ g.removed = r /\ g.p = p /\ g.todo = Tracked
      /\ r \in BOOLEAN /\ c \in 0 .. Len(objs)
  <2>1. c \in 0 .. Len(objs) /\ (c # 0 => c \in Ids)
    BY <1>0, <1>2 DEF TypeInv, Ids
  <2>2. c # 0 => objs[c].removed \in BOOLEAN /\ objs[c].props \in Props
    BY <1>0, <2>1, ObjIs DEF TypeInv
  <2>3. r \in BOOLEAN
    BY <1>3, <2>2
  <2>4. p \in Props
    BY <1>3, <1>4, <2>2, AdminAssumption
  <2>5. Tracked \subseteq Services
    BY DEF Tracked
  <2>6. g \in TellType
    BY <1>5, <1>7, <2>3, <2>4, <2>5 DEF TellType, TellPCs
  <2>7. QED
    BY <1>5, <2>1, <2>3, <2>6
<1>9. PICK l : l = (IF c # 0 /\ objs[c].changeCount = 0 THEN Hold ELSE g)
  OBVIOUS
<1>10. task' = [task EXCEPT ![w] = l] /\ (l = Hold \/ l = g)
  BY <1>6, <1>9
<1>11. BaseInv'
  <2>1. last' \in [Services -> 0 .. MaxCalls] /\ told' \in [Services -> Props \cup {NONE}] /\ throws' \in Nat
    BY <1>0, <1>6 DEF TypeInv
  <2>2. lapses \subseteq lapses' /\ lapses' \subseteq Lapses
    BY <1>0, <1>6 DEF TypeInv, Lapses
  <2>3. g \in TaskType /\ TaskNumbers(g)
    BY <1>7, <1>8, TellIs DEF TaskNumbers
  <2>4. l \in TaskType /\ TaskNumbers(l)
    BY <1>10, <2>3, HoldIs
  <2>5. task[w] # Idle
    BY <1>1, <1>7
  <2>6. QED
    BY <1>0, <1>6, <1>10, <2>1, <2>2, <2>4, <2>5, WorkerBase
<1>12. ASSUME NewsOK, lapses' = {} PROVE NewsOK'
  <2>0. OneWorker /\ ObjsInv
    BY <1>12 DEF NewsOK
  <2>1. c \in {0, k.o}
    BY <1>6, <1>12
  <2>2. l = g
    <3>1. c # 0 => k.n \in 1 .. Count
      BY <1>1, <1>2, <1>7, <2>0, <2>1 DEF ObjsInv
    <3>2. c # 0 => objs[c].changeCount = Count
      BY <1>2 DEF Count
    <3>3. QED
      BY <1>7, <1>9, <3>1, <3>2
  <2>3. WStep(w, k, g)
    BY <1>0, <1>1, <1>6, <1>7, <1>10, <2>0, <2>2, OneBusy DEF WStep, TypeInv
  <2>4. /\ current \in {0, k.o} /\ g.n \in Nat
        /\ g.removed <=> current = 0 \/ objs[current].removed
        /\ g.p = IF g.removed THEN Empty ELSE Value
    BY <1>2, <1>3, <1>4, <1>7, <1>8, <2>1 DEF Value
  <2>5. told' = told /\ last' = last /\ lock = {}
    BY <1>6
  <2>6. QED
    BY <1>0, <1>7, <1>8, <1>12, <2>3, <2>4, <2>5, LookupTell
<1>13. lapses' = {} => lapses = {}
  BY <1>6
<1>14. QED
  BY <1>0, <1>6, <1>11, <1>12, <1>13 DEF IInv, TellInv

\* A worker takes the task at the head of the queue, and all others are idle.
LEMMA TakeTell ==
    ASSUME NewsOK, TypeInv, NEW w \in Workers, NEW l \in PostType, OneStep(w, Idle, l),
           UNCHANGED <<objs, current, lock, status, last, told, frame>>,
           Len(queue) \in Nat, Len(queue) > 0, l = queue[1], Len(queue') = Len(queue) - 1,
           \A i \in 1 .. Len(queue) - 1 : queue'[i] = queue[i + 1]
    PROVE  NewsOK'
<1>0. LiveInv /\ ZeroInv /\ TellerInv /\ SayInv /\ FirstInv /\ NewsInv /\ ObjsInv /\ AddingInv
  BY DEF NewsOK
<1>1. task[w] = Idle /\ task'[w] = l /\ \A v \in Workers : task[v] = Idle /\ (v # w => task'[v] = Idle)
  BY DEF OneStep
<1>2. /\ ~ Telling(l) /\ ~ TellsProps(l) /\ ~ TellsRemoval(l) /\ l.pc \notin {"tell", "record"}
      /\ \A s : ~ ToTell(l, s) /\ ~ Recording(l, s) /\ ~ ResetsBy(l, s)
  <2>1. l.pc \in {"finish", "lookup", "initial"}
    BY PostFacts
  <2>2. QED
    BY <2>1 DEF Telling, TellPCs, TellsProps, TellsRemoval, ToTell, Recording, ResetsBy
<1>3. /\ Count' = Count /\ Value' = Value /\ (Live' <=> Live) /\ (Zero' <=> Zero) /\ Tracked' = Tracked
      /\ \A t : WillPost(t)' <=> WillPost(t)
  BY DEF Count, Value, Live, Zero, Tracked, WillPost
<1>4. /\ \A i \in 1 .. Len(queue') : queue'[i] = queue[i + 1] /\ i + 1 \in 1 .. Len(queue)
      /\ \A i \in 1 .. Len(queue) : i = 1 \/ (i - 1 \in 1 .. Len(queue') /\ queue[i] = queue'[i - 1])
      /\ 1 \in 1 .. Len(queue)
  <2>1. \A i \in 1 .. Len(queue) : i # 1 => i - 1 \in 1 .. Len(queue) - 1 /\ (i - 1) + 1 = i
    OBVIOUS
  <2>2. QED
    BY <2>1
<1>5. \A v \in Workers : /\ ~ IsLookup(task[v]) /\ ~ Telling(task[v]) /\ ~ TellsProps(task[v])
                         /\ \A s : ~ IsFirst(task[v], s)
  BY <1>1, IdleTask
<1>6. \A v \in Workers : /\ ~ Telling(task'[v]) /\ ~ TellsProps(task'[v]) /\ ~ TellsRemoval(task'[v])
                         /\ task'[v].pc \notin {"tell", "record"}
                         /\ \A s : ~ ToTell(task'[v], s) /\ ~ Recording(task'[v], s)
  BY <1>1, <1>2, IdleTask
<1>7. Stale => Stale'
  <2>1. ASSUME NEW i \in 1 .. Len(queue), IsLookup(queue[i]), queue[i].o # current PROVE Stale'
    <3>1. CASE i = 1
      BY <1>1, <2>1, <3>1 DEF Stale
    <3>2. CASE i # 1
      BY <1>4, <2>1, <3>2 DEF Stale
    <3>3. QED
      BY <3>1, <3>2
  <2>2. ASSUME NEW t \in Threads, WillPost(t), frame[t].o # current PROVE Stale'
    BY <1>3, <2>2 DEF Stale
  <2>3. QED
    BY <1>5, <2>1, <2>2 DEF Stale
<1>8. \A i \in 1 .. Len(queue) : \A s, p : Behind(i, s, p) => Behind(i - 1, s, p)'
  <2>1. ASSUME NEW i \in 1 .. Len(queue), NEW s, NEW p, Behind(i, s, p), NEW j \in (i - 1) + 1 .. Len(queue'),
               IsFirst(queue'[j], s)
        PROVE  queue'[j].p = p
    <3>1. j \in 1 .. Len(queue') /\ j + 1 \in i + 1 .. Len(queue)
      BY <2>1
    <3>2. QED
      BY <1>4, <2>1, <3>1 DEF Behind
  <2>2. QED
    BY <2>1 DEF Behind
<1>9. \A s, p : Behind(0, s, p) => Behind(1, s, p) /\ Behind(0, s, p)' /\ (IsFirst(l, s) => l.p = p)
  <2>1. ASSUME NEW s, NEW p, Behind(0, s, p) PROVE Behind(1, s, p) /\ (IsFirst(l, s) => l.p = p)
    BY <1>4, <2>1 DEF Behind
  <2>2. 1 - 1 = 0
    OBVIOUS
  <2>3. \A s, p : Behind(1, s, p) => Behind(1 - 1, s, p)'
    BY <1>4, <1>8
  <2>4. QED
    BY <2>1, <2>2, <2>3
<1>10. \A s : ~ Resets(s) /\ ~ Resets(s)'
  BY <1>5, <1>6 DEF Resets, TellsRemoval
<1>11. \A s, p : Behind(0, s, p) => UnderWay(s, p)'
  <2>1. \A s, p : UnderWay(s, p)' <=> (IsFirst(l, s) => l.p = p)
    BY OneIs
  <2>2. QED
    BY <1>9, <2>1
<1>12. \A s : FirstCall(s)' <=> FirstCall(s)
  <2>1. ASSUME NEW s PROVE FirstCall(s)' <=> FirstCall(s)
    <3>1. (\E v \in Workers : IsFirst(task'[v], s)) <=> IsFirst(l, s)
      BY OneIs
    <3>2. FirstCall(s) <=> \E j \in 1 .. Len(queue) : IsFirst(queue[j], s)
      BY <1>5 DEF FirstCall
    <3>3. FirstCall(s)' <=> (\E j \in 1 .. Len(queue') : IsFirst(queue'[j], s)) \/ IsFirst(l, s)
      BY <3>1 DEF FirstCall
    <3>4. QED
      BY <1>4, <3>2, <3>3
  <2>2. QED
    BY <2>1
<1>13. PICK q : q = Value /\ q = Value'
  BY <1>3
<1>14. LiveInv'
  <2>1. ASSUME Live, ~ Stale, NEW s \in Tracked, LiveOK(s) PROVE LiveOK(s)'
    <3>1. LiveKnown(s) => LiveKnown(s)'
      <4>1. Behind(0, s, q) => Behind(0, s, q)' /\ UnderWay(s, q)'
        BY <1>9, <1>11
      <4>2. Behind(0, s, Value) => Behind(0, s, Value)' /\ UnderWay(s, Value)'
        BY <1>13, <4>1 DEF Behind, UnderWay
      <4>3. QED
        BY <1>3, <1>10, <1>12, <4>2 DEF LiveKnown
    <3>2. ASSUME LiveComing(s) PROVE LiveComing(s)'
      <4>1. ~ \E v \in Workers : Announces(task[v])
        BY <1>5 DEF Announces
      <4>2. ASSUME NEW i \in 1 .. Len(queue), Announces(queue[i]), Behind(i, s, Value) PROVE LiveComing(s)'
        <5>0. Behind(i, s, q)
          BY <1>13, <4>2
        <5>1. Behind(i - 1, s, q)'
          BY <1>8, <5>0
        <5>2. Behind(i - 1, s, Value)'
          BY <1>13, <5>1 DEF Behind
        <5>3. CASE i = 1
          <6>1. Announces(task[w])'
            BY <1>1, <1>3, <4>2, <5>3 DEF Announces
          <6>2. Behind(0, s, Value)'
            BY <5>2, <5>3
          <6>3. QED
            BY <6>1, <6>2 DEF LiveComing
        <5>4. CASE i # 1
          <6>1. PICK j : j = i - 1
            OBVIOUS
          <6>2. j \in 1 .. Len(queue') /\ queue'[j] = queue[i]
            BY <1>4, <5>4, <6>1
          <6>3. Announces(queue[j])'
            BY <1>3, <4>2, <6>2 DEF Announces
          <6>4. Behind(j, s, Value)'
            BY <5>2, <6>1
          <6>5. QED
            BY <6>2, <6>3, <6>4 DEF LiveComing
        <5>5. QED
          BY <5>3, <5>4
      <4>3. ASSUME NEW t \in Threads, WillPost(t), frame[t].pc # "removed", frame[t].o = current, frame[t].n = Count
            PROVE  LiveComing(s)'
        <5>1. WillPost(t)' /\ frame'[t].pc # "removed" /\ frame'[t].o = current' /\ frame'[t].n = Count'
          BY <1>3, <4>3
        <5>2. QED
          BY <5>1 DEF LiveComing
      <4>4. ASSUME NEW t \in Threads, frame[t].pc = "notify", frame[t].o = current PROVE LiveComing(s)'
        BY <4>4 DEF LiveComing
      <4>5. QED
        BY <3>2, <4>1, <4>2, <4>3, <4>4 DEF LiveComing
    <3>3. ~ LiveTelling(s) /\ ~ LiveRecording(s)
      BY <1>5 DEF LiveTelling, LiveRecording
    <3>4. QED
      BY <1>3, <1>10, <2>1, <3>1, <3>2, <3>3 DEF LiveOK
  <2>2. QED
    BY <1>0, <1>3, <1>7, <2>1 DEF LiveInv
<1>15. ZeroInv'
  <2>1. ASSUME Zero, NEW s \in Tracked, ZeroOK(s) PROVE ZeroOK(s)'
    <3>1. ZeroKnown(s) => ZeroKnown(s)'
      BY <1>9, <1>11 DEF ZeroKnown, Good
    <3>2. ASSUME ZeroComing(s) PROVE ZeroComing(s)'
      <4>1. ASSUME NEW i \in 1 .. Len(queue), IsLookup(queue[i]), Behind(i, s, Empty) PROVE ZeroComing(s)'
        <5>1. Behind(i - 1, s, Empty)'
          BY <1>8, <4>1
        <5>2. CASE i = 1
          <6>1. Behind(0, s, Empty)'
            BY <5>1, <5>2
          <6>2. QED
            BY <1>1, <4>1, <5>2, <6>1 DEF ZeroComing
        <5>3. CASE i # 1
          <6>1. PICK j : j = i - 1
            OBVIOUS
          <6>2. j \in 1 .. Len(queue') /\ queue'[j] = queue[i] /\ Behind(j, s, Empty)'
            BY <1>4, <5>1, <5>3, <6>1
          <6>3. QED
            BY <4>1, <6>2 DEF ZeroComing
        <5>4. QED
          BY <5>2, <5>3
      <4>2. ASSUME NEW t \in Threads, WillPost(t) PROVE ZeroComing(s)'
        BY <1>3, <4>2 DEF ZeroComing
      <4>3. QED
        BY <1>5, <3>2, <4>1, <4>2 DEF ZeroComing
    <3>3. ~ ZeroTelling(s)
      BY <1>5 DEF ZeroTelling, TellsRemoval
    <3>4. QED
      BY <2>1, <3>1, <3>2, <3>3 DEF ZeroOK
  <2>2. QED
    BY <1>0, <1>3, <2>1 DEF ZeroInv
<1>16. TellerInv' /\ SayInv'
  BY <1>6 DEF TellerInv, SayInv
<1>17. FirstInv'
  <2>1. ASSUME Live, ~ Stale, NEW s \in Services, NEW j \in 1 .. Len(queue'), IsFirst(queue'[j], s)
        PROVE  /\ \A i \in 1 .. j - 1 : IsLookup(queue'[i]) => queue'[i].n <= last[s] /\ ~ Resets(s)'
               /\ IsLookup(l) => l.n <= last[s]
    <3>1. IsFirst(queue[j + 1], s) /\ j + 1 \in 1 .. Len(queue)
      BY <1>4, <2>1
    <3>2. \A i \in 1 .. (j + 1) - 1 : IsLookup(queue[i]) => queue[i].n <= last[s]
      BY <1>0, <2>1, <3>1 DEF FirstInv
    <3>3. /\ 1 \in 1 .. (j + 1) - 1
          /\ \A i \in 1 .. j - 1 : i + 1 \in 1 .. (j + 1) - 1 /\ i \in 1 .. Len(queue')
      BY <2>1
    <3>4. QED
      BY <1>4, <1>10, <3>2, <3>3
  <2>2. ASSUME NEW v \in Workers, IsLookup(task'[v]) \/ TellsProps(task'[v]) PROVE IsLookup(l) /\ task'[v] = l
    BY <1>1, <1>6, <2>2, IdleTask
  <2>3. QED
    BY <1>3, <1>7, <2>1, <2>2 DEF FirstInv
<1>18. NewsInv'
  BY <1>0, <1>6, <1>12 DEF NewsInv
<1>19. ObjsInv'
  <2>1. Ids' = Ids
    BY DEF Ids
  <2>2. \A i \in 1 .. Len(queue') : IsLookup(queue'[i]) /\ queue'[i].o = current => queue'[i].n \in 1 .. Count
    BY <1>0, <1>4 DEF ObjsInv
  <2>3. \A v \in Workers : IsLookup(task'[v]) /\ task'[v].o = current => task'[v].n \in 1 .. Count
    <3>1. ASSUME NEW v \in Workers, IsLookup(task'[v]) PROVE task'[v] = queue[1]
      BY <1>1, <3>1, IdleTask
    <3>2. QED
      BY <1>0, <1>4, <3>1 DEF ObjsInv
  <2>4. QED
    BY <1>0, <1>3, <2>1, <2>2, <2>3, ZenonT(60) DEF ObjsInv
<1>20. AddingInv'
  <2>1. Announced => Announced'
    <3>1. ASSUME NEW i \in 1 .. Len(queue), Announces(queue[i]) PROVE Announced'
      <4>1. CASE i = 1
        <5>1. Announces(task[w])'
          BY <1>1, <1>3, <3>1, <4>1 DEF Announces
        <5>2. QED
          BY <5>1 DEF Announced
      <4>2. CASE i # 1
        <5>1. PICK j : j = i - 1
          OBVIOUS
        <5>2. j \in 1 .. Len(queue') /\ queue'[j] = queue[i]
          BY <1>4, <4>2, <5>1
        <5>3. Announces(queue[j])'
          BY <1>3, <3>1, <5>2 DEF Announces
        <5>4. QED
          BY <5>2, <5>3 DEF Announced
      <4>3. QED
        BY <4>1, <4>2
    <3>2. ASSUME NEW u \in Threads, frame[u].pc = "notify", frame[u].o = current PROVE Announced'
      BY <3>2 DEF Announced
    <3>3. ~ \E v \in Workers : Announces(task[v])
      BY <1>5 DEF Announces
    <3>4. QED
      BY <3>1, <3>2, <3>3 DEF Announced
  <2>2. QED
    BY <1>0, <1>3, <2>1 DEF AddingInv
<1>21. OneWorker'
  BY <1>1 DEF OneWorker
<1>22. QED
  BY <1>14, <1>15, <1>16, <1>17, <1>18, <1>19, <1>20, <1>21 DEF NewsOK

LEMMA TakeKeeps ==
    ASSUME IInv, NEW w \in Workers, Take(w) PROVE IInv'
<1>0. BaseInv /\ TellInv /\ TypeInv /\ NumbersInv
  BY DEF IInv, BaseInv
<1>1. PICK l : l = Head(queue)
  OBVIOUS
<1>2. /\ UNCHANGED <<kind, objs, current, lock, status, last, told, frame, ext, phase, calls, throws>>
      /\ task[w] = Idle /\ queue # << >> /\ queue' = Tail(queue) /\ task' = [task EXCEPT ![w] = l]
      /\ lapses' = lapses \cup (IF Running # {} THEN {"overlap"} ELSE {})
  BY <1>1 DEF Take, tracking, bounds
<1>3. /\ Len(queue) \in Nat /\ Len(queue) > 0 /\ l = queue[1] /\ Len(queue') = Len(queue) - 1
      /\ l \in PostType
      /\ \A i \in 1 .. Len(queue) - 1 : queue'[i] = queue[i + 1]
  <2>1. queue \in Seq(PostType)
    BY <1>0 DEF TypeInv
  <2>2. QED
    BY <1>1, <1>2, <2>1
<1>4. BaseInv'
  <2>1. last' \in [Services -> 0 .. MaxCalls] /\ told' \in [Services -> Props \cup {NONE}] /\ throws' \in Nat
    BY <1>0, <1>2 DEF TypeInv
  <2>2. lapses \subseteq lapses' /\ lapses' \subseteq Lapses
    BY <1>0, <1>2 DEF TypeInv, Lapses
  <2>3. l \in TaskType /\ l.pc \in {"finish", "lookup", "initial"}
    BY <1>3, PostFacts
  <2>4. TaskNumbers(l)
    <3>1. IsLookup(l) => l.o \in Ids /\ l.n <= MaxCalls
      BY <1>0, <1>3 DEF NumbersInv, IsLookup
    <3>2. QED
      BY <2>3, <3>1 DEF TaskNumbers, Telling, TellPCs
  <2>5. QED
    BY <1>0, <1>2, <2>1, <2>2, <2>3, <2>4, WorkerBase
<1>5. ASSUME NewsOK, lapses' = {} PROVE NewsOK'
  <2>1. Running = {}
    BY <1>2, <1>5
  <2>2. OneStep(w, Idle, l)
    <3>1. \A v \in Workers : task[v] = Idle
      BY <2>1 DEF Running
    <3>2. QED
      BY <1>0, <1>2, <3>1 DEF OneStep, TypeInv
  <2>3. QED
    BY <1>0, <1>2, <1>3, <1>5, <2>2, TakeTell
<1>6. lapses' = {} => lapses = {}
  BY <1>2
<1>7. QED
  BY <1>0, <1>2, <1>4, <1>5, <1>6 DEF IInv, TellInv

-----------------------------------------------------------------------------
(* The theorems. *)

LEMMA InitIInv ==
    ASSUME Init PROVE IInv
<1>1. TypeInv
  <2>1. objs \in Seq(ObjType) /\ Len(objs) = 0 /\ queue \in Seq(PostType)
    BY DEF Init
  <2>2. /\ status \in [Services -> {"new", "tracked", "removed"}] /\ last \in [Services -> 0 .. MaxCalls]
        /\ told \in [Services -> Props \cup {NONE}]
    BY AdminAssumption DEF Init
  <2>3. task \in [Workers -> TaskType] /\ frame \in [Threads -> FrameType]
    BY DEF Init, TaskType, FrameType
  <2>4. QED
    BY <2>1, <2>2, <2>3, AdminAssumption DEF Init, TypeInv, Ids, Lapses
<1>2. /\ \A t \in Threads : frame[t] = Idle /\ frame[t].pc = "idle"
      /\ \A w \in Workers : task[w] = Idle /\ task[w].pc = "idle"
      /\ Len(queue) = 0 /\ Len(objs) = 0 /\ current = 0
  BY DEF Init, Idle
<1>3. NumbersInv /\ AdminInv
  BY <1>2 DEF NumbersInv, TellPCs, AdminInv, Ids
<1>4. ExtInv /\ CloseInv /\ SwappedInv /\ GoneInv
  BY <1>2 DEF Init, ExtInv, CloseInv, ClosePCs, SwappedInv, Swapped, GoneInv
<1>5. NewsOK
  <2>1. ~ Live
    BY <1>2 DEF Live
  <2>2. LiveInv /\ FirstInv
    BY <2>1 DEF LiveInv, FirstInv
  <2>3. ZeroInv
    BY DEF Init, ZeroInv, Tracked
  <2>4. TellerInv /\ SayInv /\ OneWorker
    BY <1>2, IdleTask DEF TellerInv, SayInv, OneWorker
  <2>5. NewsInv
    BY <1>2, IdleTask DEF Init, NewsInv, FirstCall
  <2>6. ObjsInv /\ AddingInv
    BY <1>2, IdleTask DEF ObjsInv, AddingInv, Ids
  <2>7. QED
    BY <2>2, <2>3, <2>4, <2>5, <2>6 DEF NewsOK
<1>6. QED
  BY <1>1, <1>3, <1>4, <1>5 DEF IInv, BaseInv, TellInv

LEMMA StutterKeeps == ASSUME IInv, UNCHANGED vars PROVE IInv'
<1>0. UNCHANGED <<kind, objs, current, lock, status, last, told, queue, task, frame, ext, phase, calls, throws, lapses>>
  BY DEF vars
<1>1. BaseInv'
  <2>1. TypeInv' /\ NumbersInv' /\ ExtInv'
    BY <1>0 DEF IInv, BaseInv, TypeInv, NumbersInv, ExtInv, Brought, Ids
  <2>2. CloseInv' /\ SwappedInv' /\ AdminInv' /\ GoneInv'
    BY <1>0 DEF IInv, BaseInv, CloseInv, SwappedInv, Swapped, AdminInv, Clears, Ids, GoneInv, Running
  <2>3. QED
    BY <2>1, <2>2 DEF BaseInv
<1>2. ASSUME NewsOK PROVE NewsOK'
  <2>1. /\ Count' = Count /\ Value' = Value /\ (Live' <=> Live) /\ (Zero' <=> Zero) /\ Tracked' = Tracked /\ Ids' = Ids
        /\ \A t : WillPost(t)' <=> WillPost(t)
        /\ \A i, s, p : Behind(i, s, p)' <=> Behind(i, s, p)
        /\ \A i, s : Behind(i, s, Value)' <=> Behind(i, s, Value)
    BY <1>0, QueueSays DEF Ids
  <2>2. (Stale' <=> Stale) /\ \A s : Resets(s)' <=> Resets(s)
    BY <1>0, <2>1 DEF Stale, Resets
  <2>3. \A s : FirstCall(s)' <=> FirstCall(s)
    BY <1>0 DEF FirstCall
  <2>4. \A s : (UnderWay(s, Value)' <=> UnderWay(s, Value)) /\ (UnderWay(s, Empty)' <=> UnderWay(s, Empty))
    BY <1>0, <2>1 DEF UnderWay
  <2>5. /\ \A i : Announces(queue[i])' <=> Announces(queue[i])
        /\ \A w : Announces(task[w])' <=> Announces(task[w])
    BY <1>0, <2>1 DEF Announces
  <2>6. \A s : LiveOK(s) => LiveOK(s)'
    <3>1. \A s : LiveKnown(s) => LiveKnown(s)'
      BY <1>0, <2>1, <2>2, <2>3, <2>4 DEF LiveKnown
    <3>2. \A s : LiveComing(s) => LiveComing(s)'
      BY <1>0, <2>1, <2>5 DEF LiveComing
    <3>3. \A s : LiveTelling(s) \/ LiveRecording(s) => LiveTelling(s)' \/ LiveRecording(s)'
      BY <1>0, <2>1 DEF LiveTelling, LiveRecording
    <3>4. QED
      BY <1>0, <2>1, <2>2, <3>1, <3>2, <3>3 DEF LiveOK
  <2>7. \A s : ZeroOK(s) => ZeroOK(s)'
    BY <1>0, <2>1, <2>4 DEF ZeroOK, ZeroKnown, ZeroComing, ZeroTelling, Good
  <2>8. LiveInv' /\ ZeroInv'
    BY <1>2, <2>1, <2>2, <2>6, <2>7 DEF NewsOK, LiveInv, ZeroInv
  <2>9. TellerInv' /\ SayInv'
    BY <1>0, <1>2, <2>1, <2>2 DEF NewsOK, TellerInv, SayInv
  <2>10. FirstInv' /\ NewsInv' /\ OneWorker'
    BY <1>0, <1>2, <2>1, <2>2, <2>3 DEF NewsOK, FirstInv, NewsInv, OneWorker
  <2>11. ObjsInv'
    BY <1>0, <1>2, <2>1 DEF NewsOK, ObjsInv
  <2>12. AddingInv'
    <3>1. Announced => Announced'
      BY <1>0, <2>5 DEF Announced
    <3>2. QED
      BY <1>0, <1>2, <2>1, <3>1 DEF NewsOK, AddingInv
  <2>13. QED
    BY <2>8, <2>9, <2>10, <2>11, <2>12 DEF NewsOK
<1>3. QED
  BY <1>0, <1>1, <1>2 DEF IInv, TellInv

LEMMA NextKeeps ==
    ASSUME IInv, [Next]_vars PROVE IInv'
<1>1. ASSUME NEW t \in Threads, NEW p \in Props, UpdateProps(t, p) \/ AddConfigurations(t, p) PROVE IInv'
  BY <1>1, UpdatePropsKeeps, AddConfigurationsKeeps
<1>2. ASSUME NEW t \in Threads, Remove(t) \/ GetConfiguration(t) \/ RemoveConfigurations(t) \/ Close(t) PROVE IInv'
  BY <1>2, RemoveKeeps, GetConfigurationKeeps, RemoveConfigurationsKeeps, CloseKeeps
<1>3. ASSUME NEW t \in Threads, NEW s \in Services, AddingService(t, s) \/ RemovedService(t, s) PROVE IInv'
  BY <1>3, AddingServiceKeeps, RemovedServiceKeeps
<1>4. ASSUME NEW t \in Threads, ThreadStep(t) PROVE IInv'
  BY <1>4, UpdateNotifyKeeps, RemoveEraseKeeps, RemoveNotifyKeeps, InvalidateKeeps, NotifyConfigurationUpdatedKeeps,
     AddingTrackKeeps, CloseSwapKeeps, CloseInvalidateKeeps, CloseWaitKeeps DEF ThreadStep
<1>5. ASSUME NEW w \in Workers, WorkerStep(w) PROVE IInv'
  BY <1>5, TakeKeeps, LookupKeeps, CallListenersKeeps, CheckKeeps, TellKeeps, RecordKeeps, TellInitialKeeps, FinishKeeps
     DEF WorkerStep
<1>6. QED
  BY <1>1, <1>2, <1>3, <1>4, <1>5, StutterKeeps DEF Next

\* The inductive invariant holds for any number of client threads, workers, services and calls: whatever the
\* configuration is, news of it is on its way to every service that was not told it (ConfigurationAdminImpl.cpp,
\* NotifyConfigurationUpdated and the task it posts), and whatever points to the Configuration Admin is reset
\* (ConfigurationImpl.cpp, Invalidate).
THEOREM AlwaysIInv == Spec => []IInv
<1>1. Init => IInv
  BY InitIInv
<1>2. IInv /\ [Next]_vars => IInv'
  BY NextKeeps
<1>3. QED
  BY <1>1, <1>2, PTL DEF Spec

\* The state keeps its types: no change count of a configuration, and none that a service was told
\* (lastUpdatedChangeCount), exceeds the number of calls, and at most one thread holds configurationsMutex.
THEOREM TypeCorrect == Spec => []TypeOK
<1>1. IInv => TypeOK
  <2> SUFFICES ASSUME IInv PROVE TypeOK
    OBVIOUS
  <2>1. TypeInv
    BY DEF IInv, BaseInv
  <2>2. Cardinality(lock) <= 1 /\ lock \subseteq Threads
    <3>1. CASE lock = {}
      BY <3>1, FS_EmptySet
    <3>2. ASSUME NEW t \in Threads, lock = {t} PROVE Cardinality(lock) <= 1 /\ lock \subseteq Threads
      <4>1. Cardinality(lock) = 1
        BY <3>2, FS_Singleton
      <4>2. QED
        BY <3>2, <4>1
    <3>3. QED
      BY <2>1, <3>1, <3>2 DEF TypeInv
  <2>3. \A o \in 1 .. Len(objs) : objs[o].props \in Props /\ objs[o].changeCount \in 0 .. MaxCalls + 1
    <3>1. ASSUME NEW o \in Ids PROVE objs[o].props \in Props /\ objs[o].changeCount \in 0 .. MaxCalls + 1
      <4>1. objs[o].props \in Props /\ objs[o].changeCount \in Nat
        BY <2>1, ObjIs DEF TypeInv
      <4>2. objs[o].changeCount <= calls /\ calls \in 0 .. MaxCalls
        BY <2>1 DEF TypeInv
      <4>3. QED
        BY <4>1, <4>2, AdminAssumption
    <3>2. QED
      BY <3>1 DEF Ids
  <2>4. last \in [Services -> 0 .. MaxCalls + 1]
    BY <2>1, AdminAssumption DEF TypeInv
  <2>5. QED
    BY <2>1, <2>2, <2>3, <2>4 DEF TypeInv, TypeOK
<1>2. QED
  BY <1>1, AlwaysIInv, PTL

\* However updates, removals, bundles and new services raced, once all tasks have run every tracked service was last
\* told what the configuration is (NotifyConfigurationUpdated, AddingService), unless one of the lapses happened:
\* several tasks at once, a configuration made again before the task of its removal ran, properties and count read
\* apart, a replaced configuration, a listener that throws.
THEOREM LatestAlwaysTold == Spec => []LatestIsTold
<1>1. IInv => LatestIsTold
  <2> SUFFICES ASSUME IInv, Quiet, lapses = {}, NEW s \in Services, status[s] = "tracked" PROVE KnowsLatest(s)
    BY DEF LatestIsTold
  <2>1. TypeInv /\ NewsOK
    BY DEF IInv, BaseInv, TellInv, Quiet
  <2>2. LiveInv /\ ZeroInv /\ ObjsInv
    BY <2>1 DEF NewsOK
  <2>3. queue = << >> /\ Running = {} /\ Len(queue) = 0
    BY <2>1, NothingLeft DEF Quiet
  <2>4. /\ \A t \in Threads : frame[t].pc = "idle"
        /\ \A w \in Workers : task[w] = Idle
    BY <2>3, IdleIs DEF Quiet, Running
  <2>5. \A t \in Threads : ~ WillPost(t)
    BY <2>4 DEF WillPost
  <2>6. ~ Stale
    BY <2>3, <2>4, <2>5, IdleTask DEF Stale
  <2>7. s \in Tracked
    BY DEF Tracked
  <2>8. CASE Zero
    <3>1. ~ ZeroComing(s)
      BY <2>3, <2>4, <2>5, IdleTask DEF ZeroComing
    <3>2. ~ ZeroTelling(s)
      BY <2>4, IdleTask DEF ZeroTelling
    <3>3. Good(s)
      BY <2>2, <2>7, <2>8, <3>1, <3>2 DEF ZeroInv, ZeroOK, ZeroKnown
    <3>4. current # 0 => Count \in Nat
      <4>1. current # 0 => current \in Ids
        BY <2>1 DEF TypeInv, Ids
      <4>2. QED
        BY <2>1, <4>1, ObjIs DEF TypeInv, Count
    <3>5. QED
      BY <2>8, <3>3, <3>4 DEF KnowsLatest, Good, Zero, Count
  <2>9. CASE ~ Zero
    <3>1. Live
      <4>1. current # 0 /\ Count # 0 /\ current \in Ids
        BY <2>1, <2>9 DEF Zero, TypeInv, Ids
      <4>2. Count \in Nat
        BY <2>1, <4>1, ObjIs DEF TypeInv, Count
      <4>3. ~ objs[current].removed
        BY <2>2, <2>4, <4>1 DEF ObjsInv
      <4>4. QED
        BY <4>1, <4>2, <4>3 DEF Live
    <3>2. LiveOK(s)
      BY <2>2, <2>6, <2>7, <3>1 DEF LiveInv
    <3>3. ~ LiveComing(s)
      <4>1. \A w \in Workers : ~ Announces(task[w])
        BY <2>4, IdleTask DEF Announces
      <4>2. ~ \E i \in 1 .. Len(queue) : Announces(queue[i]) /\ Behind(i, s, Value)
        BY <2>3
      <4>3. QED
        BY <2>4, <2>5, <4>1, <4>2 DEF LiveComing
    <3>4. ~ LiveTelling(s) /\ ~ LiveRecording(s) /\ ~ FirstCall(s)
      BY <2>3, <2>4, IdleTask DEF LiveTelling, LiveRecording, FirstCall
    <3>5. told[s] = Value
      BY <3>2, <3>3, <3>4 DEF LiveOK, LiveKnown
    <3>6. QED
      BY <3>1, <3>5 DEF KnowsLatest, Live, Value, Count
  <2>10. QED
    BY <2>8, <2>9
<1>2. QED
  BY <1>1, AlwaysIInv, PTL

\* After the destructor of ConfigurationAdminImpl no task is left and no configuration points to the Configuration
\* Admin, whatever clients did meanwhile, except when a client was in Remove past the erasure when it took the
\* configurations.
THEOREM AlwaysUsesLiveAdmin == Spec => []UsesLiveAdmin
<1>1. IInv => UsesLiveAdmin
  <2> SUFFICES ASSUME IInv, phase = "gone", "erased" \notin lapses
               PROVE  Incomplete = 0 /\ \A o \in 1 .. Len(objs) : ~ objs[o].admin
    BY DEF UsesLiveAdmin
  <2>1. BaseInv /\ TypeInv /\ GoneInv
    BY DEF IInv, BaseInv
  <2>2. Incomplete = 0
    BY <2>1, NothingLeft DEF GoneInv
  <2>3. \A o \in Ids : ~ objs[o].admin
    BY <2>1, GoneDetached DEF BaseInv
  <2>4. QED
    BY <2>2, <2>3 DEF Ids
<1>2. QED
  BY <1>1, AlwaysIInv, PTL

\* A bundle that stops (RemoveConfigurations) removes no configuration that a client has written since the bundle
\* started, unless nobody ever updated it, or it was made at the address of the one that the bundle brought, which the
\* code takes for the same.
THEOREM UninstallAlwaysKeepsChanges == Spec => UninstallKeepsChanges
<1>1. IInv /\ [Next]_vars =>
        [\A o \in 1 .. Len(objs) : Uninstalls(o) => BundleWrote(o) \/ ext.reused]_vars
  <2> SUFFICES ASSUME IInv, Next, NEW o \in 1 .. Len(objs), ext # NONE, ext' = NONE, ~ objs[o].removed,
                      objs'[o].removed, ext.reused # TRUE
               PROVE  objs[o].by = "bundle" \/ objs[o].changeCount = 0
    BY DEF Uninstalls, BundleWrote
  <2>1. TypeInv /\ ExtInv
    BY DEF IInv, BaseInv
  <2>2. ASSUME NEW t \in Threads, RemoveConfigurations(t) PROVE objs[o].by = "bundle" \/ objs[o].changeCount = 0
    <3>1. PICK c : c = ext.o
      OBVIOUS
    <3>2. c \in Ids /\ objs[c].changeCount = ext.n => objs[c].by = "bundle" \/ objs[c].changeCount = 0
      BY <2>1, <3>1 DEF ExtInv, Brought
    <3>3. CASE objs' = objs
      BY <3>3
    <3>4. CASE objs' # objs
      <4>1. (objs[c].removed \/ objs[c].changeCount = ext.n) /\ objs' = [objs EXCEPT ![c].removed = TRUE]
        BY <2>2, <3>1, <3>4 DEF RemoveConfigurations, IsStillThat
      <4>2. c \in Ids /\ o \in Ids
        BY <2>1, <3>1 DEF ExtInv, Ids
      <4>3. \A x \in Ids : x # c => objs'[x] = objs[x]
        BY <2>1, <4>1, <4>2, RemovedIs DEF TypeInv
      <4>4. o = c
        BY <4>2, <4>3
      <4>5. QED
        BY <3>2, <4>1, <4>2, <4>4
    <3>5. QED
      BY <3>3, <3>4
  <2>3. ASSUME NEW t \in Threads, NEW p \in Props, AddConfigurations(t, p) PROVE FALSE
    BY <2>3 DEF AddConfigurations
  <2>4. ASSUME NEW t \in Threads, NEW p \in Props, UpdateProps(t, p) PROVE FALSE
    BY <2>4 DEF UpdateProps
  <2>5. ASSUME NEW t \in Threads, Remove(t) \/ GetConfiguration(t) \/ Close(t) PROVE FALSE
    <3>1. CASE Remove(t) \/ Close(t)
      BY <3>1 DEF Remove, Close
    <3>2. CASE GetConfiguration(t)
      <4>1. objs' = Append(objs, Obj(Empty, 0, "client")) /\ objs \in Seq(ObjType) /\ o \in 1 .. Len(objs)
        BY <2>1, <3>2 DEF GetConfiguration, TypeInv
      <4>2. objs'[o] = objs[o]
        BY <4>1
      <4>3. QED
        BY <4>2
    <3>3. QED
      BY <2>5, <3>1, <3>2
  <2>6. ASSUME NEW t \in Threads, NEW s \in Services, AddingService(t, s) \/ RemovedService(t, s) PROVE FALSE
    <3>1. CASE AddingService(t, s)
      BY <3>1 DEF AddingService
    <3>2. CASE RemovedService(t, s)
      BY <3>2 DEF RemovedService
    <3>3. QED
      BY <2>6, <3>1, <3>2
  <2>7. ASSUME NEW t \in Threads, ThreadStep(t) PROVE FALSE
    <3>1. UpdateNotify(t) \/ RemoveErase(t) \/ RemoveNotify(t) => ext' = ext
      BY DEF UpdateNotify, RemoveErase, RemoveNotify
    <3>2. Invalidate(t) \/ NotifyConfigurationUpdated(t) => ext' = ext
      BY DEF Invalidate, NotifyConfigurationUpdated
    <3>3. AddingTrack(t) => ext' = ext
      BY DEF AddingTrack
    <3>4. (CloseSwap(t) => ext' = ext) /\ (CloseWait(t) => ext' = ext)
      BY DEF CloseSwap, CloseWait
    <3>5. CloseInvalidate(t) => ext' = ext
      BY ZenonT(60) DEF CloseInvalidate
    <3>6. QED
      BY <2>7, <3>1, <3>2, <3>3, <3>4, <3>5 DEF ThreadStep
  <2>8. ASSUME NEW w \in Workers, WorkerStep(w) PROVE FALSE
    BY <2>8 DEF WorkerStep, Take, Lookup, CallListeners, Check, Tell, Record, TellInitial, Finish
  <2>9. QED
    BY <2>2, <2>3, <2>4, <2>5, <2>6, <2>7, <2>8 DEF Next
<1>2. QED
  BY <1>1, AlwaysIInv, PTL DEF Spec, UninstallKeepsChanges
=============================================================================
