------------------------ MODULE ConfigurationAdmin ------------------------
(***************************************************************************)
(* The configurations of one PID in the Configuration Admin                *)
(* (ConfigurationAdminImpl.cpp, ConfigurationImpl.cpp, CMAsyncWorkService, *)
(* CMBundleExtension): clients create, update and remove the               *)
(* configuration, a bundle brings one in its manifest and takes it back    *)
(* when it stops, managed services (or factories) of the PID come and go,  *)
(* and tasks on the threads of the asynchronous work service push the      *)
(* properties to them. At the end the Configuration Admin is destroyed     *)
(* while clients still hold configurations.                                *)
(*                                                                         *)
(* A configuration has a mutex for its properties (every use of it is      *)
(* within one step here) and one for its pointer to the Configuration      *)
(* Admin, which is held during the calls through that pointer. PIDs share  *)
(* only the mutex of the configurations and the queue of tasks.            *)
(***************************************************************************)
EXTENDS Integers, Sequences, FiniteSets

CONSTANTS Threads,       \* client threads
          Workers,       \* threads of the asynchronous work service
          Services,      \* managed services, each registered once
          Props, Empty,  \* values of the properties, the empty map
          NONE,
          MaxCalls,      \* bound on calls
          MaxThrows      \* bound on exceptions of configuration listeners

ASSUME AdminAssumption ==
    /\ Empty \in Props /\ NONE \notin Props /\ NONE \notin Nat
    /\ IsFiniteSet(Workers) /\ MaxCalls \in Nat /\ MaxThrows \in Nat

VARIABLES
    kind,      \* of the services: ManagedService or ManagedServiceFactory
    objs,      \* the configurations there were
    current,   \* configurations: the one of the PID, 0 if there is none
    lock,      \* threads that hold configurationsMutex over several steps
    status,    \* of each service: not yet tracked, in the list of tracked services, or removed
    last,      \* lastUpdatedChangeCount of each service
    told,      \* what each service was last called with
    queue,     \* posted tasks
    task,      \* what each worker is doing
    frame,     \* what each client thread is doing
    ext,       \* the bundle extension: what AddConfigurations returned, o being what is at the address it kept
    phase,     \* of the Configuration Admin
    calls, throws,
    lapses     \* history: what happened that may cost a service an update

vars == <<kind, objs, current, lock, status, last, told, queue, task, frame, ext, phase, calls, throws, lapses>>

\* by: history, who wrote the properties last.
Obj(p, n, by) == [props |-> p, changeCount |-> IF p # Empty /\ n = 0 THEN 1 ELSE n,
                  removed |-> FALSE, admin |-> TRUE, held |-> FALSE, by |-> by]

Idle == [pc |-> "idle"]

Init ==
    /\ kind \in {"ManagedService", "ManagedServiceFactory"}
    /\ objs = << >> /\ current = 0 /\ lock = {}
    /\ status = [s \in Services |-> "new"] /\ last = [s \in Services |-> 0] /\ told = [s \in Services |-> NONE]
    /\ queue = << >> /\ task = [w \in Workers |-> Idle]
    /\ frame = [t \in Threads |-> Idle] /\ ext = NONE /\ phase = "open"
    /\ calls = 0 /\ throws = 0 /\ lapses = {}

Lapses == {"recreated", "overlap", "torn", "uncounted", "thrown", "erased"}

TypeOK ==
    /\ current \in 0 .. Len(objs) /\ lock \subseteq Threads /\ Cardinality(lock) <= 1
    /\ \A o \in 1 .. Len(objs) : objs[o].props \in Props /\ objs[o].changeCount \in 0 .. MaxCalls + 1
    /\ status \in [Services -> {"new", "tracked", "removed"}] /\ last \in [Services -> 0 .. MaxCalls + 1]
    /\ told \in [Services -> Props \cup {NONE}]
    /\ phase \in {"open", "closing", "gone"} /\ lapses \subseteq Lapses

-----------------------------------------------------------------------------
At(t, l)      == frame[t].pc = l
Do(t, f)      == frame' = [frame EXCEPT ![t] = f]
Free          == lock = {}
Post(tasks)   == queue' = queue \o tasks
Running       == {w \in Workers : task[w] # Idle}
Incomplete    == Len(queue) + Cardinality(Running)     \* incompleteFutures

\* NotifyConfigurationUpdated posts such a task; o: history, the configuration it was posted for.
Update(o, n)  == [pc |-> "lookup", o |-> o, n |-> n]
\* The call a service that is new gets, and the task that only holds on to a configuration.
Initial(s, p) == [pc |-> "initial", s |-> s, p |-> p]
Hold          == [pc |-> "finish"]

tracking == <<status, last, told>>
work     == <<queue, task>>
bounds   == <<throws, kind>>

Call(t, f) ==
    /\ frame[t] = Idle /\ calls < MaxCalls /\ calls' = calls + 1
    /\ Do(t, f)

-----------------------------------------------------------------------------
(* Configurations (ConfigurationImpl) *)

\* An update without the notification, of a configuration that is not removed.
Written(o, p, by) == [objs EXCEPT ![o].props = p, ![o].changeCount = @ + 1, ![o].by = by]

\* Update; UpdateIfDifferent does the same or, when nothing differs, nothing.
UpdateProps(t, p) ==
    /\ \E o \in 1 .. Len(objs) :
          /\ ~ objs[o].removed
          /\ objs' = Written(o, p, "client")
          /\ Call(t, [pc |-> "notify", o |-> o])
    /\ UNCHANGED <<current, lock, tracking, work, ext, phase, bounds, lapses>>

\* The change count is read without the mutex of the properties: it may be that of a later update.
UpdateNotify(t) ==
    LET o == frame[t].o
    IN  /\ At(t, "notify") /\ ~ objs[o].held
        /\ IF objs[o].admin THEN Post(<<Update(o, objs[o].changeCount)>>) ELSE UNCHANGED queue
        /\ Do(t, Idle)
        /\ UNCHANGED <<objs, current, lock, tracking, task, ext, phase, calls, bounds, lapses>>

Remove(t) ==
    /\ \E o \in 1 .. Len(objs) :
          /\ ~ objs[o].removed
          /\ objs' = [objs EXCEPT ![o].removed = TRUE]
          /\ Call(t, [pc |-> "removing", o |-> o])
    /\ UNCHANGED <<current, lock, tracking, work, ext, phase, bounds, lapses>>

\* NotifyConfigurationRemoved, with the mutex of the pointer: unless it was replaced, the configuration is erased ...
RemoveErase(t) ==
    LET o == frame[t].o
    IN  /\ At(t, "removing") /\ ~ objs[o].held /\ Free
        /\ IF objs[o].admin /\ current = o
           THEN /\ current' = 0
                /\ IF objs[o].changeCount > 0
                   THEN objs' = [objs EXCEPT ![o].held = TRUE] /\ Do(t, [frame[t] EXCEPT !.pc = "removed"])
                   ELSE objs' = [objs EXCEPT ![o].admin = FALSE] /\ Do(t, Idle)
           ELSE objs' = [objs EXCEPT ![o].admin = FALSE] /\ Do(t, Idle) /\ UNCHANGED current
        /\ UNCHANGED <<lock, tracking, work, ext, phase, calls, bounds, lapses>>

\* ... and then the services are to be told.
RemoveNotify(t) ==
    LET o == frame[t].o
    IN  /\ At(t, "removed")
        /\ objs' = [objs EXCEPT ![o].held = FALSE, ![o].admin = FALSE]
        /\ Post(<<Update(o, objs[o].changeCount), Hold>>)
        /\ Do(t, Idle)
        /\ UNCHANGED <<current, lock, tracking, task, ext, phase, calls, bounds, lapses>>

-----------------------------------------------------------------------------
(* Calls of the Configuration Admin *)

\* A removed configuration is freed when no client has it, and no thread or task is still at work with it.
Freed(o) ==
    /\ objs[o].removed /\ current # o
    /\ \A t \in Threads : /\ frame[t].pc \in {"notify", "removing", "removed"} => frame[t].o # o
                         /\ At(t, "invalidate") => frame[t].old # o
    /\ \A i \in 1 .. Len(queue) : queue[i] # Hold
    /\ \A w \in Workers : task[w] # Hold

\* GetConfiguration makes a configuration that was never updated; its other callers find what there is. The extension
\* keeps an address and nothing alive: the new configuration may be where the old one was.
GetConfiguration(t) ==
    /\ phase = "open" /\ current = 0 /\ Free
    /\ objs' = Append(objs, Obj(Empty, 0, "client")) /\ current' = Len(objs) + 1
    /\ \/ UNCHANGED ext
       \/ ext # NONE /\ Freed(ext.o) /\ ext' = [o |-> Len(objs) + 1, n |-> ext.n, reused |-> TRUE]
    /\ Call(t, Idle)
    /\ UNCHANGED <<lock, tracking, work, phase, bounds, lapses>>

\* A bundle with a configuration in its manifest starts. What it finds is updated; a configuration that is being
\* removed is replaced, and the change count that is kept for the new one is 0.
AddConfigurations(t, p) ==
    LET c   == current
        new == Len(objs) + 1
    IN  /\ phase = "open" /\ ext = NONE /\ Free
        /\ \/ /\ c = 0
              /\ objs' = Append(objs, Obj(p, 1, "bundle")) /\ current' = new
              /\ ext' = [o |-> new, n |-> 1, reused |-> FALSE]
              /\ Call(t, [pc |-> "post", o |-> new, n |-> 1])
              /\ UNCHANGED lapses
           \/ /\ c # 0 /\ ~ objs[c].removed /\ objs[c].props = p
              /\ ext' = [o |-> c, n |-> 0, reused |-> FALSE]
              /\ Call(t, Idle)
              /\ UNCHANGED <<objs, current, lapses>>
           \/ /\ c # 0 /\ ~ objs[c].removed /\ objs[c].props # p
              /\ objs' = Written(c, p, "bundle")
              /\ ext' = [o |-> c, n |-> objs[c].changeCount + 1, reused |-> FALSE]
              /\ Call(t, [pc |-> "post", o |-> c, n |-> objs[c].changeCount + 1])
              /\ UNCHANGED <<current, lapses>>
           \/ /\ c # 0 /\ objs[c].removed
              /\ objs' = Append(objs, Obj(p, 0, "bundle")) /\ current' = new
              /\ ext' = [o |-> new, n |-> 0, reused |-> FALSE]
              /\ lapses' = lapses \cup {"uncounted"}
              /\ Call(t, [pc |-> "invalidate", old |-> c, o |-> new, n |-> 0])
        /\ UNCHANGED <<lock, tracking, work, phase, bounds>>

\* Mutant of IsStillThat: the change count is not compared.
IsStillThatObject(o, n) == TRUE

IsStillThat(o, n) == objs[o].changeCount = n

\* The bundle stops: its configuration is removed unless it was replaced, or changed since.
RemoveConfigurations(t) ==
    LET c == ext.o
        n == ext.n
    IN  /\ phase = "open" /\ ext # NONE /\ Free
        /\ ext' = NONE
        /\ IF current = c /\ (objs[c].removed \/ IsStillThat(c, n))
           THEN /\ objs' = [objs EXCEPT ![c].removed = TRUE] /\ current' = 0
                /\ Call(t, [pc |-> "invalidate", old |-> c, o |-> c,
                            n |-> IF objs[c].changeCount > 0 THEN n ELSE NONE])
           ELSE Call(t, Idle) /\ UNCHANGED <<objs, current>>
        /\ UNCHANGED <<lock, tracking, work, phase, bounds, lapses>>

\* Both go on without the mutex: the configuration that is out is invalidated, and the services are to be told.
Invalidate(t) ==
    LET f == frame[t]
    IN  /\ At(t, "invalidate") /\ ~ objs[f.old].held
        /\ objs' = [objs EXCEPT ![f.old].admin = FALSE]
        /\ Do(t, IF f.n = NONE THEN Idle ELSE [pc |-> "post", o |-> f.o, n |-> f.n])
        /\ UNCHANGED <<current, lock, tracking, work, ext, phase, calls, bounds, lapses>>

NotifyConfigurationUpdated(t) ==
    /\ At(t, "post")
    /\ Post(<<Update(frame[t].o, frame[t].n)>>)
    /\ Do(t, Idle)
    /\ UNCHANGED <<objs, current, lock, tracking, task, ext, phase, calls, bounds, lapses>>

-----------------------------------------------------------------------------
(* Services *)

\* AddingService reads the properties, with configurationsMutex ...
AddingService(t, s) ==
    LET c == current
    IN  /\ phase = "open" /\ status[s] = "new" /\ Free
        /\ lock' = {t}
        /\ Call(t, [pc |-> "adding", s |-> s, p |-> IF c # 0 /\ ~ objs[c].removed THEN objs[c].props ELSE Empty,
                    o |-> IF c # 0 /\ objs[c].changeCount > 0 THEN c ELSE 0,
                    \* history: what is read next should be the count these properties have
                    n |-> IF c # 0 /\ ~ objs[c].removed THEN objs[c].changeCount ELSE 0])
        /\ UNCHANGED <<objs, current, tracking, work, ext, phase, bounds, lapses>>

\* ... then the change count, which an update may have changed; the service is tracked and its first call posted.
\* A factory is not called for a configuration that is being removed.
AddingTrack(t) ==
    LET f    == frame[t]
        n    == IF f.o # 0 /\ ~ objs[f.o].removed THEN objs[f.o].changeCount ELSE 0
        tell == f.o # 0 /\ (kind = "ManagedService" \/ n # 0)
    IN  /\ At(t, "adding")
        /\ status' = [status EXCEPT ![f.s] = "tracked"] /\ last' = [last EXCEPT ![f.s] = n]
        /\ IF tell THEN Post(<<Initial(f.s, f.p)>>) ELSE UNCHANGED queue
        /\ lapses' = lapses \cup (IF tell /\ n # f.n THEN {"torn"} ELSE {})
        /\ lock' = {} /\ Do(t, Idle)
        /\ UNCHANGED <<objs, current, told, task, ext, phase, calls, bounds>>

RemovedService(t, s) ==
    /\ phase = "open" /\ status[s] = "tracked" /\ Free
    /\ status' = [status EXCEPT ![s] = "removed"]
    /\ Call(t, Idle)
    /\ UNCHANGED <<objs, current, lock, last, told, work, ext, phase, bounds, lapses>>

-----------------------------------------------------------------------------
(* Tasks *)

Take(w) ==
    /\ task[w] = Idle /\ queue # << >>
    /\ task' = [task EXCEPT ![w] = Head(queue)] /\ queue' = Tail(queue)
    /\ lapses' = lapses \cup (IF Running # {} THEN {"overlap"} ELSE {})
    /\ UNCHANGED <<objs, current, lock, tracking, frame, ext, phase, calls, bounds>>

\* The task looks up what the configuration is by now, whichever update it was posted for.
Lookup(w) ==
    LET k       == task[w]
        c       == current
        removed == c = 0 \/ objs[c].removed
        skip    == c # 0 /\ objs[c].changeCount = 0
    IN  /\ task[w].pc = "lookup" /\ Free
        /\ task' = [task EXCEPT ![w] =
                      IF skip THEN Hold
                      ELSE [pc |-> "listeners", n |-> k.n, removed |-> removed,
                            p |-> IF removed THEN Empty ELSE objs[c].props,
                            todo |-> {s \in Services : status[s] = "tracked"}, s |-> NONE]]
        /\ lapses' = lapses \cup (IF c \notin {0, k.o} THEN {"recreated"} ELSE {})
        /\ UNCHANGED <<objs, current, lock, tracking, queue, frame, ext, phase, calls, bounds>>

\* Configuration listeners come first; an exception of one ends the task.
CallListeners(w) ==
    /\ task[w].pc = "listeners"
    /\ \/ /\ task' = [task EXCEPT ![w].pc = "check"]
          /\ UNCHANGED <<throws, lapses>>
       \/ /\ throws < MaxThrows /\ throws' = throws + 1
          /\ task' = [task EXCEPT ![w] = Hold]
          /\ lapses' = lapses \cup {"thrown"}
    /\ UNCHANGED <<kind, objs, current, lock, tracking, queue, frame, ext, phase, calls>>

\* Mutant of NeedsAnUpdateNotification: off by one.
NeedsTheNextNotification(s, n) == last[s] + 1 < n

NeedsAnUpdateNotification(s, n) == last[s] < n

Check(w) ==
    LET k == task[w]
    IN  /\ k.pc = "check"
        /\ \/ /\ k.todo = {}
              /\ task' = [task EXCEPT ![w] = Hold]
           \/ \E s \in k.todo :
                 task' = [task EXCEPT ![w] = IF k.removed \/ NeedsAnUpdateNotification(s, k.n)
                                             THEN [k EXCEPT !.pc = "tell", !.s = s, !.todo = @ \ {s}]
                                             ELSE [k EXCEPT !.todo = @ \ {s}]]
        /\ UNCHANGED <<objs, current, lock, tracking, queue, frame, ext, phase, calls, bounds, lapses>>

\* Updated of the service, or Removed of the factory ...
Tell(w) ==
    LET k == task[w]
    IN  /\ k.pc = "tell"
        /\ told' = [told EXCEPT ![k.s] = IF k.removed /\ kind = "ManagedServiceFactory" THEN NONE ELSE k.p]
        /\ task' = [task EXCEPT ![w].pc = "record"]
        /\ UNCHANGED <<objs, current, lock, status, last, queue, frame, ext, phase, calls, bounds, lapses>>

\* ... and the change count is set, or forgotten.
Record(w) ==
    LET k == task[w]
    IN  /\ k.pc = "record"
        /\ last' = [last EXCEPT ![k.s] = IF k.removed THEN 0 ELSE k.n]
        /\ task' = [task EXCEPT ![w].pc = "check"]
        /\ UNCHANGED <<objs, current, lock, status, told, queue, frame, ext, phase, calls, bounds, lapses>>

\* The first call of a service has the properties that were read when it was added.
TellInitial(w) ==
    LET k == task[w]
    IN  /\ k.pc = "initial"
        /\ told' = [told EXCEPT ![k.s] = k.p]
        /\ task' = [task EXCEPT ![w] = Hold]
        /\ UNCHANGED <<objs, current, lock, status, last, queue, frame, ext, phase, calls, bounds, lapses>>

Finish(w) ==
    /\ task[w] = Hold
    /\ task' = [task EXCEPT ![w] = Idle]
    /\ UNCHANGED <<objs, current, lock, tracking, queue, frame, ext, phase, calls, bounds, lapses>>

-----------------------------------------------------------------------------
(* The destructor *)

\* Nobody holds the Configuration Admin any more; configurations may still be updated and removed. The trackers are
\* closed.
Close(t) ==
    /\ phase = "open" /\ ext = NONE
    /\ \A u \in Threads : frame[u].pc \in {"idle", "notify", "removing", "removed"}
    /\ phase' = "closing"
    /\ status' = [s \in Services |-> IF status[s] = "tracked" THEN "removed" ELSE status[s]]
    /\ Call(t, [pc |-> "swap", tell |-> {s \in Services : status[s] = "tracked"}])
    /\ UNCHANGED <<objs, current, lock, last, told, work, ext, bounds, lapses>>

CloseSwap(t) ==
    /\ At(t, "swap") /\ Free
    /\ current' = 0
    /\ lapses' = lapses \cup (IF \E u \in Threads : At(u, "removed") THEN {"erased"} ELSE {})
    /\ Do(t, [pc |-> "closeInvalidate", o |-> current, tell |-> frame[t].tell])
    /\ UNCHANGED <<objs, lock, tracking, work, ext, phase, calls, bounds>>

\* Mutant of CloseInvalidate: a configuration that was never updated is forgotten.
CloseInvalidateUpdated(t) ==
    LET o == frame[t].o
    IN  /\ At(t, "closeInvalidate")
        /\ IF o # 0 /\ objs[o].changeCount > 0
           THEN ~ objs[o].held /\ objs' = [objs EXCEPT ![o].admin = FALSE] ELSE UNCHANGED objs
        /\ Do(t, [pc |-> "closeWait"])
        /\ UNCHANGED <<current, lock, tracking, work, ext, phase, calls, bounds, lapses>>

\* The configuration is invalidated, and the services that were tracked are told it is removed.
CloseInvalidate(t) ==
    LET o == frame[t].o
    IN  /\ At(t, "closeInvalidate")
        /\ IF o # 0
           THEN /\ ~ objs[o].held
                /\ objs' = [objs EXCEPT ![o].admin = FALSE]
                /\ IF objs[o].changeCount > 0
                   THEN told' = [s \in Services |-> IF s \notin frame[t].tell THEN told[s]
                                                    ELSE IF kind = "ManagedService" THEN Empty ELSE NONE]
                   ELSE UNCHANGED told
           ELSE UNCHANGED <<objs, told>>
        /\ Do(t, [pc |-> "closeWait"])
        /\ UNCHANGED <<current, lock, status, last, work, ext, phase, calls, bounds, lapses>>

CloseWait(t) ==
    /\ At(t, "closeWait") /\ Incomplete = 0
    /\ phase' = "gone"
    /\ Do(t, Idle)
    /\ UNCHANGED <<objs, current, lock, tracking, work, ext, calls, bounds, lapses>>

-----------------------------------------------------------------------------
ThreadStep(t) ==
    \/ UpdateNotify(t) \/ RemoveErase(t) \/ RemoveNotify(t) \/ Invalidate(t) \/ NotifyConfigurationUpdated(t)
    \/ AddingTrack(t) \/ CloseSwap(t) \/ CloseInvalidate(t) \/ CloseWait(t)

WorkerStep(w) ==
    \/ Take(w) \/ Lookup(w) \/ CallListeners(w) \/ Check(w) \/ Tell(w) \/ Record(w) \/ TellInitial(w) \/ Finish(w)

Next ==
    \/ \E t \in Threads :
          \/ \E p \in Props : UpdateProps(t, p) \/ AddConfigurations(t, p)
          \/ Remove(t) \/ GetConfiguration(t) \/ RemoveConfigurations(t) \/ Close(t)
          \/ \E s \in Services : AddingService(t, s) \/ RemovedService(t, s)
          \/ ThreadStep(t)
    \/ \E w \in Workers : WorkerStep(w)

\* Fairness: clients' threads and the threads of the work service run on, and the user code they call returns.
Spec == /\ Init /\ [][Next]_vars
        /\ \A t \in Threads : WF_vars(ThreadStep(t))
        /\ \A w \in Workers : WF_vars(WorkerStep(w))

-----------------------------------------------------------------------------
(* Properties *)

\* Nothing is under way, and s was last told what the configuration is.
Quiet == phase = "open" /\ Incomplete = 0 /\ \A t \in Threads : frame[t] = Idle
KnowsLatest(s) == IF current # 0 /\ objs[current].changeCount > 0 THEN told[s] = objs[current].props
                  ELSE told[s] \in {NONE, Empty}

\* However updates, removals, bundles and new services raced, once all tasks have run every tracked service was last
\* told the properties the configuration has, or that it has none (Configuration.hpp, Update and Remove), except
\* after the lapses that the history names.
LatestIsTold == (Quiet /\ lapses = {}) => \A s \in Services : status[s] = "tracked" => KnowsLatest(s)

\* After the destructor no task is left and no configuration points to the Configuration Admin, although clients
\* update and remove them meanwhile; except when one was in Remove, past the erasure.
UsesLiveAdmin == (phase = "gone" /\ "erased" \notin lapses) => Incomplete = 0 /\ \A o \in 1 .. Len(objs) : ~ objs[o].admin

\* The bundle stops and takes the configuration away that it brought, or one that nobody updated, which has no
\* properties.
Uninstalls(o)  == ext # NONE /\ ext' = NONE /\ ~ objs[o].removed /\ objs'[o].removed
BundleWrote(o) == objs[o].by = "bundle" \/ objs[o].changeCount = 0

\* A bundle that stops takes away no configuration that a client has written since, whatever was removed and created
\* in between (ConfigurationAdminImpl.cpp, RemoveConfigurations), unless one was created at the very address of the
\* bundle's.
UninstallKeepsChanges ==
    [][\A o \in 1 .. Len(objs) : Uninstalls(o) => BundleWrote(o) \/ ext.reused]_vars

\* What the comment on RemoveConfigurations says (ConfigurationAdminPrivate.hpp) and the code does not keep: PID, change
\* count and address together prevent the removal of a configuration that others have written.
UninstallKeepsRecreated ==
    [][\A o \in 1 .. Len(objs) : Uninstalls(o) => BundleWrote(o)]_vars

\* Also when a configuration was removed and made again before the task of the removal ran (Configuration.hpp:
\* Update triggers a push of the updated properties to any ManagedService with a matching PID).
RecreatedIsTold ==
    (Quiet /\ lapses \subseteq {"recreated"}) => \A s \in Services : status[s] = "tracked" => KnowsLatest(s)

=============================================================================
