----------------------------- MODULE Framework -----------------------------
(***************************************************************************)
(* The life cycle of the framework (FrameworkPrivate): clients that call   *)
(* Init, Start, Stop and WaitForStop on their own threads, and the thread  *)
(* that Stop starts, which runs Shutdown0.                                 *)
(*                                                                         *)
(* A step is what runs under one acquisition of the framework's mutex, or  *)
(* what runs between two without it. "holder" is the client that keeps the *)
(* mutex while it joins the shutdown thread. "operation" is left out: the  *)
(* framework writes it and never reads it.                                 *)
(***************************************************************************)
EXTENDS Naturals

CONSTANTS Clients,
          Waiters       \* the clients that call WaitForStop

ASSUME FrameworkAssumption == Waiters \subseteq Clients

States == {"INSTALLED", "RESOLVED", "STARTING", "ACTIVE", "STOPPING"}
Down   == {"INSTALLED", "RESOLVED"}
Types  == {"ERROR", "STOPPED"}
Cores  == {"none", "partial", "ready"}

VARIABLES
    state,
    core,            \* coreCtx: "none" before its Init, "partial" when an exception broke that off, or "ready"
    stopEvent,       \* [valid, type]
    shutdownThread,  \* where it is, "none" when it is not joinable, "done" when it can be joined
    holder,          \* the waiters that hold the mutex in join(): at most one
    pc,              \* where a client is
    result,          \* what a waiter's last WaitForStop returned
    sawStop,         \* history: the framework was down at some time since a waiter's call
    asked,           \* history: a Stop found the framework up and is not carried out yet
    raced            \* history: a shutdown began while a Start was starting bundles

vars == <<state, core, stopEvent, shutdownThread, holder, pc, result, sawStop, asked, raced>>

ClientPCs == {"idle", "startBundles", "startEnd", "waiting", "woken", "joining"}
ThreadPCs == {"none", "begin", "stopBundles", "uninit", "failed", "done"}

TypeOK ==
    /\ state \in States
    /\ core \in Cores
    /\ stopEvent \in [valid : BOOLEAN, type : Types]
    /\ shutdownThread \in ThreadPCs
    /\ pc \in [Clients -> ClientPCs]
    /\ holder = {w \in Waiters : pc[w] = "joining"} /\ \A v, w \in holder : v = w
    /\ result \in [Waiters -> Types \cup {"none", "TIMEDOUT"}]
    /\ sawStop \in [Waiters -> BOOLEAN]
    /\ asked \in BOOLEAN /\ raced \in BOOLEAN

Event(v, t) == [valid |-> v, type |-> t]

Init ==
    /\ state = "INSTALLED"
    /\ core = "none"
    /\ stopEvent = Event(TRUE, "ERROR")
    /\ shutdownThread = "none"
    /\ holder = {}
    /\ pc = [c \in Clients |-> "idle"]
    /\ result = [w \in Waiters |-> "none"]
    /\ sawStop = [w \in Waiters |-> FALSE]
    /\ asked = FALSE /\ raced = FALSE

Locked     == holder # {}
joinable   == shutdownThread # "none"
Goto(c, l) == pc' = [pc EXCEPT ![c] = l]

-----------------------------------------------------------------------------
(* Init and Start *)

\* DoInit: the state is STARTING also when CoreBundleContext::Init throws in the middle.
DoInit(k) == state' = "STARTING" /\ core' = k

\* Returns, or throws what DoInit threw.
FrameworkInit(c) ==
    /\ pc[c] = "idle" /\ ~Locked /\ state \in Down
    /\ \E k \in {"partial", "ready"} : DoInit(k)
    /\ UNCHANGED <<stopEvent, shutdownThread, holder, pc, result, sawStop, asked, raced>>

\* Mutant of StartBegin: a framework that is stopping is started.
StartBeginAnyhow(c) ==
    /\ pc[c] = "idle" /\ ~Locked /\ state # "ACTIVE"
    /\ DoInit(IF state \in Down THEN "ready" ELSE core)
    /\ Goto(c, "startBundles")
    /\ UNCHANGED <<stopEvent, shutdownThread, holder, result, sawStop, asked, raced>>

\* Throws in STOPPING, returns in ACTIVE. Start throws what DoInit throws; a Start of a framework
\* that is STARTING already goes on with the core as it is.
StartBegin(c) ==
    /\ pc[c] = "idle" /\ ~Locked
    /\ \/ state \in Down /\ DoInit("ready") /\ Goto(c, "startBundles")
       \/ state \in Down /\ DoInit("partial") /\ UNCHANGED pc
       \/ state = "STARTING" /\ Goto(c, "startBundles") /\ UNCHANGED <<state, core>>
    /\ UNCHANGED <<stopEvent, shutdownThread, holder, result, sawStop, asked, raced>>

\* The bundles are started without the mutex.
StartBundles(c) ==
    /\ pc[c] = "startBundles"
    /\ Goto(c, "startEnd")
    /\ UNCHANGED <<state, core, stopEvent, shutdownThread, holder, result, sawStop, asked, raced>>

\* The state may have become anything meanwhile.
StartEnd(c) ==
    /\ pc[c] = "startEnd" /\ ~Locked
    /\ state' = "ACTIVE"
    /\ Goto(c, "idle")
    /\ UNCHANGED <<core, stopEvent, shutdownThread, holder, result, sawStop, asked, raced>>

-----------------------------------------------------------------------------
(* Stop, and the thread it starts *)

\* Mutant of SystemShuttingdownDone: nobody is notified.
SystemShuttingdownDoneQuietly(t) ==
    /\ stopEvent' = Event(TRUE, t)
    /\ state' = IF state # "INSTALLED" THEN "RESOLVED" ELSE state
    /\ UNCHANGED pc
    /\ sawStop' = [w \in Waiters |-> TRUE]

\* SystemShuttingdownDone_unlocked: whoever waits is notified. A framework that was never
\* initialised stays INSTALLED.
SystemShuttingdownDone(t) ==
    /\ stopEvent' = Event(TRUE, t)
    /\ IF state # "INSTALLED"
       THEN /\ state' = "RESOLVED"
            /\ pc' = [c \in Clients |-> IF pc[c] = "waiting" THEN "woken" ELSE pc[c]]
       ELSE UNCHANGED <<state, pc>>
    /\ sawStop' = [w \in Waiters |-> TRUE]

\* Mutant of Stop: a thread that was not joined is replaced.
StopRespawns(c) ==
    /\ pc[c] = "idle" /\ ~Locked
    /\ \/ /\ state \in Down
          /\ SystemShuttingdownDone("STOPPED")
          /\ UNCHANGED <<shutdownThread, asked>>
       \/ /\ state \in {"ACTIVE", "STARTING"}
          /\ shutdownThread' = "begin"
          /\ asked' = TRUE
          /\ UNCHANGED <<state, stopEvent, pc, sawStop>>
    /\ UNCHANGED <<core, holder, result, raced>>

\* Shutdown(false). Without WaitForStop the thread of an earlier stop is still joinable.
Stop(c) ==
    /\ pc[c] = "idle" /\ ~Locked
    /\ \/ /\ state \in Down
          /\ SystemShuttingdownDone("STOPPED")
          /\ UNCHANGED <<shutdownThread, asked>>
       \/ /\ state \in {"ACTIVE", "STARTING"}
          /\ shutdownThread' = IF joinable THEN shutdownThread ELSE "begin"
          /\ asked' = TRUE
          /\ UNCHANGED <<state, stopEvent, pc, sawStop>>
    /\ UNCHANGED <<core, holder, result, raced>>

Shutdown0Begin ==
    /\ shutdownThread = "begin" /\ ~Locked
    /\ state' = "STOPPING"
    /\ shutdownThread' = "stopBundles"
    /\ asked' = FALSE
    /\ raced' = (raced \/ \E c \in Clients : pc[c] \in {"startBundles", "startEnd"})
    /\ UNCHANGED <<core, stopEvent, holder, pc, result, sawStop>>

\* Listeners, StopAllBundles and Uninit0 run without the mutex, and may throw.
Shutdown0Bundles ==
    /\ shutdownThread = "stopBundles"
    /\ shutdownThread' \in {"uninit", "failed"}
    /\ UNCHANGED <<state, core, stopEvent, holder, pc, result, sawStop, asked, raced>>

Shutdown0Done ==
    /\ shutdownThread = "uninit" /\ ~Locked
    /\ core' = "none"
    /\ SystemShuttingdownDone("STOPPED")
    /\ shutdownThread' = "done"
    /\ UNCHANGED <<holder, result, asked, raced>>

Shutdown0Failed ==
    /\ shutdownThread = "failed" /\ ~Locked
    /\ SystemShuttingdownDone("ERROR")
    /\ shutdownThread' = "done"
    /\ UNCHANGED <<core, holder, result, asked, raced>>

-----------------------------------------------------------------------------
(* WaitForStop *)

\* Returns at once, or after a join() with the mutex held.
JoinOrReturn(w, t) ==
    IF joinable
    THEN /\ Goto(w, "joining") /\ holder' = {w} /\ UNCHANGED result
    ELSE /\ Goto(w, "idle") /\ result' = [result EXCEPT ![w] = t] /\ UNCHANGED holder

\* Mutant of ForgetStop: the event of the last stop is kept.
KeepStop == stopEvent

\* What stopEvent becomes when WaitForStop is called while the framework is up.
ForgetStop == Event(FALSE, "ERROR")

WaitForStop(w) ==
    /\ pc[w] = "idle" /\ ~Locked
    /\ sawStop' = [sawStop EXCEPT ![w] = state \in Down]
    /\ \/ /\ state \notin Down
          /\ stopEvent' = ForgetStop
          /\ Goto(w, IF stopEvent'.valid THEN "woken" ELSE "waiting")
          /\ UNCHANGED <<holder, result>>
       \/ /\ state \in Down
          /\ stopEvent' = IF stopEvent.valid THEN stopEvent ELSE Event(TRUE, "STOPPED")
          /\ JoinOrReturn(w, stopEvent'.type)
    /\ UNCHANGED <<state, core, shutdownThread, asked, raced>>

\* The condition is looked at again when the mutex is back.
Wake(w) ==
    /\ pc[w] = "woken" /\ ~Locked
    /\ \/ stopEvent.valid /\ JoinOrReturn(w, stopEvent.type)
       \/ ~stopEvent.valid /\ Goto(w, "waiting") /\ UNCHANGED <<holder, result>>
    /\ UNCHANGED <<state, core, stopEvent, shutdownThread, sawStop, asked, raced>>

\* The time of a WaitForStop with a timeout is over.
TimeOut(w) ==
    /\ pc[w] \in {"waiting", "woken"} /\ ~Locked
    /\ ~stopEvent.valid
    /\ Goto(w, "idle")
    /\ result' = [result EXCEPT ![w] = "TIMEDOUT"]
    /\ UNCHANGED <<state, core, stopEvent, shutdownThread, holder, sawStop, asked, raced>>

Joined(w) ==
    /\ pc[w] = "joining" /\ shutdownThread = "done"
    /\ shutdownThread' = "none"
    /\ holder' = {}
    /\ result' = [result EXCEPT ![w] = stopEvent.type]
    /\ Goto(w, "idle")
    /\ UNCHANGED <<state, core, stopEvent, sawStop, asked, raced>>

-----------------------------------------------------------------------------
Shutdown0 == Shutdown0Begin \/ Shutdown0Bundles \/ Shutdown0Done \/ Shutdown0Failed

Next ==
    \/ \E c \in Clients : \/ FrameworkInit(c) \/ Stop(c)
                          \/ StartBegin(c) \/ StartBundles(c) \/ StartEnd(c)
    \/ \E w \in Waiters : WaitForStop(w) \/ Wake(w) \/ TimeOut(w) \/ Joined(w)
    \/ Shutdown0

\* Threads that can go on do; clients need not call anything, and waits need not have a
\* timeout. Bundles are assumed to return from their activators.
Fairness ==
    /\ WF_vars(Shutdown0)
    /\ \A c \in Clients : WF_vars(StartBundles(c)) /\ WF_vars(StartEnd(c))
    /\ \A w \in Waiters : WF_vars(Wake(w)) /\ WF_vars(Joined(w))

Spec == Init /\ [][Next]_vars /\ Fairness
-----------------------------------------------------------------------------
(* Properties. JoinsFinishedThread and the two after it hold for one waiter, not for two. *)

\* WaitForStop never says that the framework stopped when it was up all the time since the
\* call: the event of an earlier stop, or of another waiter, is not taken for this one.
WaitTellsTruth ==
    \A w \in Waiters : pc[w] = "idle" /\ result[w] \in Types => sawStop[w]

\* The core context was initialised, completely or until its Init threw, and not taken down since
\* whenever the framework says that it is up, whatever starts and stops interleave, unless a
\* shutdown began while a Start was starting bundles: that Start sets ACTIVE at its end whatever
\* the state is by then.
UpMeansInitialised == ~raced /\ state \in {"STARTING", "ACTIVE"} => core # "none"

\* join() is called with the mutex held, which Shutdown0 needs: the joined thread must be past
\* its last use of it.
JoinsFinishedThread == \A w \in Waiters : pc[w] = "joining" => shutdownThread = "done"

\* A shutdown that has begun ends, whoever waits for it or starts the framework again.
ShutdownEnds ==
    shutdownThread \notin {"none", "done"} ~> shutdownThread \in {"none", "done"}

\* A client that waits when a shutdown is about to begin returns from WaitForStop.
WaiterReturns == \A w \in Waiters : pc[w] = "waiting" /\ shutdownThread = "begin" ~> pc[w] = "idle"

\* What the documentation says and the code does not keep; refuted by TLC: a Stop of a
\* framework that is up sets it to STOPPING (Framework.h).
StopIsCarriedOut == asked ~> ~asked

\* Another one: a Start that returns normally has initialised the framework (Framework.h). After an
\* Init that threw, the next Start finds STARTING and goes on to ACTIVE without one.
ActiveIsReady == ~raced /\ state = "ACTIVE" => core = "ready"
=============================================================================
