-------------------------- MODULE FrameworkProofs --------------------------
(***************************************************************************)
(* Proofs about Framework, for any number of clients and waiters: its      *)
(* types, and that WaitForStop and the state tell the truth; for a single  *)
(* waiter, that it joins no thread that needs the mutex it holds.          *)
(***************************************************************************)
EXTENDS Framework, TLAPS

\* Whoever waits while a stop event is there, or the framework is down, has seen a stop; so has
\* whoever joins the shutdown thread, and whoever has the result of a wait while it calls Start.
WaitInv ==
    \A w \in Waiters :
        /\ pc[w] \in {"waiting", "woken"} /\ (stopEvent.valid \/ state \in Down) => sawStop[w]
        /\ pc[w] = "joining" => sawStop[w]
        /\ pc[w] \in {"startBundles", "startEnd"} /\ result[w] \in Types => sawStop[w]

\* Without a race, a framework whose bundles are being started is up, and one whose shutdown
\* thread is between its two critical sections is STOPPING.
Starting == \E c \in Clients : pc[c] \in {"startBundles", "startEnd"}
UpInv ==
    ~raced => /\ Starting => state \in {"STARTING", "ACTIVE"}
              /\ shutdownThread \in {"stopBundles", "uninit", "failed"} => state = "STOPPING"

\* TypeOK in three parts: plain values, functions and the record, and the holder of the mutex.
ValuesOK ==
    /\ state \in States /\ core \in Cores /\ shutdownThread \in ThreadPCs
    /\ asked \in BOOLEAN /\ raced \in BOOLEAN
FunctionsOK ==
    /\ stopEvent \in [valid : BOOLEAN, type : Types]
    /\ pc \in [Clients -> ClientPCs]
    /\ result \in [Waiters -> Types \cup {"none", "TIMEDOUT"}]
    /\ sawStop \in [Waiters -> BOOLEAN]
HolderOK ==
    /\ holder = {w \in Waiters : pc[w] = "joining"}
    /\ \A v, w \in holder : v = w

\* A shutdown thread that is at work means that the framework is not down yet; a waiter that finds
\* the framework down, or the event of a stop, finds that thread done. A waiter that was woken
\* relies on nobody else joining the thread before it.
OneWaiter == \A v, w \in Waiters : v = w
JoinInv ==
    /\ shutdownThread \notin {"none", "done"} => state \notin Down
    /\ \A w \in Waiters :
          pc[w] \in {"waiting", "woken"} /\ (stopEvent.valid \/ state \in Down) => shutdownThread = "done"

IInv == TypeOK /\ WaitInv /\ WaitTellsTruth /\ UpInv /\ UpMeansInitialised
-----------------------------------------------------------------------------
\* No step of Framework.
Stutter == UNCHANGED vars

\* A step is one of the operations of FrameworkPrivate or of its shutdown thread, or none: the
\* disjuncts of Next one by one.
LEMMA NextCases ==
    ASSUME [Next]_vars
    PROVE  \/ \E c \in Clients : \/ FrameworkInit(c) \/ Stop(c)
                                 \/ StartBegin(c) \/ StartBundles(c) \/ StartEnd(c)
           \/ \E w \in Waiters : WaitForStop(w) \/ Wake(w) \/ TimeOut(w) \/ Joined(w)
           \/ Shutdown0Begin \/ Shutdown0Bundles \/ Shutdown0Done \/ Shutdown0Failed
           \/ Stutter
BY DEF Next, Shutdown0, Stutter

\* A framework that was just constructed has its types.
LEMMA TypeInit == Init => TypeOK
<1> SUFFICES ASSUME Init PROVE TypeOK
  OBVIOUS
<1> USE FrameworkAssumption DEF Init, States, Cores, Types, ClientPCs, ThreadPCs, Event
<1>1. ValuesOK
  BY DEF ValuesOK
<1>2. FunctionsOK
  BY DEF FunctionsOK
<1>3. HolderOK
  BY DEF HolderOK
<1>4. QED
  BY <1>1, <1>2, <1>3 DEF TypeOK, ValuesOK, FunctionsOK, HolderOK

\* Every step keeps the types, and the record of who holds the mutex.
LEMMA TypeStep == TypeOK /\ [Next]_vars => TypeOK'
<1> SUFFICES ASSUME TypeOK, [Next]_vars PROVE TypeOK'
  OBVIOUS
<1> USE FrameworkAssumption DEF States, Cores, Down, Types, ClientPCs, ThreadPCs, Event, Goto, Locked
<1>0. ValuesOK /\ FunctionsOK /\ HolderOK
  BY DEF TypeOK, ValuesOK, FunctionsOK, HolderOK
<1>1. ASSUME NEW c \in Clients, FrameworkInit(c) PROVE TypeOK'
  <2>1. ValuesOK'
    BY <1>0, <1>1 DEF FrameworkInit, DoInit, ValuesOK
  <2>2. FunctionsOK'
    BY <1>0, <1>1 DEF FrameworkInit, DoInit, FunctionsOK
  <2>3. HolderOK'
    BY <1>0, <1>1 DEF FrameworkInit, DoInit, FunctionsOK, HolderOK
  <2>4. QED
    BY <2>1, <2>2, <2>3 DEF TypeOK, ValuesOK, FunctionsOK, HolderOK
<1>2. ASSUME NEW c \in Clients, Stop(c) PROVE TypeOK'
  <2>1. ValuesOK'
    BY <1>0, <1>2 DEF Stop, SystemShuttingdownDone, joinable, ValuesOK
  <2>2. FunctionsOK'
    <3>1. CASE state \in Down
      <4> SystemShuttingdownDone("STOPPED")
        BY <1>2, <3>1 DEF Stop
      <4>1. stopEvent' \in [valid : BOOLEAN, type : Types] /\ sawStop' \in [Waiters -> BOOLEAN]
        BY DEF SystemShuttingdownDone
      <4>2. pc' \in [Clients -> ClientPCs] /\ result' = result
        BY <1>0, <1>2, <3>1 DEF Stop, SystemShuttingdownDone, FunctionsOK
      <4>3. QED
        BY <1>0, <4>1, <4>2 DEF FunctionsOK
    <3>2. CASE state \notin Down
      BY <1>0, <1>2, <3>2 DEF Stop, FunctionsOK
    <3>3. QED
      BY <3>1, <3>2
  <2>3. HolderOK'
    BY <1>0, <1>2 DEF Stop, SystemShuttingdownDone, joinable, FunctionsOK, HolderOK
  <2>4. QED
    BY <2>1, <2>2, <2>3 DEF TypeOK, ValuesOK, FunctionsOK, HolderOK
<1>3. ASSUME NEW c \in Clients, StartBegin(c) PROVE TypeOK'
  <2>1. ValuesOK'
    BY <1>0, <1>3 DEF StartBegin, DoInit, ValuesOK
  <2>2. FunctionsOK'
    BY <1>0, <1>3 DEF StartBegin, DoInit, FunctionsOK
  <2>3. HolderOK'
    BY <1>0, <1>3 DEF StartBegin, DoInit, FunctionsOK, HolderOK
  <2>4. QED
    BY <2>1, <2>2, <2>3 DEF TypeOK, ValuesOK, FunctionsOK, HolderOK
<1>4. ASSUME NEW c \in Clients, StartBundles(c) PROVE TypeOK'
  <2>1. ValuesOK'
    BY <1>0, <1>4 DEF StartBundles, ValuesOK
  <2>2. FunctionsOK'
    BY <1>0, <1>4 DEF StartBundles, FunctionsOK
  <2>3. HolderOK'
    BY <1>0, <1>4 DEF StartBundles, FunctionsOK, HolderOK
  <2>4. QED
    BY <2>1, <2>2, <2>3 DEF TypeOK, ValuesOK, FunctionsOK, HolderOK
<1>5. ASSUME NEW c \in Clients, StartEnd(c) PROVE TypeOK'
  <2>1. ValuesOK'
    BY <1>0, <1>5 DEF StartEnd, ValuesOK
  <2>2. FunctionsOK'
    BY <1>0, <1>5 DEF StartEnd, FunctionsOK
  <2>3. HolderOK'
    BY <1>0, <1>5 DEF StartEnd, FunctionsOK, HolderOK
  <2>4. QED
    BY <2>1, <2>2, <2>3 DEF TypeOK, ValuesOK, FunctionsOK, HolderOK
<1>6. ASSUME NEW w \in Waiters, WaitForStop(w) PROVE TypeOK'
  <2>1. ValuesOK'
    BY <1>0, <1>6 DEF WaitForStop, JoinOrReturn, ForgetStop, ValuesOK
  <2>2. FunctionsOK'
    <3>1. CASE state \notin Down
      <4>1. stopEvent' = [valid |-> FALSE, type |-> "ERROR"] /\ result' = result
        BY <1>6, <3>1 DEF WaitForStop, ForgetStop
      <4>2. stopEvent' \in [valid : BOOLEAN, type : Types]
        BY <4>1
      <4>3. pc' \in [Clients -> ClientPCs]
        BY <1>0, <1>6, <3>1 DEF WaitForStop, FunctionsOK
      <4>4. sawStop' \in [Waiters -> BOOLEAN]
        BY <1>0, <1>6 DEF WaitForStop, FunctionsOK
      <4>5. QED
        BY <1>0, <4>1, <4>2, <4>3, <4>4 DEF FunctionsOK
    <3>2. CASE state \in Down
      <4>0. stopEvent' = stopEvent \/ stopEvent' = [valid |-> TRUE, type |-> "STOPPED"]
        BY <1>6, <3>2 DEF WaitForStop
      <4>1. stopEvent' \in [valid : BOOLEAN, type : Types]
        <5>1. CASE stopEvent' = stopEvent
          BY <1>0, <5>1 DEF FunctionsOK
        <5>2. CASE stopEvent' = [valid |-> TRUE, type |-> "STOPPED"]
          BY <5>2
        <5>3. QED
          BY <4>0, <5>1, <5>2
      <4>2. stopEvent'.type \in Types
        BY <4>1
      <4>3. pc' \in [Clients -> ClientPCs] /\ result' \in [Waiters -> Types \cup {"none", "TIMEDOUT"}]
        BY <1>0, <1>6, <3>2, <4>2 DEF WaitForStop, JoinOrReturn, FunctionsOK
      <4>4. sawStop' \in [Waiters -> BOOLEAN]
        BY <1>0, <1>6, <3>2 DEF WaitForStop, FunctionsOK
      <4>5. QED
        BY <4>1, <4>3, <4>4 DEF FunctionsOK
    <3>3. QED
      BY <3>1, <3>2
  <2>3. HolderOK'
    BY <1>0, <1>6 DEF WaitForStop, JoinOrReturn, ForgetStop, FunctionsOK, HolderOK
  <2>4. QED
    BY <2>1, <2>2, <2>3 DEF TypeOK, ValuesOK, FunctionsOK, HolderOK
<1>7. ASSUME NEW w \in Waiters, Wake(w) PROVE TypeOK'
  <2>1. ValuesOK'
    BY <1>0, <1>7 DEF Wake, JoinOrReturn, ValuesOK
  <2>2. FunctionsOK'
    BY <1>0, <1>7 DEF Wake, JoinOrReturn, FunctionsOK
  <2>3. HolderOK'
    BY <1>0, <1>7 DEF Wake, JoinOrReturn, FunctionsOK, HolderOK
  <2>4. QED
    BY <2>1, <2>2, <2>3 DEF TypeOK, ValuesOK, FunctionsOK, HolderOK
<1>8. ASSUME NEW w \in Waiters, TimeOut(w) PROVE TypeOK'
  <2>1. ValuesOK'
    BY <1>0, <1>8 DEF TimeOut, ValuesOK
  <2>2. FunctionsOK'
    BY <1>0, <1>8 DEF TimeOut, FunctionsOK
  <2>3. HolderOK'
    BY <1>0, <1>8 DEF TimeOut, FunctionsOK, HolderOK
  <2>4. QED
    BY <2>1, <2>2, <2>3 DEF TypeOK, ValuesOK, FunctionsOK, HolderOK
<1>9. ASSUME NEW w \in Waiters, Joined(w) PROVE TypeOK'
  <2>1. ValuesOK'
    BY <1>0, <1>9 DEF Joined, ValuesOK
  <2>2. FunctionsOK'
    BY <1>0, <1>9 DEF Joined, FunctionsOK
  <2>3. HolderOK'
    BY <1>0, <1>9 DEF Joined, FunctionsOK, HolderOK
  <2>4. QED
    BY <2>1, <2>2, <2>3 DEF TypeOK, ValuesOK, FunctionsOK, HolderOK
<1>10. ASSUME Shutdown0Begin PROVE TypeOK'
  <2>1. ValuesOK'
    BY <1>0, <1>10 DEF Shutdown0Begin, ValuesOK
  <2>2. FunctionsOK'
    BY <1>0, <1>10 DEF Shutdown0Begin, FunctionsOK
  <2>3. HolderOK'
    BY <1>0, <1>10 DEF Shutdown0Begin, FunctionsOK, HolderOK
  <2>4. QED
    BY <2>1, <2>2, <2>3 DEF TypeOK, ValuesOK, FunctionsOK, HolderOK
<1>11. ASSUME Shutdown0Bundles PROVE TypeOK'
  <2>1. ValuesOK'
    BY <1>0, <1>11 DEF Shutdown0Bundles, ValuesOK
  <2>2. FunctionsOK'
    BY <1>0, <1>11 DEF Shutdown0Bundles, FunctionsOK
  <2>3. HolderOK'
    BY <1>0, <1>11 DEF Shutdown0Bundles, FunctionsOK, HolderOK
  <2>4. QED
    BY <2>1, <2>2, <2>3 DEF TypeOK, ValuesOK, FunctionsOK, HolderOK
<1>12. ASSUME Shutdown0Done PROVE TypeOK'
  <2>1. ValuesOK'
    BY <1>0, <1>12 DEF Shutdown0Done, SystemShuttingdownDone, ValuesOK
  <2>2. FunctionsOK'
    BY <1>0, <1>12 DEF Shutdown0Done, SystemShuttingdownDone, FunctionsOK
  <2>3. HolderOK'
    BY <1>0, <1>12 DEF Shutdown0Done, SystemShuttingdownDone, FunctionsOK, HolderOK
  <2>4. QED
    BY <2>1, <2>2, <2>3 DEF TypeOK, ValuesOK, FunctionsOK, HolderOK
<1>13. ASSUME Shutdown0Failed PROVE TypeOK'
  <2>1. ValuesOK'
    BY <1>0, <1>13 DEF Shutdown0Failed, SystemShuttingdownDone, ValuesOK
  <2>2. FunctionsOK'
    BY <1>0, <1>13 DEF Shutdown0Failed, SystemShuttingdownDone, FunctionsOK
  <2>3. HolderOK'
    BY <1>0, <1>13 DEF Shutdown0Failed, SystemShuttingdownDone, FunctionsOK, HolderOK
  <2>4. QED
    BY <2>1, <2>2, <2>3 DEF TypeOK, ValuesOK, FunctionsOK, HolderOK
<1>14. ASSUME Stutter PROVE TypeOK'
  BY <1>14 DEF Stutter, vars, TypeOK
<1>15. QED
  BY <1>1, <1>2, <1>3, <1>4, <1>5, <1>6, <1>7, <1>8, <1>9, <1>10, <1>11, <1>12, <1>13, <1>14, NextCases

\* Every step keeps what waiters rely on.
LEMMA WaitStep == IInv /\ [Next]_vars => WaitInv' /\ WaitTellsTruth'
<1> SUFFICES ASSUME IInv, [Next]_vars PROVE WaitInv' /\ WaitTellsTruth'
  OBVIOUS
<1> USE FrameworkAssumption DEF IInv, TypeOK, WaitInv, WaitTellsTruth, Down, Types, ClientPCs, Event, Goto
<1> DEFINE P == WaitInv' /\ WaitTellsTruth'
<1>1. ASSUME NEW c \in Clients, FrameworkInit(c) PROVE P
  BY <1>1 DEF FrameworkInit, DoInit
<1>2. ASSUME NEW c \in Clients, Stop(c) PROVE P
  BY <1>2 DEF Stop, SystemShuttingdownDone
<1>3. ASSUME NEW c \in Clients, StartBegin(c) PROVE P
  BY <1>3 DEF StartBegin, DoInit
<1>4. ASSUME NEW c \in Clients, StartBundles(c) PROVE P
  BY <1>4 DEF StartBundles
<1>5. ASSUME NEW c \in Clients, StartEnd(c) PROVE P
  BY <1>5 DEF StartEnd
<1>6. ASSUME NEW w \in Waiters, WaitForStop(w) PROVE P
  <2>1. CASE state \notin Down
    BY <1>6, <2>1 DEF WaitForStop, ForgetStop
  <2>2. CASE state \in Down
    <3>1. /\ sawStop'[w] = TRUE
          /\ \A v \in Waiters \ {w} : sawStop'[v] = sawStop[v] /\ pc'[v] = pc[v] /\ result'[v] = result[v]
      <4>1. sawStop' = [sawStop EXCEPT ![w] = TRUE]
        BY <1>6, <2>2 DEF WaitForStop
      <4>2. \A v \in Waiters \ {w} : pc'[v] = pc[v]
        BY <1>6, <2>2 DEF WaitForStop, JoinOrReturn
      <4>3. \A v \in Waiters \ {w} : result'[v] = result[v]
        BY <1>6, <2>2 DEF WaitForStop, JoinOrReturn
      <4>4. QED
        BY <4>1, <4>2, <4>3
    <3>2. state' = state
      BY <1>6 DEF WaitForStop
    <3>3. ASSUME NEW v \in Waiters
          PROVE  /\ pc'[v] \in {"waiting", "woken"} => sawStop'[v]
                 /\ pc'[v] = "joining" => sawStop'[v]
                 /\ pc'[v] \in {"startBundles", "startEnd", "idle"} /\ result'[v] \in Types => sawStop'[v]
      BY <2>2, <3>1
    <3>4. QED
      BY <3>3
  <2>3. QED
    BY <2>1, <2>2
<1>7. ASSUME NEW w \in Waiters, Wake(w) PROVE P
  BY <1>7 DEF Wake, JoinOrReturn
<1>8. ASSUME NEW w \in Waiters, TimeOut(w) PROVE P
  BY <1>8 DEF TimeOut
<1>9. ASSUME NEW w \in Waiters, Joined(w) PROVE P
  BY <1>9 DEF Joined
<1>10. ASSUME Shutdown0Begin PROVE P
  BY <1>10 DEF Shutdown0Begin
<1>11. ASSUME Shutdown0Bundles PROVE P
  BY <1>11 DEF Shutdown0Bundles
<1>12. ASSUME Shutdown0Done PROVE P
  BY <1>12 DEF Shutdown0Done, SystemShuttingdownDone
<1>13. ASSUME Shutdown0Failed PROVE P
  BY <1>13 DEF Shutdown0Failed, SystemShuttingdownDone
<1>14. ASSUME Stutter PROVE P
  BY <1>14 DEF Stutter, vars
<1>15. QED
  BY <1>1, <1>2, <1>3, <1>4, <1>5, <1>6, <1>7, <1>8, <1>9, <1>10, <1>11, <1>12, <1>13, <1>14, NextCases

\* Every step keeps what the state says of the framework.
LEMMA UpStep == IInv /\ [Next]_vars => UpInv' /\ UpMeansInitialised'
<1> SUFFICES ASSUME IInv, [Next]_vars PROVE UpInv' /\ UpMeansInitialised'
  OBVIOUS
<1> USE FrameworkAssumption DEF IInv, TypeOK, UpInv, Starting, UpMeansInitialised, States, Down, ClientPCs, ThreadPCs, Goto
<1> DEFINE P == UpInv' /\ UpMeansInitialised'
<1>1. ASSUME NEW c \in Clients, FrameworkInit(c) PROVE P
  BY <1>1 DEF FrameworkInit, DoInit
<1>2. ASSUME NEW c \in Clients, Stop(c) PROVE P
  <2>1. CASE state \in Down
    <3>1. state' \in Down /\ core' = core /\ raced' = raced /\ shutdownThread' = shutdownThread
      <4>1. state' \in Down
        BY <1>2, <2>1 DEF Stop, SystemShuttingdownDone
      <4>2. UNCHANGED <<core, raced, shutdownThread>>
        BY <1>2, <2>1 DEF Stop
      <4>3. QED
        BY <4>1, <4>2
    <3>2. Starting' => Starting
      BY <1>2, <2>1, ZenonT(200) DEF Stop, SystemShuttingdownDone
    <3>3. QED
      BY <2>1, <3>1, <3>2
  <2>2. CASE state \notin Down
    BY <1>2, <2>2 DEF Stop, joinable
  <2>3. QED
    BY <2>1, <2>2
<1>3. ASSUME NEW c \in Clients, StartBegin(c) PROVE P
  BY <1>3 DEF StartBegin, DoInit
<1>4. ASSUME NEW c \in Clients, StartBundles(c) PROVE P
  BY <1>4 DEF StartBundles
<1>5. ASSUME NEW c \in Clients, StartEnd(c) PROVE P
  BY <1>5 DEF StartEnd
<1>6. ASSUME NEW w \in Waiters, WaitForStop(w) PROVE P
  <2>1. CASE state \notin Down
    BY <1>6, <2>1, ZenonT(60) DEF WaitForStop, ForgetStop
  <2>2. CASE state \in Down
    <3>1. UNCHANGED <<state, core, raced, shutdownThread>>
      BY <1>6 DEF WaitForStop
    <3>2. Starting' => Starting
      BY <1>6, <2>2 DEF WaitForStop, JoinOrReturn
    <3>3. QED
      BY <3>1, <3>2
  <2>3. QED
    BY <2>1, <2>2
<1>7. ASSUME NEW w \in Waiters, Wake(w) PROVE P
  BY <1>7 DEF Wake, JoinOrReturn
<1>8. ASSUME NEW w \in Waiters, TimeOut(w) PROVE P
  BY <1>8 DEF TimeOut
<1>9. ASSUME NEW w \in Waiters, Joined(w) PROVE P
  BY <1>9 DEF Joined
<1>10. ASSUME Shutdown0Begin PROVE P
  BY <1>10 DEF Shutdown0Begin
<1>11. ASSUME Shutdown0Bundles PROVE P
  BY <1>11 DEF Shutdown0Bundles
<1>12. ASSUME Shutdown0Done PROVE P
  BY <1>12 DEF Shutdown0Done, SystemShuttingdownDone
<1>13. ASSUME Shutdown0Failed PROVE P
  BY <1>13 DEF Shutdown0Failed, SystemShuttingdownDone
<1>14. ASSUME Stutter PROVE P
  BY <1>14 DEF Stutter, vars
<1>15. QED
  BY <1>1, <1>2, <1>3, <1>4, <1>5, <1>6, <1>7, <1>8, <1>9, <1>10, <1>11, <1>12, <1>13, <1>14, NextCases

\* Every step of a framework with one waiter keeps what a join relies on.
LEMMA JoinStep ==
    ASSUME OneWaiter, TypeOK, JoinInv, JoinsFinishedThread, [Next]_vars
    PROVE  JoinInv' /\ JoinsFinishedThread'
<1> USE FrameworkAssumption DEF TypeOK, JoinInv, JoinsFinishedThread, Down, States, ClientPCs, Event, Goto, Locked
<1> DEFINE P == JoinInv' /\ JoinsFinishedThread'
<1>1. ASSUME NEW c \in Clients, FrameworkInit(c) PROVE P
  BY <1>1 DEF FrameworkInit, DoInit
<1>2. ASSUME NEW c \in Clients, Stop(c) PROVE P
  <2>1. CASE state \in Down
    BY <1>2, <2>1 DEF Stop, SystemShuttingdownDone
  <2>2. CASE state \notin Down
    BY <1>2, <2>2 DEF Stop, joinable
  <2>3. QED
    BY <2>1, <2>2
<1>3. ASSUME NEW c \in Clients, StartBegin(c) PROVE P
  BY <1>3 DEF StartBegin, DoInit
<1>4. ASSUME NEW c \in Clients, StartBundles(c) PROVE P
  BY <1>4 DEF StartBundles
<1>5. ASSUME NEW c \in Clients, StartEnd(c) PROVE P
  BY <1>5 DEF StartEnd
<1>6. ASSUME NEW w \in Waiters, WaitForStop(w) PROVE P
  <2>1. CASE state \notin Down
    BY <1>6, <2>1 DEF WaitForStop, ForgetStop
  <2>2. CASE state \in Down
    <3>1. /\ UNCHANGED <<state, shutdownThread>>
          /\ JoinOrReturn(w, stopEvent'.type)
      BY <1>6, <2>2 DEF WaitForStop
    <3>2. /\ pc'[w] \in {"idle", "joining"} /\ (pc'[w] = "joining" => shutdownThread # "none")
      BY <3>1 DEF JoinOrReturn, joinable
    <3>3. \A v \in Waiters : v = w
      BY DEF OneWaiter
    <3>4. QED
      BY <2>2, <3>1, <3>2, <3>3
  <2>3. QED
    BY <2>1, <2>2
<1>7. ASSUME NEW w \in Waiters, Wake(w) PROVE P
  BY <1>7 DEF Wake, JoinOrReturn, joinable
<1>8. ASSUME NEW w \in Waiters, TimeOut(w) PROVE P
  BY <1>8 DEF TimeOut
<1>9. ASSUME NEW w \in Waiters, Joined(w) PROVE P
  BY <1>9 DEF Joined, OneWaiter
<1>10. ASSUME Shutdown0Begin PROVE P
  BY <1>10 DEF Shutdown0Begin
<1>11. ASSUME Shutdown0Bundles PROVE P
  BY <1>11 DEF Shutdown0Bundles
<1>12. ASSUME Shutdown0Done PROVE P
  BY <1>12 DEF Shutdown0Done, SystemShuttingdownDone
<1>13. ASSUME Shutdown0Failed PROVE P
  BY <1>13 DEF Shutdown0Failed, SystemShuttingdownDone
<1>14. ASSUME Stutter PROVE P
  BY <1>14 DEF Stutter, vars
<1>15. QED
  BY <1>1, <1>2, <1>3, <1>4, <1>5, <1>6, <1>7, <1>8, <1>9, <1>10, <1>11, <1>12, <1>13, <1>14, NextCases

-----------------------------------------------------------------------------
\* The types, for any clients and waiters: at most one waiter holds the mutex in join().
THEOREM TypeCorrect == Spec => []TypeOK
<1>1. QED
  BY TypeInit, TypeStep, PTL DEF Spec

\* The invariant is inductive.
LEMMA Inductive == Spec => []IInv
<1>1. Init => IInv
  <2>1. Init => TypeOK
    BY TypeInit
  <2>2. Init => WaitInv /\ WaitTellsTruth
    BY FrameworkAssumption DEF Init, WaitInv, WaitTellsTruth, Types
  <2>3. Init => UpInv /\ UpMeansInitialised
    BY DEF Init, UpInv, Starting, UpMeansInitialised
  <2>4. QED
    BY <2>1, <2>2, <2>3 DEF IInv
<1>2. IInv /\ [Next]_vars => IInv'
  BY TypeStep, WaitStep, UpStep DEF IInv
<1>3. QED
  BY <1>1, <1>2, PTL DEF Spec

\* WaitForStop reports a stop only if the framework was down at some time since the call,
\* whatever other clients and waiters do meanwhile.
THEOREM WaitAlwaysTellsTruth == Spec => []WaitTellsTruth
<1>1. IInv => WaitTellsTruth
  BY DEF IInv
<1>2. QED
  BY <1>1, Inductive, PTL

\* A framework that says it is up has the context that Init made, which an exception may have left
\* incomplete, unless a shutdown began while bundles were being started.
THEOREM UpAlwaysInitialised == Spec => []UpMeansInitialised
<1>1. IInv => UpMeansInitialised
  BY DEF IInv
<1>2. QED
  BY <1>1, Inductive, PTL

\* A framework with a single waiter, whatever its other clients do, never joins with its mutex held
\* a shutdown thread that still needs the mutex. (With two waiters it does: one joins the thread
\* whose event woke the other, which then joins the thread of the next stop.)
THEOREM SingleWaiterJoinsFinished == ASSUME OneWaiter PROVE Spec => []JoinsFinishedThread
<1> DEFINE J == TypeOK /\ JoinInv /\ JoinsFinishedThread
<1>1. Init => J
  BY TypeInit, FrameworkAssumption DEF Init, JoinInv, JoinsFinishedThread
<1>2. J /\ [Next]_vars => J'
  BY TypeStep, JoinStep
<1>3. QED
  BY <1>1, <1>2, PTL DEF Spec
=============================================================================
