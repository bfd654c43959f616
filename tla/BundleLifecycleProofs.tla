----------------------- MODULE BundleLifecycleProofs -----------------------
(***************************************************************************)
(* Proofs about BundleLifecycle: its types, and that every call of Start,  *)
(* Stop and Uninstall leaves its bundle settled.                           *)
(***************************************************************************)
EXTENDS BundleLifecycle, TLAPS

-----------------------------------------------------------------------------
(* The inductive invariant. *)

\* Where a call holds the mutex of its bundle.
HeldPCs == (UserPCs \ {"uninstalled"}) \cup Others

Pos(t)      == 1 .. Len(stack[t])
Holds(t, n) == stack[t][n].pc \in HeldPCs

\* A call that is past the mutex has it, and it is the only one of its thread for that bundle.
MutexInv ==
    \A t \in Threads : \A n \in Pos(t) :
        Holds(t, n) =>
            /\ mutex[stack[t][n].b] = {t}
            /\ \A m \in Pos(t) : Holds(t, m) /\ stack[t][m].b = stack[t][n].b => m = n

\* What a call knows of its bundle at each place, unless an exception escaped earlier.
Resolving(b)   == state[b] = "RESOLVED" /\ ~context[b] /\ b \notin running
Activating(b)  == state[b] = "STARTING" /\ context[b] /\ b \notin running
Deactivating(b) == state[b] = "STOPPING" /\ context[b]
Emptied(b)     == services[b] = 0 /\ b \in cleaned

\* Of a start that is undone: whether its exception is kept or has left Start0 already.
Refused(b, err) == (b \in rejected <=> ~ err) /\ (~ err => operation[b] = "ACTIVATING")

Knows(b, l, err) ==
    b \notin escaped =>
        /\ l \in {"resolved", "failStopped", "stopped"} => Resolving(b)
        /\ l \in {"starting", "validating", "activatorStart"} => Activating(b)
        /\ l \in {"starting", "validating"} => operation[b] = "ACTIVATING"
        /\ l = "activatorStart" => bactivator[b]
        /\ l = "started" => state[b] = "ACTIVE" /\ context[b] /\ b \in running /\ bactivator[b]
        /\ l \in {"failStopping", "failRemove", "failInvalidate", "stopping", "activatorStop", "remove",
                  "invalidate"} => Deactivating(b)
        /\ l \in {"failStopping", "failRemove", "failInvalidate", "remove", "invalidate"} => b \notin running
        /\ l \in {"failInvalidate", "invalidate"} => Emptied(b)
        /\ l \in {"stopping", "activatorStop"} => b \in running /\ bactivator[b] /\ ~ err
        /\ l \in {"dispose", "unresolved"} => ~context[b] /\ b \notin running
        /\ l \in {"starting", "validating", "activatorStart", "started", "stopping", "activatorStop", "remove",
                  "invalidate", "stopped"} => b \notin rejected
        /\ l \in {"failStopping", "failRemove", "failInvalidate", "failStopped"} => Refused(b, err)
        /\ b \in installed <=> l # "unresolved"

FrameInv(f) == f.pc \in HeldPCs => Knows(f.b, f.pc, f.err)

FramesInv == \A t \in Threads : \A n \in Pos(t) : FrameInv(stack[t][n])

\* A bundle no call is at work on is settled, ...
Settled(b) ==
    /\ state[b] \in {"INSTALLED", "RESOLVED", "ACTIVE", "UNINSTALLED"}
    /\ operation[b] = IF b \in rejected /\ state[b] = "RESOLVED" THEN "ACTIVATING" ELSE "IDLE"
    /\ state[b] = "ACTIVE" => b \notin rejected
    /\ context[b] <=> state[b] = "ACTIVE"
    /\ b \in installed <=> state[b] # "UNINSTALLED"
    /\ b \in running <=> state[b] = "ACTIVE"
    /\ b \in running => bactivator[b]

\* ... and a service that is still being registered for a bundle without a context comes late.
Disowned(b) == services[b] = 0 /\ (b \in registering => b \in cleaned)

BundleInv(b) ==
    b \notin escaped => /\ mutex[b] = {} => Settled(b)
                        /\ ~context[b] => Disowned(b)

BundlesInv == \A b \in Bundles : BundleInv(b)

\* Registrations are paid for.
Paid(b) == services[b] + late[b] + (IF b \in registering THEN 1 ELSE 0) + budget.services <= MaxServices
ServicesPaid == \A b \in Bundles : Paid(b)

IInv == TypeOK /\ ServicesPaid /\ MutexInv /\ FramesInv /\ BundlesInv

-----------------------------------------------------------------------------
(* The stacks of calls. *)

PCs     == Calls \cup UserPCs \cup Others
StackOK == stack \in [Threads -> Seq(Frames)] /\ \A t \in Threads : Len(stack[t]) <= MaxDepth

\* The innermost call of a thread goes on as f, or is gone, or another one is begun.
Becomes(t, f) ==
    /\ \A u \in Threads \ {t} : stack'[u] = stack[u]
    /\ Len(stack'[t]) = Len(stack[t])
    /\ \A n \in Pos(t) \ {Len(stack[t])} : stack'[t][n] = stack[t][n]
    /\ stack'[t][Len(stack[t])] = f
Returns(t) ==
    /\ \A u \in Threads \ {t} : stack'[u] = stack[u]
    /\ Len(stack'[t]) = Len(stack[t]) - 1
    /\ \A n \in 1 .. Len(stack[t]) - 1 : stack'[t][n] = stack[t][n]

LEMMA TopOK ==
    ASSUME StackOK, NEW t \in Threads, stack[t] # <<>>
    PROVE  /\ Len(stack[t]) \in Nat \ {0} /\ Len(stack[t]) \in Pos(t)
           /\ Top(t) \in Frames /\ B(t) \in Bundles /\ Top(t).pc \in PCs
<1>1. stack[t] \in Seq(Frames)
  BY DEF StackOK
<1>2. Len(stack[t]) \in Nat \ {0} /\ Len(stack[t]) \in Pos(t)
  BY <1>1 DEF Pos
<1>3. Top(t) \in Frames
  BY <1>1, <1>2 DEF Top
<1>4. QED
  BY <1>2, <1>3 DEF B, Frames, PCs

\* What replacing the innermost call does to a stack.
LEMMA Replace ==
    ASSUME StackOK, NEW t \in Threads, stack[t] # <<>>, NEW f \in Frames,
           stack' = [stack EXCEPT ![t] = [stack[t] EXCEPT ![Len(stack[t])] = f]]
    PROVE  StackOK' /\ Becomes(t, f)
<1>1. stack[t] \in Seq(Frames) /\ Len(stack[t]) \in Nat \ {0}
  BY TopOK DEF StackOK
<1> DEFINE s == [stack[t] EXCEPT ![Len(stack[t])] = f]
<1>2. s \in Seq(Frames) /\ Len(s) = Len(stack[t])
  BY <1>1
<1>3. s[Len(stack[t])] = f /\ \A n \in Pos(t) \ {Len(stack[t])} : s[n] = stack[t][n]
  BY <1>1 DEF Pos
<1>4. stack'[t] = s /\ \A u \in Threads \ {t} : stack'[u] = stack[u]
  BY DEF StackOK
<1>5. StackOK'
  BY <1>2, <1>4 DEF StackOK
<1>6. QED
  BY <1>2, <1>3, <1>4, <1>5 DEF Becomes

LEMMA GotoStack ==
    ASSUME StackOK, NEW t \in Threads, stack[t] # <<>>, NEW l \in PCs, Goto(t, l)
    PROVE  /\ StackOK' /\ Becomes(t, [Top(t) EXCEPT !.pc = l])
           /\ [Top(t) EXCEPT !.pc = l] \in Frames
<1>1. [Top(t) EXCEPT !.pc = l] \in Frames
  BY TopOK DEF Frames, PCs
<1>2. QED
  BY <1>1, Replace DEF Goto, Top

LEMMA FailStack ==
    ASSUME StackOK, NEW t \in Threads, stack[t] # <<>>, NEW l \in PCs, Fail(t, l)
    PROVE  /\ StackOK' /\ Becomes(t, [Top(t) EXCEPT !.pc = l, !.err = TRUE])
           /\ [Top(t) EXCEPT !.pc = l, !.err = TRUE] \in Frames
<1>1. [Top(t) EXCEPT !.pc = l, !.err = TRUE] \in Frames
  BY TopOK DEF Frames, PCs
<1>2. QED
  BY <1>1, Replace DEF Fail, Top

LEMMA PopStack ==
    ASSUME StackOK, NEW t \in Threads, stack[t] # <<>>, Pop(t)
    PROVE  StackOK' /\ Returns(t)
<1>1. stack[t] \in Seq(Frames) /\ Len(stack[t]) \in Nat \ {0}
  BY TopOK DEF StackOK
<1> DEFINE s == SubSeq(stack[t], 1, Len(stack[t]) - 1)
<1>2. s \in Seq(Frames) /\ Len(s) = Len(stack[t]) - 1 /\ \A n \in 1 .. Len(stack[t]) - 1 : s[n] = stack[t][n]
  BY <1>1
<1>3. stack'[t] = s /\ \A u \in Threads \ {t} : stack'[u] = stack[u]
  BY DEF StackOK, Pop
<1>4. StackOK'
  <2>1. \A u \in Threads : Len(stack'[u]) <= MaxDepth
    <3>1. MaxDepth \in Nat /\ Len(stack[t]) <= MaxDepth
      BY LifecycleAssumption DEF StackOK
    <3>2. Len(stack'[t]) <= MaxDepth
      BY <1>1, <1>2, <1>3, <3>1
    <3>3. QED
      BY <1>3, <3>2 DEF StackOK
  <2>2. stack' \in [Threads -> Seq(Frames)]
    BY <1>2, <1>3 DEF StackOK, Pop
  <2>3. QED
    BY <2>1, <2>2 DEF StackOK
<1>5. QED
  BY <1>2, <1>3, <1>4 DEF Returns

-----------------------------------------------------------------------------
(* A step of a call concerns its own bundle only. *)

Only(b) ==
    \A c \in Bundles \ {b} :
        /\ state'[c] = state[c] /\ operation'[c] = operation[c] /\ context'[c] = context[c]
        /\ bactivator'[c] = bactivator[c] /\ mutex'[c] = mutex[c] /\ services'[c] = services[c]
        /\ c \in installed' <=> c \in installed
        /\ c \in registering' <=> c \in registering
        /\ c \in running' <=> c \in running
        /\ c \in cleaned' <=> c \in cleaned
        /\ c \in escaped' <=> c \in escaped
        /\ c \in rejected' <=> c \in rejected

\* The call has the mutex of its bundle, or takes it.
Exclusive(t) == stack[t] # <<>> /\ (Holds(t, Len(stack[t])) \/ mutex[B(t)] = {})

\* Other calls that hold a mutex hold another bundle's, and what they know stays true.
LEMMA OthersKept ==
    ASSUME TypeOK, MutexInv, FramesInv, NEW t \in Threads, Exclusive(t), Only(B(t)),
           NEW u \in Threads, NEW n \in Pos(u), u # t \/ n # Len(stack[t]), stack'[u][n] = stack[u][n]
    PROVE  /\ Holds(u, n) => stack[u][n].b # B(t)
           /\ FrameInv(stack[u][n])'
           /\ Holds(u, n)' => Holds(u, n) /\ mutex'[stack'[u][n].b] = {u}
<1>0. StackOK
  BY DEF TypeOK, StackOK
<1>1. stack[u][n] \in Frames /\ stack[u][n].b \in Bundles
  <2>1. stack[u] \in Seq(Frames) /\ n \in 1 .. Len(stack[u])
    BY <1>0 DEF StackOK, Pos
  <2>2. stack[u][n] \in Frames
    BY <2>1
  <2>3. QED
    BY <2>2 DEF Frames
<1>2. ASSUME Holds(u, n) PROVE stack[u][n].b # B(t)
  <2>1. mutex[stack[u][n].b] = {u}
    BY <1>2 DEF MutexInv
  <2>2. CASE mutex[B(t)] = {}
    BY <2>1, <2>2
  <2>3. CASE Holds(t, Len(stack[t]))
    <3>1. Len(stack[t]) \in Pos(t) /\ B(t) = stack[t][Len(stack[t])].b
      BY <1>0, TopOK DEF Exclusive, B, Top
    <3>2. mutex[B(t)] = {t}
      BY <2>3, <3>1 DEF MutexInv
    <3>3. CASE u # t
      BY <2>1, <3>2, <3>3
    <3>4. CASE u = t
      BY <1>2, <2>3, <3>1, <3>4 DEF MutexInv
    <3>5. QED
      BY <3>3, <3>4
  <2>4. QED
    BY <2>2, <2>3 DEF Exclusive
<1>3. Holds(u, n)' => Holds(u, n) /\ mutex'[stack'[u][n].b] = {u}
  <2> SUFFICES ASSUME Holds(u, n)' PROVE Holds(u, n) /\ mutex'[stack'[u][n].b] = {u}
    OBVIOUS
  <2>1. Holds(u, n)
    BY DEF Holds
  <2>2. mutex[stack[u][n].b] = {u}
    BY <2>1 DEF MutexInv
  <2>3. stack[u][n].b \in Bundles \ {B(t)}
    BY <1>1, <1>2, <2>1
  <2>4. mutex'[stack[u][n].b] = mutex[stack[u][n].b]
    BY <2>3 DEF Only
  <2>5. QED
    BY <2>1, <2>2, <2>4
<1>4. FrameInv(stack[u][n])'
  <2>1. CASE ~ Holds(u, n)
    BY <2>1 DEF Holds, FrameInv
  <2>2. CASE Holds(u, n)
    <3>1. stack[u][n].b \in Bundles \ {B(t)}
      BY <1>1, <1>2, <2>2
    <3>2. FrameInv(stack[u][n])
      BY DEF FramesInv
    <3>3. QED
      BY <3>1, <3>2 DEF FrameInv, Knows, Only, Resolving, Activating, Deactivating, Refused, Emptied
  <2>3. QED
    BY <2>1, <2>2
<1>5. QED
  BY <1>2, <1>3, <1>4

\* The other bundles are as they were.
LEMMA OtherBundles ==
    ASSUME BundlesInv, NEW b \in Bundles, Only(b), BundleInv(b)' PROVE BundlesInv'
<1>1. ASSUME NEW c \in Bundles \ {b} PROVE BundleInv(c)'
  <2>1. BundleInv(c)
    BY DEF BundlesInv
  <2>2. QED
    BY <2>1 DEF Only, BundleInv, Settled, Disowned
<1>2. QED
  BY <1>1 DEF BundlesInv

\* It is enough to look at the bundle and at the call itself when it goes on, ...
LEMMA GoesOn ==
    ASSUME TypeOK, MutexInv, FramesInv, BundlesInv, NEW t \in Threads, Exclusive(t),
           NEW b \in Bundles, b = B(t), Only(b),
           NEW f \in Frames, Becomes(t, f), f.b = b, f.pc \in HeldPCs => mutex'[b] = {t},
           FrameInv(Top(t))', BundleInv(b)'
    PROVE  MutexInv' /\ FramesInv' /\ BundlesInv'
<1>0. StackOK
  BY DEF TypeOK, StackOK
<1> DEFINE d == Len(stack[t])
<1>1. d \in Nat \ {0} /\ d \in Pos(t) /\ B(t) \in Bundles
  BY <1>0, TopOK DEF Exclusive
<1>2. \A u \in Threads : Pos(u)' = Pos(u)
  BY DEF Becomes, Pos
<1>3. Len(stack'[t]) = d /\ stack'[t][d] = f /\ Top(t)' = f
  BY DEF Becomes, Top
<1>4. \A u \in Threads : \A n \in Pos(u) : (u # t \/ n # d) => stack'[u][n] = stack[u][n]
  BY DEF Becomes
<1>5. \A u \in Threads : \A n \in Pos(u) : (u # t \/ n # d) =>
          /\ Holds(u, n) => stack[u][n].b # B(t)
          /\ FrameInv(stack[u][n])'
          /\ Holds(u, n)' => Holds(u, n) /\ mutex'[stack'[u][n].b] = {u}
  BY <1>4, OthersKept
<1>6. FramesInv'
  <2> SUFFICES ASSUME NEW u \in Threads, NEW n \in Pos(u)' PROVE FrameInv(stack[u][n])'
    BY DEF FramesInv
  <2>1. CASE u = t /\ n = d
    BY <1>3, <2>1 DEF Top
  <2>2. CASE u # t \/ n # d
    BY <1>2, <1>5, <2>2
  <2>3. QED
    BY <2>1, <2>2
<1>7. MutexInv'
  <2> SUFFICES ASSUME NEW u \in Threads, NEW n \in Pos(u), Holds(u, n)'
               PROVE  /\ mutex'[stack'[u][n].b] = {u}
                      /\ \A m \in Pos(u) : Holds(u, m)' /\ stack'[u][m].b = stack'[u][n].b => m = n
    BY <1>2 DEF MutexInv
  <2>1. CASE u = t /\ n = d
    <3>1. mutex'[stack'[u][n].b] = {u}
      BY <1>3, <2>1 DEF Holds
    <3>2. ASSUME NEW m \in Pos(u), Holds(u, m)', stack'[u][m].b = stack'[u][n].b PROVE m = n
      BY <1>3, <1>4, <1>5, <2>1, <3>2
    <3>3. QED
      BY <3>1, <3>2
  <2>2. CASE u # t \/ n # d
    <3>1. Holds(u, n) /\ mutex'[stack'[u][n].b] = {u} /\ stack[u][n].b # B(t) /\ stack'[u][n] = stack[u][n]
      BY <1>4, <1>5, <2>2
    <3>2. ASSUME NEW m \in Pos(u), Holds(u, m)', stack'[u][m].b = stack'[u][n].b PROVE m = n
      <4>1. u # t \/ m # d
        BY <1>3, <3>1, <3>2
      <4>2. Holds(u, m) /\ stack'[u][m] = stack[u][m]
        BY <1>4, <1>5, <3>2, <4>1
      <4>3. QED
        BY <3>1, <3>2, <4>2 DEF MutexInv
    <3>3. QED
      BY <3>1, <3>2
  <2>3. QED
    BY <2>1, <2>2
<1>8. QED
  BY <1>1, <1>6, <1>7, OtherBundles

\* ... and at the bundle alone when it returns.
LEMMA IsOver ==
    ASSUME TypeOK, MutexInv, FramesInv, BundlesInv, NEW t \in Threads, Exclusive(t),
           NEW b \in Bundles, b = B(t), Only(b), Returns(t), BundleInv(b)'
    PROVE  MutexInv' /\ FramesInv' /\ BundlesInv'
<1>0. StackOK
  BY DEF TypeOK, StackOK
<1> DEFINE d == Len(stack[t])
<1>1. d \in Nat \ {0} /\ d \in Pos(t) /\ B(t) \in Bundles
  BY <1>0, TopOK DEF Exclusive
<1>2. \A u \in Threads : \A n \in Pos(u)' : n \in Pos(u) /\ (u # t \/ n # d) /\ stack'[u][n] = stack[u][n]
  <2>1. ASSUME NEW u \in Threads \ {t}, NEW n \in Pos(u)'
        PROVE  n \in Pos(u) /\ (u # t \/ n # d) /\ stack'[u][n] = stack[u][n]
    BY <2>1 DEF Returns, Pos
  <2>2. ASSUME NEW n \in Pos(t)' PROVE n \in Pos(t) /\ n # d /\ stack'[t][n] = stack[t][n]
    BY <1>1, <2>2 DEF Returns, Pos
  <2>3. QED
    BY <2>1, <2>2
<1>3. \A u \in Threads : \A n \in Pos(u)' :
          /\ FrameInv(stack[u][n])'
          /\ Holds(u, n)' => Holds(u, n) /\ mutex'[stack'[u][n].b] = {u}
  BY <1>2, OthersKept
<1>4. FramesInv'
  BY <1>3 DEF FramesInv
<1>5. MutexInv'
  BY <1>2, <1>3 DEF MutexInv
<1>6. QED
  BY <1>1, <1>4, <1>5, OtherBundles

\* A call that has the mutex, or takes it, and goes on with it as f.
LEMMA Proceeds ==
    ASSUME TypeOK, MutexInv, FramesInv, BundlesInv, NEW t \in Threads, Exclusive(t),
           NEW b \in Bundles, b = B(t), Only(b), NEW f \in Frames, Becomes(t, f), f.b = b,
           mutex'[b] = {t}, Knows(b, f.pc, f.err)', b \notin escaped' /\ ~context'[b] => Disowned(b)'
    PROVE  MutexInv' /\ FramesInv' /\ BundlesInv'
<1>1. FrameInv(Top(t))'
  <2>1. Top(t)' = f
    BY DEF Becomes, Top
  <2>2. QED
    BY <2>1 DEF FrameInv
<1>2. BundleInv(b)'
  BY DEF BundleInv
<1>3. QED
  BY <1>1, <1>2, GoesOn

LEMMA Advances ==
    ASSUME TypeOK, MutexInv, FramesInv, BundlesInv, NEW t \in Threads, Exclusive(t),
           NEW b \in Bundles, b = B(t), Only(b), NEW l \in HeldPCs, Goto(t, l), NEW e, Top(t).err = e,
           mutex'[b] = {t}, Knows(b, l, e)', b \notin escaped' /\ ~context'[b] => Disowned(b)'
    PROVE  StackOK' /\ MutexInv' /\ FramesInv' /\ BundlesInv'
<1>1. StackOK /\ stack[t] # <<>> /\ Top(t) \in Frames /\ l \in PCs
  BY TopOK DEF TypeOK, StackOK, Exclusive, HeldPCs, PCs
<1>2. PICK f \in Frames : Becomes(t, f) /\ f = [Top(t) EXCEPT !.pc = l] /\ StackOK'
  BY <1>1, GotoStack
<1>3. f.b = b /\ f.pc = l /\ f.err = e
  BY <1>1, <1>2 DEF Frames, B
<1>4. QED
  BY <1>2, <1>3, Proceeds

LEMMA Fails ==
    ASSUME TypeOK, MutexInv, FramesInv, BundlesInv, NEW t \in Threads, Exclusive(t),
           NEW b \in Bundles, b = B(t), Only(b), NEW l \in HeldPCs, Fail(t, l),
           mutex'[b] = {t}, Knows(b, l, TRUE)', b \notin escaped' /\ ~context'[b] => Disowned(b)'
    PROVE  StackOK' /\ MutexInv' /\ FramesInv' /\ BundlesInv'
<1>1. StackOK /\ stack[t] # <<>> /\ Top(t) \in Frames /\ l \in PCs
  BY TopOK DEF TypeOK, StackOK, Exclusive, HeldPCs, PCs
<1>2. PICK f \in Frames : Becomes(t, f) /\ f = [Top(t) EXCEPT !.pc = l, !.err = TRUE] /\ StackOK'
  BY <1>1, FailStack
<1>3. f.b = b /\ f.pc = l /\ f.err = TRUE
  BY <1>1, <1>2 DEF Frames, B
<1>4. QED
  BY <1>2, <1>3, Proceeds

\* A call that returns or throws.
LEMMA Ends ==
    ASSUME TypeOK, MutexInv, FramesInv, BundlesInv, NEW t \in Threads, Exclusive(t),
           NEW b \in Bundles, b = B(t), Only(b), Pop(t), BundleInv(b)'
    PROVE  StackOK' /\ MutexInv' /\ FramesInv' /\ BundlesInv'
<1>1. StackOK /\ stack[t] # <<>>
  BY DEF TypeOK, StackOK, Exclusive
<1>2. QED
  BY <1>1, PopStack, IsOver

\* What is known where a call has the mutex, ...
LEMMA HeldAt ==
    ASSUME TypeOK, MutexInv, FramesInv, BundlesInv, NEW t \in Threads, stack[t] # <<>>,
           Top(t).pc \in HeldPCs
    PROVE  \E b \in Bundles, e \in {Top(t).err} :
               /\ b = B(t) /\ mutex[b] = {t}
               /\ Knows(b, Top(t).pc, e) /\ BundleInv(b) /\ Exclusive(t)
<1>1. StackOK
  BY DEF TypeOK, StackOK
<1>2. Len(stack[t]) \in Pos(t) /\ Top(t) \in Frames /\ B(t) \in Bundles
  BY <1>1, TopOK
<1>3. Holds(t, Len(stack[t])) /\ FrameInv(Top(t))
  BY <1>2 DEF Holds, Top, FramesInv
<1>4. mutex[B(t)] = {t}
  BY <1>2, <1>3 DEF MutexInv, B, Top
<1>5. QED
  BY <1>2, <1>3, <1>4 DEF Exclusive, FrameInv, B, BundlesInv, Frames

\* ... and where it takes it.
LEMMA FreeAt ==
    ASSUME TypeOK, BundlesInv, NEW t \in Threads, stack[t] # <<>>, mutex[B(t)] = {}
    PROVE  \E b \in Bundles, e \in {Top(t).err} :
               b = B(t) /\ mutex[b] = {} /\ BundleInv(b) /\ Exclusive(t)
<1>1. StackOK
  BY DEF TypeOK, StackOK
<1>2. Top(t) \in Frames /\ B(t) \in Bundles
  BY <1>1, TopOK
<1>3. QED
  BY <1>2 DEF Exclusive, BundlesInv, Frames

-----------------------------------------------------------------------------
(* The steps of calls, one lemma for each. *)

Kept == StackOK' /\ MutexInv' /\ FramesInv' /\ BundlesInv'

LEMMA ResolvedKeeps ==
    ASSUME TypeOK, MutexInv, FramesInv, BundlesInv, NEW t \in Threads, Resolved(t) PROVE Kept
<1>1. stack[t] # <<>> /\ Top(t).pc = "resolved" /\ Top(t).pc \in HeldPCs
  BY DEF Resolved, At, HeldPCs, UserPCs, Others
<1>2. PICK b \in Bundles, e \in {Top(t).err} : /\ b = B(t) /\ mutex[b] = {t}
                                         /\ Knows(b, Top(t).pc, e) /\ BundleInv(b) /\ Exclusive(t)
  BY <1>1, HeldAt
<1>3. Only(b)
  BY <1>2 DEF Resolved, Activate, Put, TypeOK, Only, owned, history
<1>4. mutex'[b] = {t} /\ Goto(t, "starting") /\ "starting" \in HeldPCs
  BY <1>2 DEF Resolved, Activate, HeldPCs, UserPCs, Others
<1>5. Knows(b, "starting", e)'
  BY <1>1, <1>2 DEF Resolved, Activate, Put, TypeOK, owned, history, Knows, Resolving, Activating, Deactivating, Refused, Emptied
<1>6. b \notin escaped' /\ ~context'[b] => Disowned(b)'
  BY <1>1, <1>2 DEF Resolved, Activate, Put, TypeOK, owned, history, Knows, Resolving, Activating, Deactivating, Refused, Emptied, BundleInv, Disowned
<1>7. QED
  BY <1>2, <1>3, <1>4, <1>5, <1>6, Advances DEF Kept

LEMMA StartingKeeps ==
    ASSUME TypeOK, MutexInv, FramesInv, BundlesInv, NEW t \in Threads, Starting(t) PROVE Kept
<1>1. stack[t] # <<>> /\ Top(t).pc = "starting" /\ Top(t).pc \in HeldPCs
  BY DEF Starting, At, HeldPCs, UserPCs, Others
<1>2. PICK b \in Bundles, e \in {Top(t).err} : /\ b = B(t) /\ mutex[b] = {t}
                                         /\ Knows(b, Top(t).pc, e) /\ BundleInv(b) /\ Exclusive(t)
  BY <1>1, HeldAt
<1>3. Only(b)
  BY <1>2 DEF Starting, At, Put, TypeOK, Only, owned, history
<1>4. mutex'[b] = {t} /\ Goto(t, "validating") /\ "validating" \in HeldPCs
  BY <1>2 DEF Starting, At, HeldPCs, UserPCs, Others
<1>5. Knows(b, "validating", e)'
  BY <1>1, <1>2 DEF Starting, At, Put, TypeOK, owned, history, Knows, Resolving, Activating, Deactivating, Refused, Emptied
<1>6. b \notin escaped' /\ ~context'[b] => Disowned(b)'
  BY <1>1, <1>2 DEF Starting, At, Put, TypeOK, owned, history, Knows, Resolving, Activating, Deactivating, Refused, Emptied, BundleInv, Disowned
<1>7. QED
  BY <1>2, <1>3, <1>4, <1>5, <1>6, Advances DEF Kept

LEMMA ValidatedKeeps ==
    ASSUME TypeOK, MutexInv, FramesInv, BundlesInv, NEW t \in Threads, Validated(t) PROVE Kept
<1>1. stack[t] # <<>> /\ Top(t).pc = "validating" /\ Top(t).pc \in HeldPCs
  BY DEF Validated, At, HeldPCs, UserPCs, Others
<1>2. PICK b \in Bundles, e \in {Top(t).err} : /\ b = B(t) /\ mutex[b] = {t}
                                         /\ Knows(b, Top(t).pc, e) /\ BundleInv(b) /\ Exclusive(t)
  BY <1>1, HeldAt
<1>3. Only(b)
  BY <1>2 DEF Validated, At, Put, TypeOK, Only, owned, history
<1>4. mutex'[b] = {t} /\ Goto(t, "activatorStart") /\ "activatorStart" \in HeldPCs
  BY <1>2 DEF Validated, At, HeldPCs, UserPCs, Others
<1>5. Knows(b, "activatorStart", e)'
  BY <1>1, <1>2 DEF Validated, At, Put, TypeOK, owned, history, Knows, Resolving, Activating, Deactivating, Refused, Emptied
<1>6. b \notin escaped' /\ ~context'[b] => Disowned(b)'
  BY <1>1, <1>2 DEF Validated, At, Put, TypeOK, owned, history, Knows, Resolving, Activating, Deactivating, Refused, Emptied, BundleInv, Disowned
<1>7. QED
  BY <1>2, <1>3, <1>4, <1>5, <1>6, Advances DEF Kept

LEMMA ActivatorStartKeeps ==
    ASSUME TypeOK, MutexInv, FramesInv, BundlesInv, NEW t \in Threads, ActivatorStart(t) PROVE Kept
<1>1. stack[t] # <<>> /\ Top(t).pc = "activatorStart" /\ Top(t).pc \in HeldPCs
  BY DEF ActivatorStart, At, HeldPCs, UserPCs, Others
<1>2. PICK b \in Bundles, e \in {Top(t).err} : /\ b = B(t) /\ mutex[b] = {t}
                                         /\ Knows(b, Top(t).pc, e) /\ BundleInv(b) /\ Exclusive(t)
  BY <1>1, HeldAt
<1>3. Only(b)
  BY <1>2 DEF ActivatorStart, At, Put, TypeOK, Only, owned, history
<1>4. mutex'[b] = {t} /\ Goto(t, "started") /\ "started" \in HeldPCs
  BY <1>2 DEF ActivatorStart, At, HeldPCs, UserPCs, Others
<1>5. Knows(b, "started", e)'
  BY <1>1, <1>2 DEF ActivatorStart, At, Put, TypeOK, owned, history, Knows, Resolving, Activating, Deactivating, Refused, Emptied
<1>6. b \notin escaped' /\ ~context'[b] => Disowned(b)'
  BY <1>1, <1>2 DEF ActivatorStart, At, Put, TypeOK, owned, history, Knows, Resolving, Activating, Deactivating, Refused, Emptied, BundleInv, Disowned
<1>7. QED
  BY <1>2, <1>3, <1>4, <1>5, <1>6, Advances DEF Kept

LEMMA ValidationRefusesKeeps ==
    ASSUME TypeOK, MutexInv, FramesInv, BundlesInv, NEW t \in Threads, ValidationRefuses(t) PROVE Kept
<1>1. stack[t] # <<>> /\ Top(t).pc = "validating" /\ Top(t).pc \in HeldPCs
  BY DEF ValidationRefuses, At, HeldPCs, UserPCs, Others
<1>2. PICK b \in Bundles, e \in {Top(t).err} : /\ b = B(t) /\ mutex[b] = {t}
                                         /\ Knows(b, Top(t).pc, e) /\ BundleInv(b) /\ Exclusive(t)
  BY <1>1, HeldAt
<1>3. Only(b)
  BY <1>2 DEF ValidationRefuses, StartFailed, Put, TypeOK, Only, owned, history
<1>4. mutex'[b] = {t} /\ Fail(t, "failStopping") /\ "failStopping" \in HeldPCs
  BY <1>2 DEF ValidationRefuses, StartFailed, HeldPCs, UserPCs, Others
<1>5. Knows(b, "failStopping", TRUE)'
  BY <1>1, <1>2 DEF ValidationRefuses, StartFailed, Put, TypeOK, owned, history, Knows, Resolving, Activating, Deactivating, Refused, Emptied
<1>6. b \notin escaped' /\ ~context'[b] => Disowned(b)'
  BY <1>1, <1>2 DEF ValidationRefuses, StartFailed, Put, TypeOK, owned, history, Knows, Resolving, Activating, Deactivating, Refused, Emptied, BundleInv, Disowned
<1>7. QED
  BY <1>2, <1>3, <1>4, <1>5, <1>6, Fails DEF Kept

LEMMA ValidationThrowsKeeps ==
    ASSUME TypeOK, MutexInv, FramesInv, BundlesInv, NEW t \in Threads, ValidationThrows(t) PROVE Kept
<1>1. stack[t] # <<>> /\ Top(t).pc = "validating" /\ Top(t).pc \in HeldPCs
  BY DEF ValidationThrows, At, HeldPCs, UserPCs, Others
<1>2. PICK b \in Bundles, e \in {Top(t).err} : /\ b = B(t) /\ mutex[b] = {t}
                                         /\ Knows(b, Top(t).pc, e) /\ BundleInv(b) /\ Exclusive(t)
  BY <1>1, HeldAt
<1>3. StackOK /\ Top(t) \in Frames
  BY <1>1, TopOK DEF TypeOK, StackOK
<1>4. PICK f : f = [Top(t) EXCEPT !.pc = "failStopping", !.err = FALSE]
  OBVIOUS
<1>5. f \in Frames /\ f.b = b /\ f.pc = "failStopping" /\ f.err = FALSE /\ f.pc \in HeldPCs
  BY <1>2, <1>3, <1>4 DEF Frames, B, UserPCs, HeldPCs, Others
<1>6. Becomes(t, f) /\ StackOK'
  BY <1>1, <1>3, <1>4, <1>5, Replace DEF ValidationThrows, Top
<1>7. Only(b) /\ mutex'[b] = {t}
  BY <1>2 DEF ValidationThrows, Put, TypeOK, Only, owned
<1>8. Knows(b, f.pc, f.err)'
  BY <1>1, <1>2, <1>5 DEF ValidationThrows, Put, TypeOK, owned, Knows, Activating, Deactivating, Refused
<1>9. b \notin escaped' /\ ~context'[b] => Disowned(b)'
  BY <1>2 DEF ValidationThrows, owned, BundleInv, Disowned
<1>10. QED
  BY <1>2, <1>5, <1>6, <1>7, <1>8, <1>9, Proceeds DEF Kept

LEMMA ActivatorStartThrowsKeeps ==
    ASSUME TypeOK, MutexInv, FramesInv, BundlesInv, NEW t \in Threads, ActivatorStartThrows(t) PROVE Kept
<1>1. stack[t] # <<>> /\ Top(t).pc = "activatorStart" /\ Top(t).pc \in HeldPCs
  BY DEF ActivatorStartThrows, At, HeldPCs, UserPCs, Others
<1>2. PICK b \in Bundles, e \in {Top(t).err} : /\ b = B(t) /\ mutex[b] = {t}
                                         /\ Knows(b, Top(t).pc, e) /\ BundleInv(b) /\ Exclusive(t)
  BY <1>1, HeldAt
<1>3. Only(b)
  BY <1>2 DEF ActivatorStartThrows, StartFailed, Put, TypeOK, Only, owned, history
<1>4. mutex'[b] = {t} /\ Fail(t, "failStopping") /\ "failStopping" \in HeldPCs
  BY <1>2 DEF ActivatorStartThrows, StartFailed, HeldPCs, UserPCs, Others
<1>5. Knows(b, "failStopping", TRUE)'
  BY <1>1, <1>2 DEF ActivatorStartThrows, StartFailed, Put, TypeOK, owned, history, Knows, Resolving, Activating, Deactivating, Refused, Emptied
<1>6. b \notin escaped' /\ ~context'[b] => Disowned(b)'
  BY <1>1, <1>2 DEF ActivatorStartThrows, StartFailed, Put, TypeOK, owned, history, Knows, Resolving, Activating, Deactivating, Refused, Emptied, BundleInv, Disowned
<1>7. QED
  BY <1>2, <1>3, <1>4, <1>5, <1>6, Fails DEF Kept

LEMMA StartedKeeps ==
    ASSUME TypeOK, MutexInv, FramesInv, BundlesInv, NEW t \in Threads, Started(t) PROVE Kept
<1>1. stack[t] # <<>> /\ Top(t).pc = "started" /\ Top(t).pc \in HeldPCs
  BY DEF Started, At, HeldPCs, UserPCs, Others
<1>2. PICK b \in Bundles, e \in {Top(t).err} : /\ b = B(t) /\ mutex[b] = {t}
                                         /\ Knows(b, Top(t).pc, e) /\ BundleInv(b) /\ Exclusive(t)
  BY <1>1, HeldAt
<1>3. Only(b) /\ Pop(t)
  BY <1>2 DEF Started, At, Leave, Unlock, Put, TypeOK, Only, owned, history
<1>4. BundleInv(b)'
  BY <1>1, <1>2 DEF Started, At, Leave, Unlock, Put, TypeOK, owned, history, Knows, Resolving, Activating, Deactivating, Refused, Emptied, BundleInv, Settled, Disowned
<1>5. QED
  BY <1>2, <1>3, <1>4, Ends DEF Kept

LEMMA StartedRefusedKeeps ==
    ASSUME TypeOK, MutexInv, FramesInv, BundlesInv, NEW t \in Threads, StartedRefused(t) PROVE Kept
<1>1. stack[t] # <<>> /\ Top(t).pc = "started" /\ Top(t).pc \in HeldPCs
  BY DEF StartedRefused, At, HeldPCs, UserPCs, Others
<1>2. PICK b \in Bundles, e \in {Top(t).err} : /\ b = B(t) /\ mutex[b] = {t}
                                         /\ Knows(b, Top(t).pc, e) /\ BundleInv(b) /\ Exclusive(t)
  BY <1>1, HeldAt
<1>3. Only(b)
  BY <1>2 DEF StartedRefused, StartFailed, Put, TypeOK, Only, owned, history
<1>4. mutex'[b] = {t} /\ Fail(t, "failStopping") /\ "failStopping" \in HeldPCs
  BY <1>2 DEF StartedRefused, StartFailed, HeldPCs, UserPCs, Others
<1>5. Knows(b, "failStopping", TRUE)'
  BY <1>1, <1>2 DEF StartedRefused, StartFailed, Put, TypeOK, owned, history, Knows, Resolving, Activating, Deactivating, Refused, Emptied
<1>6. b \notin escaped' /\ ~context'[b] => Disowned(b)'
  BY <1>1, <1>2 DEF StartedRefused, StartFailed, Put, TypeOK, owned, history, Knows, Resolving, Activating, Deactivating, Refused, Emptied, BundleInv, Disowned
<1>7. QED
  BY <1>2, <1>3, <1>4, <1>5, <1>6, Fails DEF Kept

LEMMA FailStoppingKeeps ==
    ASSUME TypeOK, MutexInv, FramesInv, BundlesInv, NEW t \in Threads, FailStopping(t) PROVE Kept
<1>1. stack[t] # <<>> /\ Top(t).pc = "failStopping" /\ Top(t).pc \in HeldPCs
  BY DEF FailStopping, At, HeldPCs, UserPCs, Others
<1>2. PICK b \in Bundles, e \in {Top(t).err} : /\ b = B(t) /\ mutex[b] = {t}
                                         /\ Knows(b, Top(t).pc, e) /\ BundleInv(b) /\ Exclusive(t)
  BY <1>1, HeldAt
<1>3. Only(b)
  BY <1>2 DEF FailStopping, At, Put, TypeOK, Only, owned, history
<1>4. mutex'[b] = {t} /\ Goto(t, "failRemove") /\ "failRemove" \in HeldPCs
  BY <1>2 DEF FailStopping, At, HeldPCs, UserPCs, Others
<1>5. Knows(b, "failRemove", e)'
  BY <1>1, <1>2 DEF FailStopping, At, Put, TypeOK, owned, history, Knows, Resolving, Activating, Deactivating, Refused, Emptied
<1>6. b \notin escaped' /\ ~context'[b] => Disowned(b)'
  BY <1>1, <1>2 DEF FailStopping, At, Put, TypeOK, owned, history, Knows, Resolving, Activating, Deactivating, Refused, Emptied, BundleInv, Disowned
<1>7. QED
  BY <1>2, <1>3, <1>4, <1>5, <1>6, Advances DEF Kept

LEMMA FailInvalidateKeeps ==
    ASSUME TypeOK, MutexInv, FramesInv, BundlesInv, NEW t \in Threads, FailInvalidate(t) PROVE Kept
<1>1. stack[t] # <<>> /\ Top(t).pc = "failInvalidate" /\ Top(t).pc \in HeldPCs
  BY DEF FailInvalidate, At, HeldPCs, UserPCs, Others
<1>2. PICK b \in Bundles, e \in {Top(t).err} : /\ b = B(t) /\ mutex[b] = {t}
                                         /\ Knows(b, Top(t).pc, e) /\ BundleInv(b) /\ Exclusive(t)
  BY <1>1, HeldAt
<1>3. Only(b)
  BY <1>2 DEF FailInvalidate, At, Put, TypeOK, Only, owned, history
<1>4. mutex'[b] = {t} /\ Goto(t, "failStopped") /\ "failStopped" \in HeldPCs
  BY <1>2 DEF FailInvalidate, At, HeldPCs, UserPCs, Others
<1>5. Knows(b, "failStopped", e)'
  BY <1>1, <1>2 DEF FailInvalidate, At, Put, TypeOK, owned, history, Knows, Resolving, Activating, Deactivating, Refused, Emptied
<1>6. b \notin escaped' /\ ~context'[b] => Disowned(b)'
  BY <1>1, <1>2 DEF FailInvalidate, At, Put, TypeOK, owned, history, Knows, Resolving, Activating, Deactivating, Refused, Emptied, BundleInv, Disowned
<1>7. QED
  BY <1>2, <1>3, <1>4, <1>5, <1>6, Advances DEF Kept

LEMMA FailStoppedKeeps ==
    ASSUME TypeOK, MutexInv, FramesInv, BundlesInv, NEW t \in Threads, FailStopped(t) PROVE Kept
<1>1. stack[t] # <<>> /\ Top(t).pc = "failStopped" /\ Top(t).pc \in HeldPCs
  BY DEF FailStopped, At, HeldPCs, UserPCs, Others
<1>2. PICK b \in Bundles, e \in {Top(t).err} : /\ b = B(t) /\ mutex[b] = {t}
                                         /\ Knows(b, Top(t).pc, e) /\ BundleInv(b) /\ Exclusive(t)
  BY <1>1, HeldAt
<1>3. Only(b) /\ Pop(t)
  BY <1>2 DEF FailStopped, At, Leave, Unlock, Put, TypeOK, Only, owned, history
<1>4. BundleInv(b)'
  BY <1>1, <1>2 DEF FailStopped, At, Leave, Unlock, Put, TypeOK, owned, history, Knows, Resolving, Activating, Deactivating, Refused, Emptied, BundleInv, Settled, Disowned
<1>5. QED
  BY <1>2, <1>3, <1>4, Ends DEF Kept

LEMMA ActivatorStopKeeps ==
    ASSUME TypeOK, MutexInv, FramesInv, BundlesInv, NEW t \in Threads, ActivatorStop(t) PROVE Kept
<1>1. stack[t] # <<>> /\ Top(t).pc = "activatorStop" /\ Top(t).pc \in HeldPCs
  BY DEF ActivatorStop, At, HeldPCs, UserPCs, Others
<1>2. PICK b \in Bundles, e \in {Top(t).err} : /\ b = B(t) /\ mutex[b] = {t}
                                         /\ Knows(b, Top(t).pc, e) /\ BundleInv(b) /\ Exclusive(t)
  BY <1>1, HeldAt
<1>3. Only(b)
  BY <1>2 DEF ActivatorStop, At, Put, TypeOK, Only, owned, history
<1>4. mutex'[b] = {t} /\ Goto(t, "remove") /\ "remove" \in HeldPCs
  BY <1>2 DEF ActivatorStop, At, HeldPCs, UserPCs, Others
<1>5. Knows(b, "remove", e)'
  BY <1>1, <1>2 DEF ActivatorStop, At, Put, TypeOK, owned, history, Knows, Resolving, Activating, Deactivating, Refused, Emptied
<1>6. b \notin escaped' /\ ~context'[b] => Disowned(b)'
  BY <1>1, <1>2 DEF ActivatorStop, At, Put, TypeOK, owned, history, Knows, Resolving, Activating, Deactivating, Refused, Emptied, BundleInv, Disowned
<1>7. QED
  BY <1>2, <1>3, <1>4, <1>5, <1>6, Advances DEF Kept

LEMMA InvalidateKeeps ==
    ASSUME TypeOK, MutexInv, FramesInv, BundlesInv, NEW t \in Threads, Invalidate(t) PROVE Kept
<1>1. stack[t] # <<>> /\ Top(t).pc = "invalidate" /\ Top(t).pc \in HeldPCs
  BY DEF Invalidate, At, HeldPCs, UserPCs, Others
<1>2. PICK b \in Bundles, e \in {Top(t).err} : /\ b = B(t) /\ mutex[b] = {t}
                                         /\ Knows(b, Top(t).pc, e) /\ BundleInv(b) /\ Exclusive(t)
  BY <1>1, HeldAt
<1>3. Only(b)
  BY <1>2 DEF Invalidate, At, Put, TypeOK, Only, owned, history
<1>4. mutex'[b] = {t} /\ Goto(t, "stopped") /\ "stopped" \in HeldPCs
  BY <1>2 DEF Invalidate, At, HeldPCs, UserPCs, Others
<1>5. Knows(b, "stopped", e)'
  BY <1>1, <1>2 DEF Invalidate, At, Put, TypeOK, owned, history, Knows, Resolving, Activating, Deactivating, Refused, Emptied
<1>6. b \notin escaped' /\ ~context'[b] => Disowned(b)'
  BY <1>1, <1>2 DEF Invalidate, At, Put, TypeOK, owned, history, Knows, Resolving, Activating, Deactivating, Refused, Emptied, BundleInv, Disowned
<1>7. QED
  BY <1>2, <1>3, <1>4, <1>5, <1>6, Advances DEF Kept

LEMMA DisposeKeeps ==
    ASSUME TypeOK, MutexInv, FramesInv, BundlesInv, NEW t \in Threads, Dispose(t) PROVE Kept
<1>1. stack[t] # <<>> /\ Top(t).pc = "dispose" /\ Top(t).pc \in HeldPCs
  BY DEF Dispose, At, HeldPCs, UserPCs, Others
<1>2. PICK b \in Bundles, e \in {Top(t).err} : /\ b = B(t) /\ mutex[b] = {t}
                                         /\ Knows(b, Top(t).pc, e) /\ BundleInv(b) /\ Exclusive(t)
  BY <1>1, HeldAt
<1>3. Only(b)
  BY <1>2 DEF Dispose, At, Put, TypeOK, Only, owned, history
<1>4. mutex'[b] = {t} /\ Goto(t, "unresolved") /\ "unresolved" \in HeldPCs
  BY <1>2 DEF Dispose, At, HeldPCs, UserPCs, Others
<1>5. Knows(b, "unresolved", e)'
  BY <1>1, <1>2 DEF Dispose, At, Put, TypeOK, owned, history, Knows, Resolving, Activating, Deactivating, Refused, Emptied
<1>6. b \notin escaped' /\ ~context'[b] => Disowned(b)'
  BY <1>1, <1>2 DEF Dispose, At, Put, TypeOK, owned, history, Knows, Resolving, Activating, Deactivating, Refused, Emptied, BundleInv, Disowned
<1>7. QED
  BY <1>2, <1>3, <1>4, <1>5, <1>6, Advances DEF Kept

LEMMA RemoveKeeps ==
    ASSUME TypeOK, MutexInv, FramesInv, BundlesInv, NEW t \in Threads, Remove(t) PROVE Kept
<1>1. stack[t] # <<>> /\ Top(t).pc \in {"remove", "failRemove"} /\ Top(t).pc \in HeldPCs
  BY DEF Remove, At, HeldPCs, UserPCs, Others
<1>2. PICK b \in Bundles, e \in {Top(t).err} : /\ b = B(t) /\ mutex[b] = {t}
                                         /\ Knows(b, Top(t).pc, e) /\ BundleInv(b) /\ Exclusive(t)
  BY <1>1, HeldAt
<1>3. Only(b)
  BY <1>2 DEF Remove, RemoveBundleResources, Put, TypeOK, Only
<1>4. PICK l \in {"invalidate", "failInvalidate"} :
        /\ Goto(t, l) /\ l \in HeldPCs /\ mutex'[b] = {t}
        /\ l = IF Top(t).pc = "remove" THEN "invalidate" ELSE "failInvalidate"
  BY <1>2 DEF Remove, At, HeldPCs, UserPCs, Others
<1>5. Knows(b, l, e)'
  <2>1. Top(t).pc = "remove" => Knows(b, "invalidate", e)'
    BY <1>1, <1>2 DEF Remove, RemoveBundleResources, Put, TypeOK, Knows, Resolving, Activating,
       Deactivating, Refused, Emptied
  <2>2. Top(t).pc = "failRemove" => Knows(b, "failInvalidate", e)'
    BY <1>1, <1>2 DEF Remove, RemoveBundleResources, Put, TypeOK, Knows, Resolving, Activating,
       Deactivating, Refused, Emptied
  <2>3. QED
    BY <1>1, <1>4, <2>1, <2>2
<1>6. b \notin escaped' /\ ~context'[b] => Disowned(b)'
  BY <1>1, <1>2 DEF Remove, RemoveBundleResources, Put, TypeOK, BundleInv, Disowned
<1>7. QED
  BY <1>2, <1>3, <1>4, <1>5, <1>6, Advances DEF Kept

LEMMA StoppingKeeps ==
    ASSUME TypeOK, MutexInv, FramesInv, BundlesInv, NEW t \in Threads, Stopping(t) PROVE Kept
<1>1. stack[t] # <<>> /\ Top(t).pc = "stopping" /\ Top(t).pc \in HeldPCs
  BY DEF Stopping, At, HeldPCs, UserPCs, Others
<1>2. PICK b \in Bundles, e \in {Top(t).err} : /\ b = B(t) /\ mutex[b] = {t}
                                         /\ Knows(b, Top(t).pc, e) /\ BundleInv(b) /\ Exclusive(t)
  BY <1>1, HeldAt
<1>3. Only(b) /\ mutex'[b] = {t}
  BY <1>2 DEF Stopping, Only, owned, history
<1>4. PICK l \in {"activatorStop", "remove"} :
          /\ Goto(t, l) /\ l \in HeldPCs
          /\ ~ Top(t).err /\ bactivator[B(t)] => l = "activatorStop"
  BY DEF Stopping, HeldPCs, UserPCs, Others
<1>5. Knows(b, l, e)'
  <2>1. b \notin escaped => bactivator[b] /\ ~ e
    BY <1>1, <1>2 DEF Knows
  <2>2. b \notin escaped => l = "activatorStop"
    BY <1>2, <1>4, <2>1
  <2>3. QED
    BY <1>1, <1>2, <2>1, <2>2 DEF Stopping, owned, history, Knows, Deactivating
<1>6. b \notin escaped' /\ ~context'[b] => Disowned(b)'
  BY <1>2 DEF Stopping, owned, history, BundleInv, Disowned
<1>7. QED
  BY <1>2, <1>3, <1>4, <1>5, <1>6, Advances DEF Kept

LEMMA StoppedKeeps ==
    ASSUME TypeOK, MutexInv, FramesInv, BundlesInv, NEW t \in Threads, Stopped(t) PROVE Kept
<1>1. stack[t] # <<>> /\ Top(t).pc = "stopped" /\ Top(t).pc \in HeldPCs
  BY DEF Stopped, At, HeldPCs, UserPCs, Others
<1>2. PICK b \in Bundles, e \in {Top(t).err} : /\ b = B(t) /\ mutex[b] = {t}
                                         /\ Knows(b, Top(t).pc, e) /\ BundleInv(b) /\ Exclusive(t)
  BY <1>1, HeldAt
<1>3. Only(b)
  BY <1>2 DEF Stopped, Leave, Unlock, Put, TypeOK, Only, owned, history
<1>4. CASE operation' = Put(operation, B(t), "IDLE") /\ Leave(t)
  <2>1. BundleInv(b)'
    BY <1>1, <1>2, <1>4 DEF Stopped, Leave, Unlock, Put, TypeOK, owned, history, Knows, Resolving,
       BundleInv, Settled, Disowned
  <2>2. QED
    BY <1>2, <1>3, <1>4, <2>1, Ends DEF Leave, Kept
<1>5. CASE Goto(t, "dispose") /\ UNCHANGED mutex
  <2>1. Knows(b, "dispose", e)'
    BY <1>1, <1>2 DEF Stopped, owned, history, Knows, Resolving
  <2>2. b \notin escaped' /\ ~context'[b] => Disowned(b)'
    BY <1>2 DEF Stopped, owned, history, BundleInv, Disowned
  <2>3. "dispose" \in HeldPCs /\ mutex'[b] = {t}
    BY <1>2, <1>5 DEF HeldPCs, UserPCs, Others
  <2>4. QED
    BY <1>2, <1>3, <1>5, <2>1, <2>2, <2>3, Advances DEF Kept
<1>6. QED
  BY <1>4, <1>5 DEF Stopped

\* The call goes on without the mutex.
LEMMA UnresolvedKeeps ==
    ASSUME TypeOK, MutexInv, FramesInv, BundlesInv, NEW t \in Threads, Unresolved(t) PROVE Kept
<1>1. stack[t] # <<>> /\ Top(t).pc = "unresolved" /\ Top(t).pc \in HeldPCs
  BY DEF Unresolved, At, HeldPCs, UserPCs, Others
<1>2. PICK b \in Bundles, e \in {Top(t).err} : /\ b = B(t) /\ mutex[b] = {t}
                                         /\ Knows(b, Top(t).pc, e) /\ BundleInv(b) /\ Exclusive(t)
  BY <1>1, HeldAt
<1>3. Only(b)
  BY <1>2 DEF Unresolved, Unlock, Put, TypeOK, Only, owned, history
<1>4. StackOK /\ Top(t) \in Frames /\ "uninstalled" \in PCs /\ Goto(t, "uninstalled")
  BY <1>1, TopOK DEF TypeOK, StackOK, PCs, UserPCs, Unresolved
<1>5. PICK f \in Frames : Becomes(t, f) /\ f = [Top(t) EXCEPT !.pc = "uninstalled"] /\ StackOK'
  BY <1>1, <1>4, GotoStack
<1>6. f.b = b /\ f.pc \notin HeldPCs
  BY <1>2, <1>4, <1>5 DEF Frames, B, HeldPCs, Others
<1>7. FrameInv(Top(t))'
  BY <1>5, <1>6 DEF Becomes, Top, FrameInv
<1>8. BundleInv(b)'
  BY <1>1, <1>2 DEF Unresolved, Unlock, Put, TypeOK, owned, history, Knows, BundleInv, Settled, Disowned
<1>9. QED
  BY <1>2, <1>3, <1>5, <1>6, <1>7, <1>8, GoesOn DEF Kept

\* A call that finds the bundle's state wrong returns before it takes the mutex.
LEMMA RefusalKeeps ==
    ASSUME TypeOK, MutexInv, FramesInv, BundlesInv, NEW t \in Threads, stack[t] # <<>>, mutex[B(t)] = {}, Pop(t),
           UNCHANGED <<state, operation, context, bactivator, installed, mutex, owned, running, cleaned, escaped, rejected>>
    PROVE  Kept
<1>1. PICK b \in Bundles, e \in {Top(t).err} : b = B(t) /\ mutex[b] = {} /\ BundleInv(b) /\ Exclusive(t)
  BY FreeAt
<1>2. Only(b) /\ BundleInv(b)'
  BY <1>1 DEF Only, owned, BundleInv, Settled, Disowned
<1>3. QED
  BY <1>1, <1>2, Ends DEF Kept

LEMMA StartKeeps ==
    ASSUME TypeOK, MutexInv, FramesInv, BundlesInv, NEW t \in Threads, Start(t) PROVE Kept
<1>1. stack[t] # <<>> /\ mutex[B(t)] = {}
  BY DEF Start, At
<1>2. PICK b \in Bundles, e \in {Top(t).err} : b = B(t) /\ mutex[b] = {} /\ BundleInv(b) /\ Exclusive(t)
  BY <1>1, FreeAt
<1>3. b \notin escaped => Settled(b) /\ (~context[b] => Disowned(b))
  BY <1>2 DEF BundleInv
<1>4. CASE Pop(t) /\ UNCHANGED <<state, operation, context, mutex, cleaned, rejected>>
  BY <1>1, <1>4, RefusalKeeps DEF Start
<1>5. CASE /\ state[b] = "INSTALLED"
           /\ state' = Put(state, b, "RESOLVED") /\ operation' = Put(operation, b, "RESOLVING")
           /\ mutex' = Put(mutex, b, {t}) /\ Goto(t, "resolved")
           /\ UNCHANGED <<context, cleaned, rejected>>
  <2>1. Only(b) /\ mutex'[b] = {t} /\ "resolved" \in HeldPCs
    BY <1>5 DEF Start, Put, TypeOK, Only, owned, HeldPCs, UserPCs
  <2>2. Knows(b, "resolved", e)'
    BY <1>3, <1>5 DEF Start, Put, TypeOK, Settled, Knows, Resolving
  <2>3. b \notin escaped' /\ ~context'[b] => Disowned(b)'
    BY <1>3, <1>5 DEF Start, owned, Disowned
  <2>4. QED
    BY <1>2, <1>5, <2>1, <2>2, <2>3, Advances DEF Kept
<1>6. CASE /\ \/ state[b] = "RESOLVED"
              \/ state[b] = "STARTING" /\ operation[b] # "ACTIVATING"
           /\ Activate(t) /\ mutex' = Put(mutex, b, {t})
  <2>1. Only(b) /\ mutex'[b] = {t} /\ "starting" \in HeldPCs /\ Goto(t, "starting")
    BY <1>2, <1>6 DEF Start, Activate, Put, TypeOK, Only, owned, HeldPCs, UserPCs
  <2>2. Knows(b, "starting", e)'
    BY <1>2, <1>3, <1>6 DEF Start, Activate, Put, TypeOK, Settled, Knows, Activating
  <2>3. b \notin escaped' /\ ~context'[b] => Disowned(b)'
    BY <1>2, <1>6 DEF Activate, Put, TypeOK
  <2>4. QED
    BY <1>2, <2>1, <2>2, <2>3, Advances DEF Kept
<1>7. QED
  BY <1>2, <1>4, <1>5, <1>6 DEF Start

LEMMA Stop0Keeps ==
    ASSUME TypeOK, MutexInv, FramesInv, BundlesInv, NEW t \in Threads, stack[t] # <<>>, mutex[B(t)] = {},
           state[B(t)] \in {"ACTIVE", "STARTING"}, Stop0(t),
           UNCHANGED <<context, bactivator, installed, owned, history>>
    PROVE  Kept
<1>1. PICK b \in Bundles, e \in {Top(t).err} : b = B(t) /\ mutex[b] = {} /\ BundleInv(b) /\ Exclusive(t)
  BY FreeAt
<1>2. StackOK /\ Top(t) \in Frames
  BY TopOK DEF TypeOK, StackOK
<1>3. PICK f : f = [Top(t) EXCEPT !.pc = "stopping", !.err = state[B(t)] # "ACTIVE"]
  OBVIOUS
<1>4. /\ f \in Frames /\ f.b = b /\ f.pc = "stopping"
      /\ state[b] = "ACTIVE" => f.err = FALSE
  BY <1>1, <1>2, <1>3 DEF Frames, B, UserPCs
<1>5. Becomes(t, f) /\ StackOK'
  BY <1>2, <1>3, <1>4, Replace DEF Stop0, Top
<1>6. Only(b) /\ mutex'[b] = {t} /\ f.pc \in HeldPCs
  BY <1>1, <1>4 DEF Stop0, Put, TypeOK, Only, owned, history, HeldPCs, UserPCs
<1>7. Knows(b, f.pc, f.err)'
  BY <1>1, <1>4 DEF Stop0, Put, TypeOK, BundleInv, Settled, history, Knows, Deactivating
<1>8. b \notin escaped' /\ ~context'[b] => Disowned(b)'
  BY <1>1 DEF BundleInv, owned, history, Disowned
<1>9. QED
  BY <1>1, <1>4, <1>5, <1>6, <1>7, <1>8, Proceeds DEF Kept

LEMMA StopKeeps ==
    ASSUME TypeOK, MutexInv, FramesInv, BundlesInv, NEW t \in Threads, Stop(t) PROVE Kept
<1>1. stack[t] # <<>> /\ mutex[B(t)] = {}
  BY DEF Stop, At
<1>2. CASE state[B(t)] \in {"ACTIVE", "STARTING"} /\ Stop0(t)
  BY <1>1, <1>2, Stop0Keeps DEF Stop
<1>3. CASE Pop(t) /\ UNCHANGED <<state, operation, mutex>>
  BY <1>1, <1>3, RefusalKeeps DEF Stop, history
<1>4. QED
  BY <1>2, <1>3 DEF Stop

LEMMA UninstallKeeps ==
    ASSUME TypeOK, MutexInv, FramesInv, BundlesInv, NEW t \in Threads, Uninstall(t) PROVE Kept
<1>1. stack[t] # <<>> /\ mutex[B(t)] = {}
  BY DEF Uninstall, At
<1>2. CASE state[B(t)] \in {"ACTIVE", "STARTING"} /\ Stop0(t)
  BY <1>1, <1>2, Stop0Keeps DEF Uninstall
<1>3. CASE Pop(t) /\ UNCHANGED <<state, operation, mutex>>
  BY <1>1, <1>3, RefusalKeeps DEF Uninstall, history
<1>4. CASE /\ state[B(t)] \in {"INSTALLED", "RESOLVED", "STOPPING"}
           /\ operation' = Put(operation, B(t), "UNINSTALLING")
           /\ mutex' = Put(mutex, B(t), {t})
           /\ Goto(t, "dispose") /\ UNCHANGED state
  <2>1. PICK b \in Bundles, e \in {Top(t).err} : b = B(t) /\ mutex[b] = {} /\ BundleInv(b) /\ Exclusive(t)
    BY <1>1, FreeAt
  <2>2. Only(b) /\ mutex'[b] = {t} /\ "dispose" \in HeldPCs
    BY <1>4, <2>1 DEF Uninstall, Put, TypeOK, Only, owned, history, HeldPCs, Others
  <2>3. Knows(b, "dispose", e)'
    BY <1>4, <2>1 DEF Uninstall, history, BundleInv, Settled, Knows
  <2>4. b \notin escaped' /\ ~context'[b] => Disowned(b)'
    BY <2>1 DEF Uninstall, owned, history, BundleInv, Disowned
  <2>5. QED
    BY <1>4, <2>1, <2>2, <2>3, <2>4, Advances DEF Kept
<1>5. QED
  BY <1>2, <1>3, <1>4 DEF Uninstall

\* An exception marks the bundle, so that only the mutex matters.
LEMMA EscapesKeeps ==
    ASSUME TypeOK, MutexInv, FramesInv, BundlesInv, NEW t \in Threads, Escapes(t) PROVE Kept
<1>1. stack[t] # <<>> /\ Top(t).pc \in HeldPCs
  BY DEF Escapes, HeldPCs, UserPCs, Others
<1>2. PICK b \in Bundles, e \in {Top(t).err} : /\ b = B(t) /\ mutex[b] = {t}
                                         /\ Knows(b, Top(t).pc, e) /\ BundleInv(b) /\ Exclusive(t)
  BY <1>1, HeldAt
<1>3. Only(b) /\ b \in escaped'
  BY <1>2 DEF Escapes, Leave, Unlock, Put, TypeOK, Only, owned
<1>4. CASE Goto(t, "dispose") /\ UNCHANGED mutex
  <2>1. mutex'[b] = {t} /\ "dispose" \in HeldPCs /\ Knows(b, "dispose", e)'
    BY <1>2, <1>3, <1>4 DEF Knows, HeldPCs, Others
  <2>2. QED
    BY <1>2, <1>3, <1>4, <2>1, Advances DEF Kept
<1>5. CASE Leave(t)
  <2>1. BundleInv(b)'
    BY <1>3 DEF BundleInv
  <2>2. QED
    BY <1>2, <1>3, <1>5, <2>1, Ends DEF Leave, Kept
<1>6. QED
  BY <1>4, <1>5 DEF Escapes

\* What the calls and the bundles are known by, but for the stacks.
bundleVars == <<state, operation, context, bactivator, installed, mutex, owned, running, cleaned, escaped, rejected>>

\* A call that holds nothing comes or goes.
LEMMA Unheld ==
    ASSUME TypeOK, MutexInv, FramesInv, BundlesInv, UNCHANGED bundleVars, StackOK',
           \A u \in Threads : \A n \in Pos(u)' :
               Holds(u, n)' => n \in Pos(u) /\ stack'[u][n] = stack[u][n]
    PROVE  Kept
<1>1. MutexInv'
  BY DEF MutexInv, Holds, bundleVars
<1>2. FramesInv'
  <2> SUFFICES ASSUME NEW u \in Threads, NEW n \in Pos(u)', Holds(u, n)' PROVE FrameInv(stack[u][n])'
    BY DEF FramesInv, FrameInv, Holds
  <2>1. n \in Pos(u) /\ stack'[u][n] = stack[u][n] /\ FrameInv(stack[u][n])
    BY DEF FramesInv
  <2>2. QED
    BY <2>1 DEF FrameInv, Knows, Resolving, Activating, Deactivating, Refused, Emptied, bundleVars, owned
<1>3. BundlesInv'
  BY DEF BundlesInv, BundleInv, Settled, Disowned, bundleVars, owned
<1>4. QED
  BY <1>1, <1>2, <1>3 DEF Kept

LEMMA UninstalledKeeps ==
    ASSUME TypeOK, MutexInv, FramesInv, BundlesInv, NEW t \in Threads, Uninstalled(t) PROVE Kept
<1>1. StackOK /\ stack[t] # <<>> /\ UNCHANGED bundleVars
  BY DEF TypeOK, StackOK, Uninstalled, At, bundleVars, history
<1>2. StackOK' /\ Returns(t) /\ Len(stack[t]) \in Nat \ {0}
  BY <1>1, PopStack, TopOK DEF Uninstalled
<1>3. \A u \in Threads : \A n \in Pos(u)' : n \in Pos(u) /\ stack'[u][n] = stack[u][n]
  <2>1. \A n \in Pos(t)' : n \in Pos(t) /\ stack'[t][n] = stack[t][n]
    BY <1>2 DEF Returns, Pos
  <2>2. \A u \in Threads \ {t} : \A n \in Pos(u)' : n \in Pos(u) /\ stack'[u][n] = stack[u][n]
    BY <1>2 DEF Returns, Pos
  <2>3. QED
    BY <2>1, <2>2
<1>4. QED
  BY <1>1, <1>2, <1>3, Unheld

LEMMA BeginKeeps ==
    ASSUME TypeOK, MutexInv, FramesInv, BundlesInv, NEW t \in Threads, NEW call \in Calls, NEW b \in Bundles,
           Begin(t, call, b)
    PROVE  Kept
<1> DEFINE f == [b |-> b, call |-> call, pc |-> call, err |-> FALSE]
           s == Append(stack[t], f)
<1>1. UNCHANGED bundleVars /\ StackOK
  BY DEF Begin, bundleVars, history, TypeOK, StackOK
<1>2. f \in Frames /\ f.pc = call /\ call \notin HeldPCs
  BY DEF Frames, HeldPCs, UserPCs, Others, Calls
<1>3. stack[t] \in Seq(Frames) /\ Len(stack[t]) \in Nat
  BY <1>1 DEF StackOK
<1>4. /\ s \in Seq(Frames) /\ Len(s) = Len(stack[t]) + 1 /\ s[Len(s)] = f
      /\ \A n \in 1 .. Len(stack[t]) : s[n] = stack[t][n]
  BY <1>2, <1>3
<1>5. stack'[t] = s /\ \A u \in Threads \ {t} : stack'[u] = stack[u]
  BY <1>1 DEF Begin, StackOK
<1>6. StackOK'
  <2>1. Len(s) <= MaxDepth
    BY <1>3, <1>4, LifecycleAssumption DEF Begin
  <2>2. stack' \in [Threads -> Seq(Frames)]
    BY <1>1, <1>4 DEF Begin, StackOK
  <2>3. QED
    BY <1>1, <1>5, <2>1, <2>2 DEF StackOK
<1>7. ASSUME NEW u \in Threads, NEW n \in Pos(u)', Holds(u, n)'
      PROVE  n \in Pos(u) /\ stack'[u][n] = stack[u][n]
  <2>1. CASE u # t
    BY <1>5, <1>7, <2>1 DEF Pos
  <2>2. CASE u = t /\ n = Len(s)
    BY <1>2, <1>4, <1>5, <1>7, <2>2 DEF Holds
  <2>3. CASE u = t /\ n # Len(s)
    <3>1. n \in 1 .. Len(stack[t])
      BY <1>3, <1>4, <1>5, <1>7, <2>3 DEF Pos
    <3>2. QED
      BY <1>4, <1>5, <2>3, <3>1 DEF Pos
  <2>4. QED
    BY <2>1, <2>2, <2>3
<1>8. QED
  BY <1>1, <1>6, <1>7, Unheld

\* A service that is registered changes what is known of no call: one that is late is not counted.
LEMMA RegisterKeeps ==
    ASSUME TypeOK, MutexInv, FramesInv, BundlesInv, NEW b \in Bundles, RegisterService(b) \/ RegisterServiceEnd(b)
    PROVE  Kept
<1>1. /\ UNCHANGED <<state, operation, context, bactivator, installed, mutex, stack, running, cleaned, escaped, rejected>>
      /\ \A c \in cleaned : services'[c] = services[c]
  BY DEF RegisterService, RegisterServiceEnd, history, TypeOK
<1>2. StackOK' /\ MutexInv'
  BY <1>1 DEF TypeOK, StackOK, MutexInv, Pos, Holds
<1>3. FramesInv'
  <2> SUFFICES ASSUME NEW u \in Threads, NEW n \in Pos(u) PROVE FrameInv(stack[u][n])'
    BY <1>1 DEF FramesInv, Pos
  <2>1. FrameInv(stack[u][n])
    BY DEF FramesInv
  <2>2. QED
    BY <1>1, <2>1 DEF FrameInv, Knows, Resolving, Activating, Deactivating, Refused, Emptied
<1>4. BundlesInv'
  <2>1. ASSUME NEW c \in Bundles PROVE BundleInv(c)'
    <3>1. BundleInv(c)
      BY DEF BundlesInv
    <3>2. CASE RegisterService(b)
      BY <1>1, <3>1, <3>2 DEF RegisterService, BundleInv, Settled, Disowned
    <3>3. CASE RegisterServiceEnd(b)
      BY <1>1, <3>1, <3>3 DEF RegisterServiceEnd, TypeOK, BundleInv, Settled, Disowned
    <3>4. QED
      BY <3>2, <3>3
  <2>2. QED
    BY <2>1 DEF BundlesInv
<1>5. QED
  BY <1>2, <1>3, <1>4 DEF Kept

\* User code throws, in one way or another.
Throws(t) == \/ ValidationRefuses(t) \/ ValidationThrows(t) \/ ActivatorStartThrows(t)
             \/ StartedRefused(t) \/ Escapes(t)

\* Every step.
LEMMA KeptStep ==
    ASSUME TypeOK, MutexInv, FramesInv, BundlesInv, [Next]_vars PROVE Kept
<1>1. ASSUME NEW t \in Threads, Step(t) PROVE Kept
  BY <1>1, StartKeeps, ResolvedKeeps, StartingKeeps, ValidatedKeeps, ActivatorStartKeeps, StartedKeeps, FailStoppingKeeps,
     FailInvalidateKeeps, FailStoppedKeeps, RemoveKeeps, StopKeeps, StoppingKeeps, ActivatorStopKeeps,
     InvalidateKeeps, StoppedKeeps, UninstallKeeps, DisposeKeeps, UnresolvedKeeps, UninstalledKeeps DEF Step
<1>2. ASSUME NEW t \in Threads, Throws(t) PROVE Kept
  BY <1>2, ValidationRefusesKeeps, ValidationThrowsKeeps, ActivatorStartThrowsKeeps, StartedRefusedKeeps,
     EscapesKeeps DEF Throws
<1>3. CASE UNCHANGED vars
  <2>1. UNCHANGED bundleVars /\ stack' = stack
    BY <1>3 DEF vars, bundleVars, owned
  <2>2. StackOK' /\ \A u \in Threads : Pos(u)' = Pos(u)
    BY <2>1 DEF TypeOK, StackOK, Pos
  <2>3. QED
    BY <2>1, <2>2, Unheld
<1>4. QED
  BY <1>1, <1>2, <1>3, BeginKeeps, RegisterKeeps DEF Next, Throws

-----------------------------------------------------------------------------
(* Types. *)

ValuesOK == /\ state \in [Bundles -> States] /\ operation \in [Bundles -> Ops]
            /\ context \in [Bundles -> BOOLEAN] /\ bactivator \in [Bundles -> BOOLEAN]
            /\ mutex \in [Bundles -> {{}} \cup {{t} : t \in Threads}]
SetsOK   == /\ installed \subseteq Bundles /\ registering \subseteq Bundles
            /\ running \subseteq Bundles /\ cleaned \subseteq Bundles /\ escaped \subseteq Bundles
            /\ rejected \subseteq Bundles
CountsOK == /\ services \in [Bundles -> 0 .. MaxServices] /\ late \in [Bundles -> 0 .. MaxServices]
            /\ budget \in [calls : 0 .. MaxCalls, throws : 0 .. MaxThrows, services : 0 .. MaxServices]

LEMMA TypeParts == TypeOK <=> ValuesOK /\ SetsOK /\ CountsOK /\ StackOK
  BY DEF TypeOK, ValuesOK, SetsOK, CountsOK, StackOK

\* The bundle of a call in progress.
LEMMA BundleOf == ASSUME TypeOK, NEW t \in Threads, stack[t] # <<>> PROVE B(t) \in Bundles
  BY TopOK DEF TypeOK, StackOK

LEMMA ValuesStep == ASSUME TypeOK, [Next]_vars PROVE ValuesOK'
<1> USE DEF ValuesOK, Put, States, Ops
<1>0. ValuesOK
  BY TypeParts
<1>1. ASSUME NEW t \in Threads, Step(t) PROVE ValuesOK'
  <2>1. CASE Start(t)
    <3>1. /\ mutex' = mutex \/ mutex' = [mutex EXCEPT ![B(t)] = {t}]
          /\ bactivator' = bactivator
          /\ context' = context \/ context' = [context EXCEPT ![B(t)] = TRUE]
          /\ \/ state' = state
             \/ \E v \in {"RESOLVED", "STARTING"} : state' = [state EXCEPT ![B(t)] = v]
          /\ \/ operation' = operation
             \/ \E v \in {"RESOLVING", "ACTIVATING"} : operation' = [operation EXCEPT ![B(t)] = v]
      BY <2>1 DEF Start, Activate
    <3>2. mutex' \in [Bundles -> {{}} \cup {{u} : u \in Threads}]
      BY <1>0, <3>1
    <3>3. context' \in [Bundles -> BOOLEAN] /\ bactivator' \in [Bundles -> BOOLEAN]
      BY <1>0, <3>1
    <3>4. state' \in [Bundles -> States]
      BY <1>0, <3>1
    <3>5. operation' \in [Bundles -> Ops]
      BY <1>0, <3>1
    <3>6. QED
      BY <3>2, <3>3, <3>4, <3>5
  <2>2. CASE Resolved(t) \/ Starting(t) \/ Validated(t) \/ ActivatorStart(t)
    BY <1>0, <2>2 DEF Resolved, Activate, Starting, Validated, ActivatorStart
  <2>3. CASE Started(t) \/ FailStopping(t) \/ FailInvalidate(t) \/ FailStopped(t)
    BY <1>0, <2>3 DEF Started, FailStopping, FailInvalidate, FailStopped, Leave, Unlock
  <2>4. CASE Remove(t) \/ Stopping(t) \/ ActivatorStop(t) \/ Invalidate(t)
    BY <1>0, <2>4 DEF Remove, Stopping, ActivatorStop, Invalidate
  <2>5. CASE Stop(t) \/ Stopped(t)
    BY <1>0, <2>5 DEF Stop, Stop0, Stopped, Leave, Unlock
  <2>6. CASE Uninstall(t)
    BY <1>0, <2>6 DEF Uninstall, Stop0
  <2>7. CASE Dispose(t) \/ Unresolved(t) \/ Uninstalled(t)
    BY <1>0, <2>7 DEF Dispose, Unresolved, Uninstalled, Unlock
  <2>8. QED
    BY <1>1, <2>1, <2>2, <2>3, <2>4, <2>5, <2>6, <2>7 DEF Step
<1>2. ASSUME NEW t \in Threads, Throws(t) PROVE ValuesOK'
  BY <1>0, <1>2 DEF Throws, ValidationRefuses, ValidationThrows, ActivatorStartThrows, StartedRefused, StartFailed, Escapes, Leave, Unlock
<1>3. ASSUME NEW t \in Threads, NEW call \in Calls, NEW b \in Bundles, Begin(t, call, b) PROVE ValuesOK'
  BY <1>0, <1>3 DEF Begin
<1>4. ASSUME NEW b \in Bundles, RegisterService(b) \/ RegisterServiceEnd(b) PROVE ValuesOK'
  BY <1>0, <1>4 DEF RegisterService, RegisterServiceEnd
<1>5. CASE UNCHANGED vars
  BY <1>0, <1>5 DEF vars
<1>6. QED
  BY <1>1, <1>2, <1>3, <1>4, <1>5 DEF Next, Throws

LEMMA SetsStep == ASSUME TypeOK, [Next]_vars PROVE SetsOK'
<1> USE DEF SetsOK, owned, history
<1>0. SetsOK
  BY TypeParts
<1>1. ASSUME NEW t \in Threads, Step(t) PROVE SetsOK'
  <2>1. stack[t] # <<>> /\ B(t) \in Bundles
    <3>1. stack[t] # <<>>
      BY <1>1 DEF Step, At, Start, Resolved, Starting, Validated, ActivatorStart, Started, FailStopping, FailInvalidate,
         FailStopped, Remove, Stop, Stopping, ActivatorStop, Invalidate, Stopped, Uninstall, Dispose,
         Unresolved, Uninstalled
    <3>2. QED
      BY <3>1, BundleOf
  <2>2. CASE Start(t) \/ Resolved(t) \/ Starting(t) \/ Validated(t) \/ ActivatorStart(t)
    <3>1. CASE Start(t)
      BY <1>0, <3>1 DEF Start, Activate
    <3>2. CASE Resolved(t)
      BY <1>0, <3>2 DEF Resolved, Activate
    <3>3. CASE Starting(t)
      BY <1>0, <3>3 DEF Starting
    <3>4. CASE Validated(t)
      BY <1>0, <3>4 DEF Validated
    <3>5. CASE ActivatorStart(t)
      BY <1>0, <2>1, <3>5 DEF ActivatorStart
    <3>6. QED
      BY <2>2, <3>1, <3>2, <3>3, <3>4, <3>5
  <2>3. CASE Started(t) \/ FailStopping(t) \/ FailInvalidate(t) \/ FailStopped(t)
    BY <1>0, <2>3 DEF Started, FailStopping, FailInvalidate, FailStopped
  <2>4. CASE Remove(t) \/ Stopping(t) \/ ActivatorStop(t) \/ Invalidate(t)
    BY <1>0, <2>1, <2>4 DEF Remove, RemoveBundleResources, Stopping, ActivatorStop, Invalidate
  <2>5. CASE Stop(t) \/ Stopped(t) \/ Uninstall(t)
    BY <1>0, <2>5 DEF Stop, Stopped, Uninstall
  <2>6. CASE Dispose(t) \/ Unresolved(t) \/ Uninstalled(t)
    BY <1>0, <2>6 DEF Dispose, Unresolved, Uninstalled
  <2>7. QED
    BY <1>1, <2>2, <2>3, <2>4, <2>5, <2>6 DEF Step
<1>2. ASSUME NEW t \in Threads, Throws(t) PROVE SetsOK'
  <2>1. B(t) \in Bundles
    BY <1>2, BundleOf DEF Throws, ValidationRefuses, ValidationThrows, ActivatorStartThrows, StartedRefused, Escapes, At
  <2>2. QED
    BY <1>0, <1>2, <2>1 DEF Throws, ValidationRefuses, ValidationThrows, ActivatorStartThrows, StartedRefused, Escapes
<1>3. ASSUME NEW t \in Threads, NEW call \in Calls, NEW b \in Bundles, Begin(t, call, b) PROVE SetsOK'
  BY <1>0, <1>3 DEF Begin
<1>4. ASSUME NEW b \in Bundles, RegisterService(b) \/ RegisterServiceEnd(b) PROVE SetsOK'
  BY <1>0, <1>4 DEF RegisterService, RegisterServiceEnd
<1>5. CASE UNCHANGED vars
  BY <1>0, <1>5 DEF vars
<1>6. QED
  BY <1>1, <1>2, <1>3, <1>4, <1>5 DEF Next, Throws

\* Steps other than registrations and the removal of resources only lower what is left to spend.
LEMMA Spending ==
    ASSUME CountsOK, ServicesPaid, UNCHANGED <<owned, late>>,
           budget' = budget \/ (\E k \in {"calls", "throws"} : Spend(k))
    PROVE  CountsOK' /\ ServicesPaid'
<1>1. budget' \in [calls : 0 .. MaxCalls, throws : 0 .. MaxThrows, services : 0 .. MaxServices]
  BY LifecycleAssumption DEF CountsOK, Spend
<1>2. budget'.services = budget.services
  BY DEF CountsOK, Spend
<1>3. QED
  BY <1>1, <1>2 DEF CountsOK, ServicesPaid, Paid, owned

LEMMA CountsStep == ASSUME TypeOK, ServicesPaid, [Next]_vars PROVE CountsOK' /\ ServicesPaid'
<1> USE LifecycleAssumption
<1>0. CountsOK
  BY TypeParts
<1>1. ASSUME NEW t \in Threads, Step(t), ~ Remove(t) PROVE UNCHANGED <<owned, late, budget>>
  BY <1>1 DEF Step, Start, Resolved, Starting, Validated, ActivatorStart, Started, FailStopping, FailInvalidate,
     FailStopped, Stop, Stopping, ActivatorStop, Invalidate, Stopped, Uninstall, Dispose, Unresolved,
     Uninstalled, history
<1>2. ASSUME NEW t \in Threads, Remove(t) PROVE CountsOK' /\ ServicesPaid'
  <2>1. /\ services' = [services EXCEPT ![B(t)] = 0] /\ late' = [late EXCEPT ![B(t)] = 0]
        /\ UNCHANGED <<registering, budget>>
    BY <1>2 DEF Remove, RemoveBundleResources, Put
  <2>2. CountsOK'
    <3>1. 0 \in 0 .. MaxServices
      OBVIOUS
    <3>2. QED
      BY <1>0, <2>1, <3>1 DEF CountsOK
  <2>3. ASSUME NEW c \in Bundles PROVE Paid(c)'
    <3>1. Paid(c) /\ services[c] \in Nat /\ late[c] \in Nat /\ budget.services \in Nat
      BY <1>0 DEF ServicesPaid, CountsOK
    <3>2. services'[c] \in {0, services[c]} /\ late'[c] \in {0, late[c]}
      BY <1>0, <2>1 DEF CountsOK
    <3>3. QED
      BY <2>1, <3>1, <3>2 DEF Paid
  <2>4. QED
    BY <2>2, <2>3 DEF ServicesPaid
<1>3. ASSUME NEW t \in Threads, Throws(t)
      PROVE  UNCHANGED <<owned, late>> /\ Spend("throws")
  BY <1>3 DEF Throws, ValidationRefuses, ValidationThrows, ActivatorStartThrows, StartedRefused, Escapes, history
<1>4. ASSUME NEW t \in Threads, NEW call \in Calls, NEW b \in Bundles, Begin(t, call, b)
      PROVE  UNCHANGED <<owned, late>> /\ Spend("calls")
  BY <1>4 DEF Begin, history
<1>5. ASSUME NEW b \in Bundles, RegisterService(b) PROVE CountsOK' /\ ServicesPaid'
  <2>1. /\ UNCHANGED <<services, late>> /\ b \notin registering /\ registering' = registering \cup {b}
        /\ budget.services > 0 /\ budget' = [budget EXCEPT !.services = @ - 1]
    BY <1>5 DEF RegisterService, Spend, history
  <2>2. CountsOK' /\ budget'.services = budget.services - 1
    BY <1>0, <2>1 DEF CountsOK
  <2>3. ASSUME NEW c \in Bundles PROVE Paid(c)'
    <3>1. Paid(c) /\ services[c] \in Nat /\ late[c] \in Nat /\ budget.services \in Nat
      BY <1>0 DEF ServicesPaid, CountsOK
    <3>2. QED
      BY <2>1, <2>2, <3>1 DEF Paid
  <2>4. QED
    BY <2>2, <2>3 DEF ServicesPaid
<1>6. ASSUME NEW b \in Bundles, RegisterServiceEnd(b) PROVE CountsOK' /\ ServicesPaid'
  <2>1. /\ b \in registering /\ registering' = registering \ {b} /\ UNCHANGED budget
        /\ \/ services' = [services EXCEPT ![b] = @ + 1] /\ UNCHANGED late
           \/ late' = [late EXCEPT ![b] = @ + 1] /\ UNCHANGED services
    BY <1>6 DEF RegisterServiceEnd
  <2>2. /\ services[b] \in Nat /\ late[b] \in Nat /\ budget.services \in Nat
        /\ services[b] + 1 <= MaxServices /\ late[b] + 1 <= MaxServices
    <3>1. services[b] \in Nat /\ late[b] \in Nat /\ budget.services \in Nat
      BY <1>0 DEF CountsOK
    <3>2. services[b] + late[b] + 1 + budget.services <= MaxServices
      BY <2>1 DEF ServicesPaid, Paid
    <3>3. QED
      BY <3>1, <3>2
  <2>3. CountsOK'
    BY <1>0, <2>1, <2>2 DEF CountsOK
  <2>4. ASSUME NEW c \in Bundles PROVE Paid(c)'
    <3>1. Paid(c) /\ services[c] \in Nat /\ late[c] \in Nat /\ budget.services \in Nat
      BY <1>0 DEF ServicesPaid, CountsOK
    <3>2. QED
      BY <1>0, <2>1, <3>1 DEF Paid, CountsOK
  <2>5. QED
    BY <2>3, <2>4 DEF ServicesPaid
<1>7. CASE UNCHANGED vars
  BY <1>0, <1>7, Spending DEF vars, owned
<1>8. QED
  BY <1>0, <1>1, <1>2, <1>3, <1>4, <1>5, <1>6, <1>7, Spending DEF Next, Throws

-----------------------------------------------------------------------------
LEMMA Inductive == Spec => []IInv
<1>1. Init => IInv
  <2> SUFFICES ASSUME Init PROVE IInv
    OBVIOUS
  <2>1. TypeOK
    <3>1. ValuesOK /\ SetsOK
      BY DEF Init, ValuesOK, SetsOK, States, Ops
    <3>2. CountsOK
      BY LifecycleAssumption DEF Init, CountsOK
    <3>3. StackOK
      BY LifecycleAssumption DEF Init, StackOK
    <3>4. QED
      BY <3>1, <3>2, <3>3, TypeParts
  <2>2. ServicesPaid
    BY LifecycleAssumption DEF Init, ServicesPaid, Paid
  <2>3. MutexInv /\ FramesInv
    BY DEF Init, MutexInv, FramesInv, Pos
  <2>4. BundlesInv
    BY DEF Init, BundlesInv, BundleInv, Settled, Disowned
  <2>5. QED
    BY <2>1, <2>2, <2>3, <2>4 DEF IInv
<1>2. IInv /\ [Next]_vars => IInv'
  <2> SUFFICES ASSUME IInv, [Next]_vars PROVE IInv'
    OBVIOUS
  <2>1. Kept
    BY KeptStep DEF IInv
  <2>2. ValuesOK' /\ SetsOK' /\ CountsOK' /\ ServicesPaid'
    BY ValuesStep, SetsStep, CountsStep DEF IInv
  <2>3. TypeOK'
    BY <2>1, <2>2 DEF Kept, TypeOK, ValuesOK, SetsOK, CountsOK, StackOK
  <2>4. QED
    BY <2>1, <2>2, <2>3 DEF Kept, IInv
<1>3. QED
  BY <1>1, <1>2, PTL DEF Spec

\* The types, for any bundles, threads, depth of nested calls and numbers of calls and exceptions:
\* a bundle's mutex has at most one holder, and no more services are registered than were asked for.
THEOREM TypeCorrect == Spec => []TypeOK
<1>1. IInv => TypeOK
  BY DEF IInv
<1>2. QED
  BY <1>1, Inductive, PTL

\* Between calls a bundle is in a settled state, whatever activators, validation functions and
\* listeners do in the middle of Start, Stop and Uninstall, unless an exception of a listener escaped;
\* its operation is idle but after a start whose validation function threw.
THEOREM AlwaysSettledBetweenCalls == Spec => []SettledBetweenCalls
<1>1. IInv => SettledBetweenCalls
  BY DEF IInv, BundlesInv, BundleInv, Settled, SettledBetweenCalls
<1>2. QED
  BY <1>1, Inductive, PTL

\* A bundle whose context was invalidated has none of the services that it had when its resources were
\* removed, on every way out of Start and Stop. Registrations that end later are not counted.
THEOREM StoppedAlwaysOwnsNothing == Spec => []StoppedOwnsNothing
<1>1. IInv => StoppedOwnsNothing
  BY DEF IInv, BundlesInv, BundleInv, Disowned, StoppedOwnsNothing
<1>2. QED
  BY <1>1, Inductive, PTL

\* Between calls an activator is running exactly if its bundle is ACTIVE.
THEOREM ActivatorsAlwaysStopped == Spec => []ActivatorsStopped
<1>1. IInv => ActivatorsStopped
  BY DEF IInv, BundlesInv, BundleInv, Settled, ActivatorsStopped
<1>2. QED
  BY <1>1, Inductive, PTL
=============================================================================
