----------------------- MODULE ServiceRegistryProofs -----------------------
(***************************************************************************)
(* Theorems about ServiceRegistry, for any threads, classes, rankings and  *)
(* numbers of services and calls.                                          *)
(*                                                                         *)
(* The binary search is a recursive function. What it returns is proved by *)
(* induction over the number of elements, with NatSet: the least number    *)
(* principle for sets, which needs no operator as a parameter.             *)
(***************************************************************************)
EXTENDS ServiceRegistry, FiniteSetTheorems, WellFoundedInduction, TLAPS

HoldPCs   == {"regInsert", "setSort"}
FreshPCs  == {"regLock", "regInsert"}
EndPCs    == {"unregEvent", "unregMark", "unregClear"}
UnregPCs  == {"unregRemove", "unregEvent", "unregMark", "unregClear"}
Listed    == ToSet(serviceRegistrations)

\* Thread t is at one of the positions ls with service s.
At(t, ls, s) == pc[t] \in ls /\ svc[t] = s

TypeInv ==
    /\ nextServiceID \in 1 .. MaxServices + 1
    /\ objectclass \in [Services -> SUBSET Classes]
    /\ rank \in [Services -> Ranks]
    /\ available \in [Services -> BOOLEAN] /\ unregistering \in [Services -> BOOLEAN]
    /\ bundle \in [Services -> BOOLEAN]
    /\ serviceRegistrations \in Seq(Services)
    /\ classServices \in [Classes -> Seq(Services)]
    /\ seen \in [Services -> SUBSET Ranks]
    /\ pc \in [Threads -> PCs] /\ svc \in [Threads -> Services] /\ newRank \in [Threads -> Ranks]
    /\ sets \in 0 .. MaxSets
    /\ told \in [Services -> Nat]
    /\ skipped \subseteq Classes
    /\ cleared \subseteq Services

\* The thread that holds the mutex is the one between the two steps of its critical section.
OwnerInv ==
    /\ owner = {t \in Threads : pc[t] \in HoldPCs}
    /\ \A t, u \in owner : t = u

\* A thread at work has a service that exists, and the one that registers it has it alone until
\* it is listed.
ThreadsInv ==
    /\ \A t \in Threads : pc[t] # "idle" => svc[t] < nextServiceID
    /\ \A t, u \in Threads : pc[t] \in FreshPCs /\ svc[u] = svc[t] /\ u # t => pc[u] = "idle"

\* At most one thread is past the flag of a service, and the flag is up for it. The bundle is
\* there until that thread clears it, and so is the service until it is marked. Nobody was told
\* of the end before that thread does it.
UnregInv ==
    /\ \A t \in Threads : pc[t] \in UnregPCs => unregistering[svc[t]]
    /\ \A t, u \in Threads : pc[t] \in UnregPCs /\ At(u, UnregPCs, svc[t]) => t = u
    /\ \A t \in Threads : pc[t] \in {"unregRemove", "unregEvent"} => bundle[svc[t]] /\ told[svc[t]] = 0
    /\ \A t \in Threads : pc[t] = "unregClear" => bundle[svc[t]] /\ ~available[svc[t]]
    /\ \A s \in Services : bundle[s] /\ ~available[s] => \E t \in Threads : At(t, {"unregClear"}, s)
    /\ \A s \in Services : told[s] # 0 => /\ told[s] = 1
                                          /\ bundle[s] => \E t \in Threads :
                                                            At(t, {"unregMark", "unregClear"}, s)

\* A service whose registration has just begun, or has not.
FreshInv ==
    \A s \in Services : (s >= nextServiceID \/ \E t \in Threads : At(t, FreshPCs, s)) =>
        ~unregistering[s] /\ told[s] = 0 /\ s \notin Listed /\ s \notin cleared

NewInv ==
    /\ \A s \in Services : s >= nextServiceID => ~available[s] /\ ~bundle[s]
    /\ \A t \in Threads : pc[t] \in FreshPCs => available[svc[t]] /\ bundle[svc[t]]

\* A listed service has its bundle, and nobody has removed it; one that has its bundle is listed,
\* unless it is about to be or was removed.
ListedInv ==
    /\ IsInjective(serviceRegistrations)
    /\ \A s \in Listed : available[s] /\ bundle[s]
    /\ \A t \in Threads : pc[t] \in EndPCs => svc[t] \notin Listed
    /\ \A s \in Services :
        bundle[s] => \/ s \in Listed \cup cleared
                     \/ \E t \in Threads : At(t, FreshPCs \cup EndPCs, s)

\* The list of a class has listed services of that class only, each once.
ClassInv ==
    \A c \in Classes :
        /\ IsInjective(classServices[c])
        /\ \A s \in ToSet(classServices[c]) : s \in Listed /\ c \in objectclass[s]

\* It has all of them as long as no service the registry was cleared of is unregistered.
ClearedStay == \A s \in cleared : available[s] /\ ~unregistering[s]
CompleteInv ==
    ClearedStay => \A c \in Classes, s \in Listed : c \in objectclass[s] => s \in ToSet(classServices[c])

\* While the mutex is held, a listed service has had one ranking only, or the thread that changed
\* it has yet to wait for the mutex; the service that is being inserted has had one ranking.
SeenInv ==
    \A t \in owner :
        /\ pc[t] = "regInsert" => seen[svc[t]] = {rank[svc[t]]}
        /\ \A s \in Listed : seen[s] = {rank[s]} \/ \E u \in Threads : At(u, {"setLock"}, s)

OrderInv == BestFirstWhenSettled

IInv ==
    /\ TypeInv
    /\ OwnerInv
    /\ ThreadsInv
    /\ UnregInv
    /\ FreshInv
    /\ NewInv
    /\ ListedInv
    /\ ClassInv
    /\ CompleteInv
    /\ SeenInv
    /\ OrderInv
-----------------------------------------------------------------------------
(* Induction. *)

LEMMA NatSet ==
    ASSUME NEW S, 0 \in S, \A n \in Nat : n \in S => n + 1 \in S
    PROVE  Nat \subseteq S
<1> DEFINE T == Nat \ S
           R == OpToRel(<, Nat)
<1> SUFFICES ASSUME T # {} PROVE FALSE
  OBVIOUS
<1>1. IsWellFoundedOn(R, Nat)
  BY NatLessThanWellFounded
<1>2. PICK x \in T : \A y \in T : ~ (<<y, x>> \in R)
  BY <1>1, WFMin
<1>3. \A y \in T : ~ (y < x)
  BY <1>2 DEF OpToRel
<1>4. x - 1 \notin T
  BY <1>3
<1>5. QED
  BY <1>3, <1>4

-----------------------------------------------------------------------------
(* Sequences. *)

LEMMA SubSeqIs ==
    ASSUME NEW S, NEW s \in Seq(S), NEW i \in 1 .. Len(s) + 1, NEW j \in 0 .. Len(s), i <= j + 1
    PROVE  /\ SubSeq(s, i, j) \in Seq(S) /\ Len(SubSeq(s, i, j)) = j - i + 1
           /\ \A k \in 1 .. j - i + 1 : SubSeq(s, i, j)[k] = s[i + k - 1]
OBVIOUS

LEMMA ConcatLen ==
    ASSUME NEW S, NEW p \in Seq(S), NEW q \in Seq(S)
    PROVE  p \o q \in Seq(S) /\ Len(p \o q) = Len(p) + Len(q)
OBVIOUS

LEMMA ConcatAt ==
    ASSUME NEW S, NEW p \in Seq(S), NEW q \in Seq(S), NEW k \in 1 .. Len(p) + Len(q)
    PROVE  (p \o q)[k] = IF k <= Len(p) THEN p[k] ELSE q[k - Len(p)]
OBVIOUS

\* Something between two sequences.
LEMMA SpliceLen ==
    ASSUME NEW S, NEW p \in Seq(S), NEW q \in Seq(S), NEW e \in S
    PROVE  p \o <<e>> \o q \in Seq(S) /\ Len(p \o <<e>> \o q) = Len(p) + Len(q) + 1
<1>1. <<e>> \in Seq(S) /\ Len(<<e>>) = 1
  OBVIOUS
<1>2. p \o <<e>> \in Seq(S) /\ Len(p \o <<e>>) = Len(p) + Len(<<e>>)
  BY <1>1, ConcatLen, Zenon
<1>3. (p \o <<e>>) \o q \in Seq(S) /\ Len((p \o <<e>>) \o q) = Len(p \o <<e>>) + Len(q)
  BY <1>2, ConcatLen, Zenon
<1>4. Len((p \o <<e>>) \o q) = Len(p) + 1 + Len(q)
  BY <1>1, <1>2, <1>3, Zenon
<1>5. Len(p) \in Nat /\ Len(q) \in Nat
  OBVIOUS
<1>6. Len(p) + 1 + Len(q) = Len(p) + Len(q) + 1
  BY <1>5
<1>7. QED
  BY <1>3, <1>4, <1>6, Zenon

LEMMA SpliceAt ==
    ASSUME NEW S, NEW p \in Seq(S), NEW q \in Seq(S), NEW e \in S, NEW k \in 1 .. Len(p) + Len(q) + 1
    PROVE  (p \o <<e>> \o q)[k] = IF k <= Len(p) THEN p[k] ELSE IF k = Len(p) + 1 THEN e
                                 ELSE q[k - Len(p) - 1]
<1>1. <<e>> \in Seq(S) /\ Len(<<e>>) = 1 /\ <<e>>[1] = e /\ Len(p) \in Nat /\ Len(q) \in Nat
  OBVIOUS
<1>2. PICK r \in Seq(S) : r = p \o <<e>> /\ Len(r) = Len(p) + Len(<<e>>)
  BY <1>1, ConcatLen, Zenon
<1>3. Len(r) = Len(p) + 1
  BY <1>1, <1>2, Zenon
<1>4. k \in 1 .. Len(r) + Len(q)
  BY <1>1, <1>3
<1>5. (r \o q)[k] = IF k <= Len(r) THEN r[k] ELSE q[k - Len(r)]
  BY <1>4, ConcatAt, Zenon
<1>6. ASSUME k <= Len(p) + 1
      PROVE  r[k] = IF k <= Len(p) THEN p[k] ELSE <<e>>[k - Len(p)]
  <2>1. k \in 1 .. Len(p) + 1
    BY <1>1, <1>6
  <2>2. k \in 1 .. Len(p) + Len(<<e>>)
    BY <1>1, <2>1, Zenon
  <2>3. QED
    BY <1>1, <1>2, <2>2, ConcatAt, Zenon
<1>7. CASE k <= Len(p)
  <2>1. k <= Len(p) + 1 /\ k <= Len(r)
    BY <1>1, <1>3, <1>7
  <2>2. QED
    BY <1>2, <1>5, <1>6, <1>7, <2>1, Zenon
<1>8. CASE k = Len(p) + 1
  <2>1. k <= Len(p) + 1 /\ k <= Len(r) /\ ~(k <= Len(p)) /\ k - Len(p) = 1
    BY <1>1, <1>3, <1>8
  <2>2. QED
    BY <1>1, <1>2, <1>5, <1>6, <1>8, <2>1, Zenon
<1>9. CASE k > Len(p) + 1
  <2>1. ~(k <= Len(r)) /\ ~(k <= Len(p)) /\ k # Len(p) + 1 /\ k - Len(r) = k - Len(p) - 1
    BY <1>1, <1>3, <1>9
  <2>2. QED
    BY <1>2, <1>5, <2>1, Zenon
<1>10. k <= Len(p) \/ k = Len(p) + 1 \/ k > Len(p) + 1
  BY <1>1
<1>11. QED
  BY <1>7, <1>8, <1>9, <1>10, Zenon

\* z is the list with s as its k-th element.
Placed(z, list, k, s) ==
    /\ Len(z) = Len(list) + 1
    /\ \A i \in 1 .. k - 1 : z[i] = list[i]
    /\ z[k] = s
    /\ \A i \in k + 1 .. Len(list) + 1 : z[i] = list[i - 1]

LEMMA InsertAtIs ==
    ASSUME NEW S, NEW s \in Seq(S), NEW k \in 1 .. Len(s) + 1, NEW e \in S
    PROVE  InsertAt(s, k, e) \in Seq(S) /\ Placed(InsertAt(s, k, e), s, k, e)
<1>0. Len(s) \in Nat /\ k \in Nat
  OBVIOUS
<1>1. PICK p \in Seq(S) : /\ p = SubSeq(s, 1, k - 1) /\ Len(p) = k - 1
                          /\ \A i \in 1 .. k - 1 : p[i] = s[i]
  <2>1. /\ SubSeq(s, 1, k - 1) \in Seq(S) /\ Len(SubSeq(s, 1, k - 1)) = k - 1
        /\ \A i \in 1 .. k - 1 : SubSeq(s, 1, k - 1)[i] = s[i]
    OBVIOUS
  <2>2. QED
    BY <2>1, Zenon
<1>2. PICK q \in Seq(S) : /\ q = SubSeq(s, k, Len(s)) /\ Len(q) = Len(s) - k + 1
                          /\ \A i \in 1 .. Len(s) - k + 1 : q[i] = s[k + i - 1]
  <2>1. Len(s) \in 0 .. Len(s) /\ k <= Len(s) + 1
    BY <1>0
  <2>2. /\ SubSeq(s, k, Len(s)) \in Seq(S) /\ Len(SubSeq(s, k, Len(s))) = Len(s) - k + 1
        /\ \A i \in 1 .. Len(s) - k + 1 : SubSeq(s, k, Len(s))[i] = s[k + i - 1]
    BY <2>1, SubSeqIs, Zenon
  <2>3. QED
    BY <2>2, Zenon
<1>3. PICK z \in Seq(S) : z = p \o <<e>> \o q /\ Len(z) = Len(p) + Len(q) + 1
  BY SpliceLen, Zenon
<1>4. \A i \in 1 .. Len(p) + Len(q) + 1 :
        z[i] = IF i <= Len(p) THEN p[i] ELSE IF i = Len(p) + 1 THEN e ELSE q[i - Len(p) - 1]
  <2>1. ASSUME NEW i \in 1 .. Len(p) + Len(q) + 1
        PROVE  (p \o <<e>> \o q)[i] = IF i <= Len(p) THEN p[i] ELSE IF i = Len(p) + 1 THEN e
                                     ELSE q[i - Len(p) - 1]
    BY SpliceAt
  <2>2. QED
    BY <1>3, <2>1, Zenon
<1>5. InsertAt(s, k, e) = z
  BY <1>1, <1>2, <1>3, Zenon DEF InsertAt
<1>6. Len(p) = k - 1 /\ Len(q) = Len(s) - k + 1
  BY <1>1, <1>2, Zenon
<1>7. Len(z) = Len(s) + 1 /\ Len(p) + Len(q) + 1 = Len(s) + 1
  BY <1>0, <1>3, <1>6
<1>8. \A i \in 1 .. Len(s) + 1 :
        z[i] = IF i <= k - 1 THEN p[i] ELSE IF i = k - 1 + 1 THEN e ELSE q[i - (k - 1) - 1]
  BY <1>4, <1>6, <1>7, Zenon
<1>81. \A i \in 1 .. k - 1 : z[i] = s[i]
  BY <1>0, <1>1, <1>8
<1>82. z[k] = e
  BY <1>0, <1>8
<1>9. ASSUME NEW i \in k + 1 .. Len(s) + 1 PROVE z[i] = s[i - 1]
  <2>1. /\ i - k \in 1 .. Len(s) - k + 1 /\ i - (k - 1) - 1 = i - k /\ k + (i - k) - 1 = i - 1
        /\ i \in 1 .. Len(s) + 1 /\ ~(i <= k - 1) /\ i # k - 1 + 1
    BY <1>0
  <2>2. z[i] = q[i - k] /\ q[i - k] = s[k + (i - k) - 1]
    BY <1>2, <1>8, <2>1, Zenon
  <2>3. QED
    BY <2>1, <2>2, Zenon
<1>10. Placed(z, s, k, e)
  BY <1>7, <1>81, <1>82, <1>9, Zenon DEF Placed
<1>11. QED
  BY <1>3, <1>5, <1>10, Zenon

LEMMA RemoveFirstIs ==
    ASSUME NEW S, NEW s \in Seq(S), IsInjective(s), NEW e
    PROVE  \/ (\A i \in 1 .. Len(s) : s[i] # e) /\ RemoveFirst(s, e) = s
           \/ \E k \in 1 .. Len(s) :
                /\ s[k] = e
                /\ RemoveFirst(s, e) \in Seq(S) /\ Len(RemoveFirst(s, e)) = Len(s) - 1
                /\ \A i \in 1 .. Len(s) - 1 : RemoveFirst(s, e)[i] = IF i < k THEN s[i] ELSE s[i + 1]
<1>1. CASE ~ \E i \in 1 .. Len(s) : s[i] = e
  BY <1>1 DEF RemoveFirst
<1>2. ASSUME NEW k \in 1 .. Len(s), s[k] = e
      PROVE  /\ RemoveFirst(s, e) \in Seq(S) /\ Len(RemoveFirst(s, e)) = Len(s) - 1
             /\ \A i \in 1 .. Len(s) - 1 : RemoveFirst(s, e)[i] = IF i < k THEN s[i] ELSE s[i + 1]
  <2>0. Len(s) \in Nat /\ k \in Nat
    OBVIOUS
  <2>1. {i \in 1 .. Len(s) : s[i] = e} = {k}
    BY <1>2 DEF IsInjective
  <2>2. SelectInSeq(s, LAMBDA v : v = e) = k
    BY <2>1 DEF SelectInSeq, Min
  <2>3. PICK p \in Seq(S) : /\ p = SubSeq(s, 1, k - 1) /\ Len(p) = k - 1
                            /\ \A i \in 1 .. k - 1 : p[i] = s[i]
    <3>1. /\ SubSeq(s, 1, k - 1) \in Seq(S) /\ Len(SubSeq(s, 1, k - 1)) = k - 1
          /\ \A i \in 1 .. k - 1 : SubSeq(s, 1, k - 1)[i] = s[i]
      OBVIOUS
    <3>2. QED
      BY <3>1, Zenon
  <2>4. PICK q \in Seq(S) : /\ q = SubSeq(s, k + 1, Len(s)) /\ Len(q) = Len(s) - k
                            /\ \A i \in 1 .. Len(s) - k : q[i] = s[k + i]
    <3>1. /\ SubSeq(s, k + 1, Len(s)) \in Seq(S) /\ Len(SubSeq(s, k + 1, Len(s))) = Len(s) - k
          /\ \A i \in 1 .. Len(s) - k : SubSeq(s, k + 1, Len(s))[i] = s[k + i]
      OBVIOUS
    <3>2. QED
      BY <3>1, Zenon
  <2>5. RemoveFirst(s, e) = p \o q
    BY <1>2, <2>2, <2>3, <2>4 DEF RemoveFirst, RemoveAt
  <2>6. Len(p) = k - 1 /\ Len(q) = Len(s) - k
    BY <2>3, <2>4, Zenon
  <2>7. Len(p) + Len(q) = Len(s) - 1
    BY <2>0, <2>6
  <2>8. p \o q \in Seq(S) /\ Len(p \o q) = Len(s) - 1
    BY <2>7, ConcatLen, Zenon
  <2>9. ASSUME NEW i \in 1 .. Len(s) - 1 PROVE (p \o q)[i] = IF i < k THEN s[i] ELSE s[i + 1]
    <3>1. i \in 1 .. Len(p) + Len(q)
      BY <2>7, Zenon
    <3>2. (p \o q)[i] = IF i <= Len(p) THEN p[i] ELSE q[i - Len(p)]
      BY <3>1, ConcatAt, Zenon
    <3>3. (p \o q)[i] = IF i <= k - 1 THEN p[i] ELSE q[i - (k - 1)]
      BY <2>6, <3>2, Zenon
    <3>4. CASE i < k
      <4>1. i \in 1 .. k - 1 /\ i <= k - 1
        BY <2>0, <3>4
      <4>2. QED
        BY <2>3, <3>3, <3>4, <4>1, Zenon
    <3>5. CASE ~ (i < k)
      <4>1. ~(i <= k - 1) /\ i - (k - 1) \in 1 .. Len(s) - k /\ k + (i - (k - 1)) = i + 1
        BY <2>0, <3>5
      <4>2. q[i - (k - 1)] = s[k + (i - (k - 1))]
        BY <2>4, <4>1, Zenon
      <4>3. QED
        BY <3>3, <3>5, <4>1, <4>2, Zenon
    <3>6. QED
      BY <3>4, <3>5, Zenon
  <2>10. QED
    BY <2>5, <2>8, <2>9, Zenon
<1>3. QED
  BY <1>1, <1>2

\* Erasing a service leaves the others.
LEMMA RemoveFirstProps ==
    ASSUME NEW S, NEW s \in Seq(S), IsInjective(s), NEW e
    PROVE  /\ RemoveFirst(s, e) \in Seq(S)
           /\ ToSet(RemoveFirst(s, e)) = ToSet(s) \ {e}
           /\ IsInjective(RemoveFirst(s, e))
<1> DEFINE r == RemoveFirst(s, e)
<1>0. \/ (\A i \in 1 .. Len(s) : s[i] # e) /\ r = s
      \/ \E k \in 1 .. Len(s) :
                /\ s[k] = e
                /\ r \in Seq(S) /\ Len(r) = Len(s) - 1
                /\ \A i \in 1 .. Len(s) - 1 : r[i] = IF i < k THEN s[i] ELSE s[i + 1]
  BY RemoveFirstIs
<1> HIDE DEF r
<1>1. CASE (\A i \in 1 .. Len(s) : s[i] # e) /\ r = s
  BY <1>1 DEF ToSet, r
<1>2. ASSUME NEW k \in 1 .. Len(s), s[k] = e, r \in Seq(S), Len(r) = Len(s) - 1,
             \A i \in 1 .. Len(s) - 1 : r[i] = IF i < k THEN s[i] ELSE s[i + 1]
      PROVE  r \in Seq(S) /\ ToSet(r) = ToSet(s) \ {e} /\ IsInjective(r)
  <2>0. Len(s) \in Nat /\ k \in Nat /\ DOMAIN s = 1 .. Len(s) /\ DOMAIN r = 1 .. Len(s) - 1
    BY <1>2
  <2>1. \A i \in DOMAIN r : \E j \in DOMAIN s \ {k} : r[i] = s[j] /\ j = (IF i < k THEN i ELSE i + 1)
    BY <1>2, <2>0
  <2>2. ASSUME NEW j \in DOMAIN s \ {k} PROVE \E i \in DOMAIN r : r[i] = s[j]
    <3>1. CASE j < k
      BY <1>2, <2>0, <3>1
    <3>2. CASE j > k
      <4>1. j - 1 \in DOMAIN r /\ ~(j - 1 < k) /\ (j - 1) + 1 = j
        BY <2>0, <3>2
      <4>2. r[j - 1] = s[j]
        BY <1>2, <2>0, <4>1
      <4>3. QED
        BY <4>1, <4>2
    <3>3. QED
      BY <2>0, <3>1, <3>2
  <2>3. ToSet(r) = ToSet(s) \ {e}
    <3>1. \A i \in DOMAIN r : r[i] \in ToSet(s) \ {e}
      BY <1>2, <2>0, <2>1 DEF ToSet, IsInjective
    <3>2. \A x \in ToSet(s) \ {e} : \E j \in DOMAIN s \ {k} : s[j] = x
      BY <1>2 DEF ToSet
    <3>3. QED
      BY <2>2, <3>1, <3>2 DEF ToSet
  <2>4. IsInjective(r)
    BY <2>0, <2>1 DEF IsInjective
  <2>5. QED
    BY <1>2, <2>3, <2>4
<1>3. QED
  BY <1>0, <1>1, <1>2 DEF r

-----------------------------------------------------------------------------
(* The binary search. *)

\* The equation of SearchFrom: its value for len, from its values for smaller ones.
Step(f, list, s, r, len) ==
   [first \in 0 .. Len(list) - len |->
                IF len = 0 THEN first
                ELSE LET half == len \div 2
                         mid  == first + half
                     IN  IF Less(list[Len(list) - mid], s, r)
                         THEN f[len - half - 1][mid + 1]
                         ELSE f[half][first]]

LEMMA StepLocal ==
    ASSUME NEW list, NEW s, NEW r, NEW len \in Nat, NEW f, NEW g, \A i \in 0 .. len - 1 : f[i] = g[i]
    PROVE  Step(f, list, s, r, len) = Step(g, list, s, r, len)
<1>1. CASE len = 0
  BY <1>1 DEF Step
<1>2. CASE len # 0
  <2>1. len \div 2 \in 0 .. len - 1 /\ len - (len \div 2) - 1 \in 0 .. len - 1
    BY <1>2
  <2>2. f[len \div 2] = g[len \div 2] /\ f[len - (len \div 2) - 1] = g[len - (len \div 2) - 1]
    BY <2>1
  <2>3. QED
    BY <2>2, <1>2, Zenon DEF Step
<1>3. QED
  BY <1>1, <1>2

Solves(f, list, s, r, k) ==
    /\ f = [l \in 0 .. Len(list) |-> f[l]]
    /\ \A l \in 0 .. k : f[l] = Step(f, list, s, r, l)

LEMMA Solvable ==
    ASSUME NEW list, NEW s, NEW r, Len(list) \in Nat
    PROVE  \E f : Solves(f, list, s, r, Len(list))
<1> DEFINE n == Len(list)
           S == {k \in Nat : k <= n => \E f : Solves(f, list, s, r, k)}
<1>1. 0 \in S
  <2> DEFINE f == [l \in 0 .. n |-> Step(<<>>, list, s, r, 0)]
  <2>1. f[0] = Step(<<>>, list, s, r, 0)
    OBVIOUS
  <2>2. Step(f, list, s, r, 0) = Step(<<>>, list, s, r, 0)
    BY DEF Step
  <2>3. f = [l \in 0 .. n |-> f[l]]
    OBVIOUS
  <2> HIDE DEF f
  <2>4. Solves(f, list, s, r, 0)
    BY <2>1, <2>2, <2>3 DEF Solves
  <2>5. QED
    BY <2>4
<1>2. ASSUME NEW k \in Nat, k \in S PROVE k + 1 \in S
  <2> SUFFICES ASSUME k + 1 <= n PROVE \E f : Solves(f, list, s, r, k + 1)
    OBVIOUS
  <2>1. PICK f : Solves(f, list, s, r, k)
    BY <1>2
  <2> DEFINE g == [l \in 0 .. n |-> IF l = k + 1 THEN Step(f, list, s, r, k + 1) ELSE f[l]]
  <2>2. g = [l \in 0 .. n |-> g[l]]
    OBVIOUS
  <2>3. \A l \in 0 .. k : g[l] = f[l]
    OBVIOUS
  <2>4. g[k + 1] = Step(f, list, s, r, k + 1)
    OBVIOUS
  <2> HIDE DEF g
  <2>5. ASSUME NEW l \in 0 .. k + 1 PROVE Step(g, list, s, r, l) = Step(f, list, s, r, l)
    <3>1. l \in Nat /\ \A i \in 0 .. l - 1 : g[i] = f[i]
      BY <2>3
    <3>2. QED
      BY <3>1, StepLocal, ZenonT(30)
  <2>6. ASSUME NEW l \in 0 .. k + 1 PROVE g[l] = Step(g, list, s, r, l)
    BY <2>1, <2>3, <2>4, <2>5 DEF Solves
  <2>7. Solves(g, list, s, r, k + 1)
    BY <2>2, <2>6 DEF Solves
  <2>8. QED
    BY <2>7
<1>3. Nat \subseteq S
  <2> HIDE DEF S
  <2> QED
    BY <1>1, <1>2, NatSet
<1>4. QED
  BY <1>3

LEMMA SearchSolved ==
    ASSUME NEW list, NEW s, NEW r, Len(list) \in Nat
    PROVE  Solves(SearchFrom(list, s, r), list, s, r, Len(list))
<1>1. PICK f : Solves(f, list, s, r, Len(list))
  BY Solvable
<1>2. f = [l \in 0 .. Len(list) |-> Step(f, list, s, r, l)]
  BY <1>1 DEF Solves
<1> DEFINE g == SearchFrom(list, s, r)
<1>3. g = CHOOSE h : h = [l \in 0 .. Len(list) |-> Step(h, list, s, r, l)]
  BY DEF SearchFrom, Step
<1>4. g = [l \in 0 .. Len(list) |-> Step(g, list, s, r, l)]
  <2> HIDE DEF g
  <2> QED
    BY <1>2, <1>3, Zenon
<1> HIDE DEF g
<1>5. g = [l \in 0 .. Len(list) |-> g[l]] /\ \A l \in 0 .. Len(list) : g[l] = Step(g, list, s, r, l)
  BY <1>4
<1>6. Solves(g, list, s, r, Len(list))
  BY <1>5, Zenon DEF Solves
<1>7. QED
  BY <1>6, Zenon DEF g

LEMMA SearchEquation ==
    ASSUME NEW list, NEW s, NEW r, Len(list) \in Nat, NEW len \in 0 .. Len(list),
           NEW first \in 0 .. Len(list) - len
    PROVE  SearchFrom(list, s, r)[len][first] =
               IF len = 0 THEN first
               ELSE IF Less(list[Len(list) - (first + (len \div 2))], s, r)
                    THEN SearchFrom(list, s, r)[len - (len \div 2) - 1][first + (len \div 2) + 1]
                    ELSE SearchFrom(list, s, r)[len \div 2][first]
<1>1. PICK h : h = SearchFrom(list, s, r)
  OBVIOUS
<1>2. Solves(h, list, s, r, Len(list))
  BY <1>1, SearchSolved, Zenon
<1>3. Step(h, list, s, r, len)[first] =
               IF len = 0 THEN first
               ELSE IF Less(list[Len(list) - (first + (len \div 2))], s, r)
                    THEN h[len - (len \div 2) - 1][first + (len \div 2) + 1]
                    ELSE h[len \div 2][first]
  BY DEF Step
<1>4. h[len] = Step(h, list, s, r, len)
  BY <1>2, Zenon DEF Solves
<1>5. h[len][first] =
               IF len = 0 THEN first
               ELSE IF Less(list[Len(list) - (first + (len \div 2))], s, r)
                    THEN h[len - (len \div 2) - 1][first + (len \div 2) + 1]
                    ELSE h[len \div 2][first]
  BY <1>3, <1>4
<1>6. QED
  BY <1>1, <1>5

\* Where a search ends in a list that is in order: the elements of the reversed list before that
\* position are less than s, the others are not.
Found(p, list, s, r, first, len) ==
    /\ p \in first .. first + len
    /\ \A q \in first .. p - 1 : Less(list[Len(list) - q], s, r)
    /\ \A q \in p .. first + len - 1 : ~ Less(list[Len(list) - q], s, r)

InRange(list, s, r, len) ==
    \A first \in 0 .. Len(list) - len :
        SearchFrom(list, s, r)[len][first] \in first .. first + len

Finds(list, s, r, len) ==
    \A first \in 0 .. Len(list) - len :
        Found(SearchFrom(list, s, r)[len][first], list, s, r, first, len)

LEMMA RangeStep ==
    ASSUME NEW list, NEW s, NEW r, Len(list) \in Nat, NEW len \in 0 .. Len(list),
           \A l \in 0 .. len - 1 : InRange(list, s, r, l)
    PROVE  InRange(list, s, r, len)
<1> SUFFICES ASSUME NEW first \in 0 .. Len(list) - len
             PROVE  SearchFrom(list, s, r)[len][first] \in first .. first + len
  BY DEF InRange
<1> DEFINE half == len \div 2
           F(l, f) == SearchFrom(list, s, r)[l][f]
<1>1. F(len, first) = IF len = 0 THEN first
                      ELSE IF Less(list[Len(list) - (first + half)], s, r)
                           THEN F(len - half - 1, first + half + 1)
                           ELSE F(half, first)
  BY SearchEquation
<1>2. CASE len = 0
  BY <1>1, <1>2
<1>3. CASE len # 0
  <2>1. /\ half \in 0 .. len - 1 /\ len - half - 1 \in 0 .. len - 1
        /\ first + half + 1 \in 0 .. Len(list) - (len - half - 1)
        /\ first \in 0 .. Len(list) - half
    BY <1>3
  <2>2. /\ F(len - half - 1, first + half + 1)
             \in first + half + 1 .. first + half + 1 + (len - half - 1)
        /\ F(half, first) \in first .. first + half
    BY <2>1 DEF InRange
  <2>3. QED
    <3> HIDE DEF half, F
    <3>1. \/ F(len, first) = F(len - half - 1, first + half + 1)
          \/ F(len, first) = F(half, first)
      BY <1>1, <1>3, Zenon
    <3>2. F(len, first) \in first .. first + len
      BY <1>3, <2>1, <2>2, <3>1
    <3>3. QED
      BY <3>2 DEF F
<1>4. QED
  BY <1>2, <1>3

LEMMA SearchInRange ==
    ASSUME NEW list, NEW s, NEW r, Len(list) \in Nat
    PROVE  \A len \in 0 .. Len(list) : InRange(list, s, r, len)
<1> DEFINE S == {k \in Nat : \A l \in 0 .. k : l <= Len(list) => InRange(list, s, r, l)}
<1>1. 0 \in S
  <2>1. InRange(list, s, r, 0)
    BY RangeStep
  <2>2. QED
    BY <2>1
<1>2. ASSUME NEW k \in Nat, k \in S PROVE k + 1 \in S
  <2>1. ASSUME k + 1 <= Len(list) PROVE InRange(list, s, r, k + 1)
    <3>1. k + 1 \in 0 .. Len(list) /\ \A l \in 0 .. (k + 1) - 1 : InRange(list, s, r, l)
      BY <1>2, <2>1
    <3>2. QED
      BY <3>1, RangeStep
  <2>2. QED
    BY <1>2, <2>1
<1>3. Nat \subseteq S
  <2> HIDE DEF S
  <2> QED
    BY <1>1, <1>2, NatSet
<1>4. QED
  BY <1>3

\* Services, rankings and lists for which Less is an order.
Ordered(list, s, r) ==
    /\ list \in Seq(Services) /\ s \in Services
    /\ r \in [Services -> Ranks]
    /\ BestFirst(list, r)

LEMMA LessTransitive ==
    ASSUME NEW r \in [Services -> Ranks], NEW x \in Services, NEW y \in Services, NEW z \in Services,
           Less(x, y, r), Less(y, z, r)
    PROVE  Less(x, z, r)
<1>1. r[x] \in Int /\ r[y] \in Int /\ r[z] \in Int
  BY RegistryAssumption
<1>2. x \in Int /\ y \in Int /\ z \in Int
  BY DEF Services
<1>3. QED
  BY <1>1, <1>2 DEF Less

LEMMA LessTotal ==
    ASSUME NEW r \in [Services -> Ranks], NEW x \in Services, NEW y \in Services, x # y
    PROVE  Less(x, y, r) \/ Less(y, x, r)
<1>1. r[x] \in Int /\ r[y] \in Int
  BY RegistryAssumption
<1>2. x \in Int /\ y \in Int
  BY DEF Services
<1>3. QED
  BY <1>1, <1>2 DEF Less

LEMMA FindStep ==
    ASSUME NEW list, NEW s, NEW r, Ordered(list, s, r), Len(list) \in Nat, NEW len \in 0 .. Len(list),
           \A l \in 0 .. len - 1 : Finds(list, s, r, l)
    PROVE  Finds(list, s, r, len)
<1> DEFINE n == Len(list)
<1>0. \A q, p \in 0 .. n - 1 : q < p /\ Less(list[n - p], s, r) => Less(list[n - q], s, r)
  <2> SUFFICES ASSUME NEW q \in 0 .. n - 1, NEW p \in 0 .. n - 1, q < p, Less(list[n - p], s, r)
               PROVE  Less(list[n - q], s, r)
    OBVIOUS
  <2>1. n - p \in 1 .. n /\ n - q \in 1 .. n /\ n - p < n - q
    OBVIOUS
  <2>2. Less(list[n - q], list[n - p], r)
    BY <2>1 DEF Ordered, BestFirst
  <2>3. list[n - q] \in Services /\ list[n - p] \in Services /\ s \in Services
    BY <2>1 DEF Ordered
  <2>4. QED
    BY <2>2, <2>3, LessTransitive, Zenon DEF Ordered
<1> SUFFICES ASSUME NEW first \in 0 .. n - len
             PROVE  Found(SearchFrom(list, s, r)[len][first], list, s, r, first, len)
  BY DEF Finds
<1> DEFINE half == len \div 2
           F(l, f) == SearchFrom(list, s, r)[l][f]
<1>1. F(len, first) = IF len = 0 THEN first
                      ELSE IF Less(list[n - (first + half)], s, r)
                           THEN F(len - half - 1, first + half + 1)
                           ELSE F(half, first)
  BY SearchEquation
<1>2. CASE len = 0
  BY <1>1, <1>2 DEF Found
<1>3. CASE len # 0
  <2>0. half \in 0 .. len - 1
    BY <1>3
  <2>1. /\ len - half - 1 \in 0 .. len - 1
        /\ first + half + 1 \in 0 .. n - (len - half - 1)
        /\ first \in 0 .. n - half /\ first + half \in 0 .. n - 1
    BY <1>3, <2>0
  <2>2. /\ Found(F(len - half - 1, first + half + 1), list, s, r, first + half + 1, len - half - 1)
        /\ Found(F(half, first), list, s, r, first, half)
    BY <2>0, <2>1 DEF Finds
  <2> HIDE DEF half, F
  <2>3. CASE Less(list[n - (first + half)], s, r)
    <3>1. PICK p : p = F(len - half - 1, first + half + 1) /\ F(len, first) = p
      BY <1>1, <1>3, <2>3, Zenon
    <3>2. /\ p \in first + half + 1 .. first + half + 1 + (len - half - 1)
          /\ \A q \in first + half + 1 .. p - 1 : Less(list[n - q], s, r)
          /\ \A q \in p .. first + half + 1 + (len - half - 1) - 1 : ~ Less(list[n - q], s, r)
      BY <2>2, <3>1, Zenon DEF Found
    <3>3. p \in first .. first + len /\ first + half + 1 + (len - half - 1) - 1 = first + len - 1
      BY <2>0, <3>2
    <3>4. ASSUME NEW q \in first .. p - 1 PROVE Less(list[n - q], s, r)
      <4>1. CASE q < first + half
        <5>1. q \in 0 .. n - 1
          BY <2>1, <4>1
        <5>2. QED
          BY <1>0, <2>1, <2>3, <4>1, <5>1, Zenon
      <4>2. CASE q = first + half
        BY <2>3, <4>2, Zenon
      <4>3. CASE q > first + half
        <5>1. q \in first + half + 1 .. p - 1
          BY <2>0, <3>3, <4>3
        <5>2. QED
          BY <3>2, <5>1, Zenon
      <4>4. q < first + half \/ q = first + half \/ q > first + half
        BY <2>0, <3>3
      <4>5. QED
        BY <4>1, <4>2, <4>3, <4>4, Zenon
    <3>5. Found(p, list, s, r, first, len)
      BY <3>2, <3>3, <3>4, Zenon DEF Found
    <3>6. QED
      BY <3>1, <3>5, Zenon DEF F
  <2>4. CASE ~ Less(list[n - (first + half)], s, r)
    <3>1. PICK p : p = F(half, first) /\ F(len, first) = p
      BY <1>1, <1>3, <2>4, Zenon
    <3>2. /\ p \in first .. first + half
          /\ \A q \in first .. p - 1 : Less(list[n - q], s, r)
          /\ \A q \in p .. first + half - 1 : ~ Less(list[n - q], s, r)
      BY <2>2, <3>1, Zenon DEF Found
    <3>3. p \in first .. first + len
      BY <2>0, <3>2
    <3>4. ASSUME NEW q \in p .. first + len - 1 PROVE ~ Less(list[n - q], s, r)
      <4>1. CASE q < first + half
        <5>1. q \in p .. first + half - 1
          BY <2>0, <3>3, <4>1
        <5>2. QED
          BY <3>2, <5>1, Zenon
      <4>2. CASE q = first + half
        BY <2>4, <4>2, Zenon
      <4>3. CASE q > first + half
        <5>1. q \in 0 .. n - 1 /\ first + half < q
          BY <2>0, <2>1, <3>3, <4>3
        <5>2. QED
          BY <1>0, <2>1, <2>4, <5>1, Zenon
      <4>4. q < first + half \/ q = first + half \/ q > first + half
        BY <2>0, <3>3
      <4>5. QED
        BY <4>1, <4>2, <4>3, <4>4, Zenon
    <3>5. Found(p, list, s, r, first, len)
      BY <3>2, <3>3, <3>4, Zenon DEF Found
    <3>6. QED
      BY <3>1, <3>5, Zenon DEF F
  <2>5. QED
    BY <2>3, <2>4, Zenon
<1>4. QED
  BY <1>2, <1>3, Zenon

LEMMA SearchFinds ==
    ASSUME NEW list, NEW s, NEW r, Ordered(list, s, r), Len(list) \in Nat
    PROVE  \A len \in 0 .. Len(list) : Finds(list, s, r, len)
<1> DEFINE S == {k \in Nat : \A l \in 0 .. k : l <= Len(list) => Finds(list, s, r, l)}
<1>1. 0 \in S
  <2>1. Finds(list, s, r, 0)
    BY FindStep
  <2>2. QED
    BY <2>1
<1>2. ASSUME NEW k \in Nat, k \in S PROVE k + 1 \in S
  <2>1. ASSUME k + 1 <= Len(list) PROVE Finds(list, s, r, k + 1)
    <3>1. k + 1 \in 0 .. Len(list) /\ \A l \in 0 .. (k + 1) - 1 : Finds(list, s, r, l)
      BY <1>2, <2>1
    <3>2. QED
      BY <3>1, FindStep
  <2>2. QED
    BY <1>2, <2>1
<1>3. Nat \subseteq S
  <2> HIDE DEF S
  <2> QED
    BY <1>1, <1>2, NatSet
<1>4. QED
  BY <1>3

-----------------------------------------------------------------------------
(* The lists. *)

\* Any search gives a place in the list.
LEMMA InsertedIs ==
    ASSUME NEW list \in Seq(Services), NEW s \in Services, NEW r
    PROVE  \E z \in Seq(Services), k \in 1 .. Len(list) + 1 :
               /\ z = Inserted(list, s, r) /\ Placed(z, list, k, s)
               /\ k = Len(list) - LowerBound(list, s, r) + 1
<1>1. Len(list) \in Nat
  OBVIOUS
<1>2. Len(list) \in 0 .. Len(list) /\ 0 \in 0 .. Len(list) - Len(list)
  BY <1>1
<1>3. InRange(list, s, r, Len(list))
  BY <1>1, <1>2, SearchInRange, Zenon
<1>4. LowerBound(list, s, r) \in 0 .. 0 + Len(list)
  BY <1>2, <1>3, Zenon DEF InRange, LowerBound
<1>5. PICK k \in 1 .. Len(list) + 1 : k = Len(list) - LowerBound(list, s, r) + 1
  BY <1>1, <1>4
<1>6. PICK z : z = Inserted(list, s, r)
  OBVIOUS
<1>7. z = InsertAt(list, k, s)
  BY <1>5, <1>6, Zenon DEF Inserted
<1>8. InsertAt(list, k, s) \in Seq(Services) /\ Placed(InsertAt(list, k, s), list, k, s)
  BY InsertAtIs, Zenon
<1>9. z \in Seq(Services) /\ Placed(z, list, k, s)
  BY <1>7, <1>8, Zenon
<1>10. QED
  BY <1>5, <1>6, <1>9, Zenon

LEMMA InsertedProps ==
    ASSUME NEW list \in Seq(Services), NEW s \in Services, NEW r, s \notin ToSet(list), IsInjective(list)
    PROVE  /\ Inserted(list, s, r) \in Seq(Services)
           /\ ToSet(Inserted(list, s, r)) = ToSet(list) \cup {s}
           /\ IsInjective(Inserted(list, s, r))
<1>1. PICK z \in Seq(Services), k \in 1 .. Len(list) + 1 :
               /\ z = Inserted(list, s, r) /\ Placed(z, list, k, s)
               /\ k = Len(list) - LowerBound(list, s, r) + 1
  BY InsertedIs, Zenon
<1>11. Placed(z, list, k, s)
  BY <1>1, Zenon
<1>2. Len(list) \in Nat /\ k \in Nat /\ DOMAIN list = 1 .. Len(list) /\ DOMAIN z = 1 .. Len(list) + 1
  BY <1>11 DEF Placed
<1>3. \A i \in DOMAIN z \ {k} : \E j \in DOMAIN list : z[i] = list[j] /\ j = IF i < k THEN i ELSE i - 1
  BY <1>11, <1>2 DEF Placed
<1>4. ASSUME NEW j \in DOMAIN list PROVE \E i \in DOMAIN z : z[i] = list[j]
  <2>1. CASE j < k
    BY <1>11, <1>2, <2>1 DEF Placed
  <2>2. CASE ~(j < k)
    <3>1. j + 1 \in k + 1 .. Len(list) + 1 /\ (j + 1) - 1 = j /\ j + 1 \in DOMAIN z
      BY <1>2, <2>2
    <3>2. z[j + 1] = list[j]
      BY <1>11, <3>1 DEF Placed
    <3>3. QED
      BY <3>1, <3>2
  <2>3. QED
    BY <2>1, <2>2
<1>5. k \in DOMAIN z /\ z[k] = s
  BY <1>11, <1>2 DEF Placed
<1>6. ToSet(z) = ToSet(list) \cup {s}
  BY <1>3, <1>4, <1>5 DEF ToSet
<1>7. \A j \in DOMAIN list : list[j] # s
  BY DEF ToSet
<1>8. IsInjective(z)
  BY <1>2, <1>3, <1>5, <1>7 DEF IsInjective
<1>9. QED
  BY <1>1, <1>6, <1>8, Zenon

\* A search in a list that is in order finds the place of s.
LEMMA InsertedOrder ==
    ASSUME NEW list \in Seq(Services), NEW s \in Services, NEW r \in [Services -> Ranks],
           s \notin ToSet(list), BestFirst(list, r)
    PROVE  BestFirst(Inserted(list, s, r), r)
<1>1. PICK z \in Seq(Services), k \in 1 .. Len(list) + 1 :
               /\ z = Inserted(list, s, r) /\ Placed(z, list, k, s)
               /\ k = Len(list) - LowerBound(list, s, r) + 1
  BY InsertedIs, Zenon
<1> DEFINE n == Len(list)
<1>2. n \in Nat /\ k \in Nat
  OBVIOUS
<1>3. n \in 0 .. n /\ 0 \in 0 .. n - n
  BY <1>2
<1>4. Finds(list, s, r, n)
  <2>1. Ordered(list, s, r)
    BY DEF Ordered
  <2>2. QED
    BY <1>2, <1>3, <2>1, SearchFinds, Zenon
<1>5. PICK p : p = LowerBound(list, s, r)
  OBVIOUS
<1>6. Found(p, list, s, r, 0, n)
  BY <1>3, <1>4, <1>5, Zenon DEF Finds, LowerBound
<1>7. /\ p \in 0 .. n /\ k = n - p + 1
      /\ \A q \in 0 .. p - 1 : Less(list[n - q], s, r)
      /\ \A q \in p .. n - 1 : ~ Less(list[n - q], s, r)
  <2>1. k = n - p + 1
    BY <1>1, <1>5, Zenon
  <2>2. /\ p \in 0 .. 0 + n
        /\ \A q \in 0 .. p - 1 : Less(list[n - q], s, r)
        /\ \A q \in p .. 0 + n - 1 : ~ Less(list[n - q], s, r)
    BY <1>6, Zenon DEF Found
  <2>3. 0 .. 0 + n = 0 .. n /\ p .. 0 + n - 1 = p .. n - 1
    BY <1>2
  <2>4. QED
    BY <2>1, <2>2, <2>3, Zenon
<1>8. ASSUME NEW i \in 1 .. n, i < k PROVE Less(s, list[i], r)
  <2>1. n - i \in p .. n - 1 /\ n - (n - i) = i
    BY <1>2, <1>7, <1>8
  <2>2. ~ Less(list[n - (n - i)], s, r)
    BY <1>7, <2>1, Zenon
  <2>3. ~ Less(list[i], s, r)
    BY <2>1, <2>2, Zenon
  <2>4. list[i] \in Services /\ list[i] # s
    BY DEF ToSet
  <2>5. QED
    BY <2>3, <2>4, LessTotal, Zenon
<1>9. ASSUME NEW i \in 1 .. n, i >= k PROVE Less(list[i], s, r)
  <2>1. n - i \in 0 .. p - 1 /\ n - (n - i) = i
    BY <1>2, <1>7, <1>9
  <2>2. Less(list[n - (n - i)], s, r)
    BY <1>7, <2>1, Zenon
  <2>3. QED
    BY <2>1, <2>2, Zenon
<1>91. Placed(z, list, k, s)
  BY <1>1, Zenon
<1>10. ASSUME NEW i \in 1 .. n + 1, NEW j \in 1 .. n + 1, i < j PROVE Less(z[j], z[i], r)
  <2>1. CASE j < k
    <3>1. z[i] = list[i] /\ z[j] = list[j] /\ i \in 1 .. n /\ j \in 1 .. n
      BY <1>91, <1>2, <1>10, <2>1 DEF Placed
    <3>2. QED
      BY <1>10, <3>1, Zenon DEF BestFirst
  <2>2. CASE j = k
    <3>1. z[i] = list[i] /\ z[j] = s /\ i \in 1 .. n /\ i < k
      BY <1>91, <1>2, <1>10, <2>2 DEF Placed
    <3>2. QED
      BY <1>8, <3>1, Zenon
  <2>3. CASE j > k /\ i = k
    <3>1. z[i] = s /\ z[j] = list[j - 1] /\ j - 1 \in 1 .. n /\ j - 1 >= k
      BY <1>91, <1>2, <1>10, <2>3 DEF Placed
    <3>2. QED
      BY <1>9, <3>1, Zenon
  <2>4. CASE j > k /\ i < k
    <3>1. z[i] = list[i] /\ z[j] = list[j - 1] /\ j - 1 \in 1 .. n /\ i \in 1 .. n /\ i < j - 1
      BY <1>91, <1>2, <1>10, <2>4 DEF Placed
    <3>2. QED
      BY <3>1, Zenon DEF BestFirst
  <2>5. CASE i > k
    <3>1. z[i] = list[i - 1] /\ z[j] = list[j - 1] /\ j - 1 \in 1 .. n /\ i - 1 \in 1 .. n /\ i - 1 < j - 1
      BY <1>91, <1>2, <1>10, <2>5 DEF Placed
    <3>2. QED
      BY <3>1, Zenon DEF BestFirst
  <2>6. QED
    BY <1>2, <1>10, <2>1, <2>2, <2>3, <2>4, <2>5
<1>11. BestFirst(z, r)
  BY <1>91, <1>10, Zenon DEF BestFirst, Placed
<1>12. QED
  BY <1>1, <1>11, Zenon

LEMMA AppendProps ==
    ASSUME NEW S, NEW list \in Seq(S), NEW s \in S, s \notin ToSet(list), IsInjective(list)
    PROVE  /\ Append(list, s) \in Seq(S)
           /\ ToSet(Append(list, s)) = ToSet(list) \cup {s}
           /\ IsInjective(Append(list, s))
<1>1. PICK z \in Seq(S) : /\ z = Append(list, s) /\ Len(z) = Len(list) + 1 /\ z[Len(list) + 1] = s
                          /\ \A i \in 1 .. Len(list) : z[i] = list[i]
  <2>1. /\ Append(list, s) \in Seq(S) /\ Len(Append(list, s)) = Len(list) + 1
        /\ Append(list, s)[Len(list) + 1] = s
        /\ \A i \in 1 .. Len(list) : Append(list, s)[i] = list[i]
    OBVIOUS
  <2>2. QED
    BY <2>1, Zenon
<1>2. Len(list) \in Nat /\ DOMAIN list = 1 .. Len(list) /\ DOMAIN z = 1 .. Len(list) + 1
  BY <1>1
<1>3. \A j \in DOMAIN list : list[j] # s
  BY DEF ToSet
<1>4. ToSet(z) = ToSet(list) \cup {s}
  BY <1>1, <1>2 DEF ToSet
<1>5. IsInjective(z)
  BY <1>1, <1>2, <1>3 DEF IsInjective
<1>6. QED
  BY <1>1, <1>4, <1>5, Zenon

\* Only the rankings of the services in a list matter for its order.
LEMMA BestFirstAgree ==
    ASSUME NEW list \in Seq(Services), NEW r, NEW q, BestFirst(list, r), \A x \in ToSet(list) : q[x] = r[x]
    PROVE  BestFirst(list, q)
<1>1. \A i \in 1 .. Len(list) : q[list[i]] = r[list[i]]
  BY DEF ToSet
<1>2. QED
  BY <1>1 DEF BestFirst, Less

\* Erasing a service keeps the order.
LEMMA RemoveFirstOrder ==
    ASSUME NEW list \in Seq(Services), IsInjective(list), NEW s, NEW r, BestFirst(list, r)
    PROVE  BestFirst(RemoveFirst(list, s), r)
<1> DEFINE z == RemoveFirst(list, s)
           n == Len(list)
<1>0. n \in Nat
  OBVIOUS
<1>1. \/ (\A i \in 1 .. n : list[i] # s) /\ z = list
      \/ \E k \in 1 .. n :
                /\ list[k] = s
                /\ z \in Seq(Services) /\ Len(z) = n - 1
                /\ \A i \in 1 .. n - 1 : z[i] = IF i < k THEN list[i] ELSE list[i + 1]
  BY RemoveFirstIs
<1> HIDE DEF z
<1>2. CASE z = list
  BY <1>2, Zenon DEF z
<1>3. ASSUME NEW k \in 1 .. n, Len(z) = n - 1,
             \A i \in 1 .. n - 1 : z[i] = IF i < k THEN list[i] ELSE list[i + 1]
      PROVE  BestFirst(z, r)
  <2>1. ASSUME NEW i \in 1 .. n - 1, NEW j \in 1 .. n - 1, i < j PROVE Less(z[j], z[i], r)
    <3>1. PICK a \in 1 .. n : z[i] = list[a] /\ a = IF i < k THEN i ELSE i + 1
      BY <1>0, <1>3
    <3>2. PICK b \in 1 .. n : z[j] = list[b] /\ b = IF j < k THEN j ELSE j + 1
      BY <1>0, <1>3
    <3>3. a < b
      BY <1>0, <2>1, <3>1, <3>2
    <3>4. QED
      BY <3>1, <3>2, <3>3, Zenon DEF BestFirst
  <2>2. QED
    BY <1>3, <2>1, Zenon DEF BestFirst
<1>4. QED
  BY <1>1, <1>2, <1>3, Zenon DEF z

\* RemovedFrom erases s, if it erases nothing else unread.
LEMMA RemovedFromProps ==
    ASSUME NEW list \in Seq(Services), IsInjective(list), NEW s
    PROVE  /\ RemovedFrom(list, s) \in Seq(Services)
           /\ ToSet(RemovedFrom(list, s)) \subseteq ToSet(list) \ {s}
           /\ s \in ToSet(list) => ToSet(RemovedFrom(list, s)) = ToSet(list) \ {s}
           /\ IsInjective(RemovedFrom(list, s))
           /\ \A r : BestFirst(list, r) => BestFirst(RemovedFrom(list, s), r)
<1>1. CASE Len(list) > 1
  <2>1. RemovedFrom(list, s) = RemoveFirst(list, s)
    BY <1>1, Zenon DEF RemovedFrom
  <2>2. PICK z : z = RemoveFirst(list, s)
    OBVIOUS
  <2>3. z \in Seq(Services) /\ ToSet(z) = ToSet(list) \ {s} /\ IsInjective(z)
    BY <2>2, RemoveFirstProps, Zenon
  <2>4. \A r : BestFirst(list, r) => BestFirst(z, r)
    BY <2>2, RemoveFirstOrder, Zenon
  <2>5. QED
    BY <2>1, <2>2, <2>3, <2>4, Zenon
<1>2. CASE ~(Len(list) > 1)
  <2>1. RemovedFrom(list, s) = <<>>
    BY <1>2, Zenon DEF RemovedFrom
  <2>2. <<>> \in Seq(Services) /\ ToSet(<<>>) = {} /\ IsInjective(<<>>) /\ \A r : BestFirst(<<>>, r)
    BY DEF ToSet, IsInjective, BestFirst
  <2>3. ASSUME s \in ToSet(list) PROVE ToSet(list) \ {s} = {}
    <3>1. PICK i \in 1 .. Len(list) : list[i] = s
      BY <2>3 DEF ToSet
    <3>2. Len(list) \in Nat /\ DOMAIN list = 1 .. Len(list)
      OBVIOUS
    <3>21. \A j \in 1 .. Len(list) : j = i
      BY <1>2, <3>2
    <3>3. \A j \in DOMAIN list : list[j] = s
      BY <3>1, <3>2, <3>21, Zenon
    <3>4. QED
      BY <3>3 DEF ToSet
  <2>4. QED
    BY <2>1, <2>2, <2>3, Zenon
<1>3. QED
  BY <1>1, <1>2

LEMMA InjectiveCardinality ==
    ASSUME NEW S, NEW list \in Seq(S), IsInjective(list)
    PROVE  IsFiniteSet(ToSet(list)) /\ Cardinality(ToSet(list)) = Len(list)
<1>1. list \in Surjection(1 .. Len(list), ToSet(list)) /\ list \in Injection(1 .. Len(list), ToSet(list))
  BY DEF Surjection, Injection, IsInjective, ToSet
<1>2. Len(list) \in Nat
  OBVIOUS
<1>3. IsFiniteSet(1 .. Len(list)) /\ Cardinality(1 .. Len(list)) = Len(list)
  <2>1. \A n \in Nat : IsFiniteSet(1 .. n) /\ Cardinality(1 .. n) = n
    <3> SUFFICES ASSUME NEW n \in Nat PROVE IsFiniteSet(1 .. n) /\ Cardinality(1 .. n) = n
      OBVIOUS
    <3>1. 1 \in Int /\ n \in Int
      OBVIOUS
    <3>2. IsFiniteSet(1 .. n) /\ Cardinality(1 .. n) = IF 1 > n THEN 0 ELSE n - 1 + 1
      BY <3>1, FS_Interval
    <3>3. QED
      BY <3>2
  <2>2. QED
    BY <1>2, <2>1
<1>4. QED
  BY <1>1, <1>3, FS_Surjection, Zenon

\* A permutation of a list's elements.
LEMMA SetToSeqsProps ==
    ASSUME NEW list \in Seq(Services), IsInjective(list), NEW q \in SetToSeqs(ToSet(list))
    PROVE  q \in Seq(Services) /\ ToSet(q) = ToSet(list) /\ IsInjective(q)
<1> DEFINE T == ToSet(list)
           n == Cardinality(T)
<1>1. IsFiniteSet(T) /\ n \in Nat /\ T \subseteq Services
  <2>1. IsFiniteSet(T) /\ n = Len(list)
    BY InjectiveCardinality, Zenon
  <2>2. T \subseteq Services
    BY DEF ToSet
  <2>3. Len(list) \in Nat
    OBVIOUS
  <2>4. QED
    BY <2>1, <2>2, <2>3
<1> HIDE DEF T
<1>2. q \in [1 .. n -> T] /\ \A i, j \in 1 .. n : i # j => q[i] # q[j]
  BY Zenon DEF SetToSeqs, T
<1> HIDE DEF n
<1>3. q \in Injection(1 .. n, T) /\ IsInjective(q)
  BY <1>2 DEF Injection, IsInjective
<1>4. Cardinality(1 .. n) = n
  BY <1>1, FS_Interval
<1>5. q \in Surjection(1 .. n, T)
  BY <1>1, <1>3, <1>4, FS_Injection, Zenon DEF n
<1>6. \A x \in T : \E i \in 1 .. n : q[i] = x
  BY <1>5 DEF Surjection
<1>7. ToSet(q) = T
  BY <1>2, <1>6 DEF ToSet
<1>8. q \in Seq(Services)
  BY <1>1, <1>2
<1>9. QED
  BY <1>3, <1>7, <1>8 DEF T

-----------------------------------------------------------------------------
(* What the parts of the invariant need of a step. *)

Others(t) == \A u \in Threads \ {t} : pc'[u] = pc[u] /\ svc'[u] = svc[u]

LocalsType == pc \in [Threads -> PCs] /\ svc \in [Threads -> Services] /\ newRank \in [Threads -> Ranks]

LEMMA RankType == NoRank \in Ranks
BY RegistryAssumption DEF NoRank

LEMMA GotoIs ==
    ASSUME TypeInv, NEW t \in Threads, NEW l \in PCs, Goto(t, l)
    PROVE  /\ LocalsType' /\ Others(t) /\ pc'[t] = l
           /\ l # "idle" => svc'[t] = svc[t]
<1>1. 1 \in Services
  BY RegistryAssumption DEF Services
<1>2. pc' \in [Threads -> PCs] /\ pc'[t] = l /\ \A u \in Threads \ {t} : pc'[u] = pc[u]
  BY DEF Goto, TypeInv
<1>3. /\ svc' \in [Threads -> Services] /\ \A u \in Threads \ {t} : svc'[u] = svc[u]
      /\ l # "idle" => svc'[t] = svc[t]
  BY <1>1 DEF Goto, TypeInv
<1>4. newRank' \in [Threads -> Ranks]
  BY RankType DEF Goto, TypeInv
<1>5. QED
  BY <1>2, <1>3, <1>4 DEF Others, LocalsType

LEMMA CallIs ==
    ASSUME TypeInv, NEW t \in Threads, NEW l \in PCs, NEW s \in Services, NEW r \in Ranks, Call(t, l, s, r)
    PROVE  LocalsType' /\ Others(t) /\ pc'[t] = l /\ svc'[t] = s
BY DEF Call, TypeInv, Others, LocalsType

LEMMA OwnerQuiet ==
    ASSUME OwnerInv, NEW t \in Threads, Others(t), owner' = owner, pc'[t] \in HoldPCs <=> pc[t] \in HoldPCs
    PROVE  OwnerInv'
BY DEF OwnerInv, Others

LEMMA OwnerAcquires ==
    ASSUME OwnerInv, NEW t \in Threads, Others(t), Acquire(t), pc'[t] \in HoldPCs
    PROVE  OwnerInv'
<1>1. owner = {} /\ owner' = {t}
  BY DEF Acquire
<1>2. QED
  BY <1>1 DEF OwnerInv, Others

LEMMA OwnerReleases ==
    ASSUME OwnerInv, NEW t \in Threads, Others(t), Release, pc[t] \in HoldPCs, pc'[t] \notin HoldPCs
    PROVE  OwnerInv'
<1>1. owner' = {}
  BY DEF Release
<1>2. \A u \in Threads \ {t} : pc[u] \notin HoldPCs
  BY DEF OwnerInv
<1>3. QED
  BY <1>1, <1>2 DEF OwnerInv, Others

\* What a thread may begin to work with: a service that exists and that nobody else registers.
Open(t, s) == s < nextServiceID /\ \A u \in Threads \ {t} : ~ At(u, FreshPCs, s)

\* A step of a thread that is not past the flag of its service, and stays in its registration.
Moves(t) ==
    /\ Others(t)
    /\ pc[t] \notin UnregPCs /\ pc'[t] \notin UnregPCs
    /\ pc'[t] \in FreshPCs <=> pc[t] \in FreshPCs
    /\ pc'[t] # "idle" => Open(t, svc'[t])
    /\ pc[t] \in FreshPCs => svc'[t] = svc[t]

Registry == <<nextServiceID, available, unregistering, bundle, serviceRegistrations, told, cleared>>

LEMMA MoveKeeps ==
    ASSUME TypeInv, LocalsType', ThreadsInv, UnregInv, FreshInv, NewInv, ListedInv,
           NEW t \in Threads, Moves(t), UNCHANGED Registry
    PROVE  ThreadsInv' /\ UnregInv' /\ FreshInv' /\ NewInv' /\ ListedInv'
<1>0. /\ nextServiceID' = nextServiceID /\ available' = available /\ unregistering' = unregistering
      /\ bundle' = bundle /\ serviceRegistrations' = serviceRegistrations /\ told' = told
      /\ cleared' = cleared
  BY DEF Registry
<1>1. \A u \in Threads, s \in Services : At(u, FreshPCs, s)' <=> At(u, FreshPCs, s)
  BY DEF Moves, Others, At
<1>2. \A u \in Threads : pc'[u] \in UnregPCs => u # t
  BY DEF Moves
<1>3. \A u \in Threads : pc[u] \in UnregPCs => u # t
  BY DEF Moves
<1>4. \A u \in Threads, s \in Services : /\ At(u, {"unregClear"}, s)' <=> At(u, {"unregClear"}, s)
                                         /\ At(u, {"unregMark", "unregClear"}, s)' <=> At(u, {"unregMark", "unregClear"}, s)
                                         /\ At(u, EndPCs, s)' <=> At(u, EndPCs, s)
  BY <1>2, <1>3 DEF Moves, Others, At, UnregPCs, EndPCs
<1>5. ThreadsInv'
  <2>1. \A u \in Threads : pc'[u] # "idle" => svc'[u] < nextServiceID
    BY DEF Moves, Others, ThreadsInv, Open
  <2>2. ASSUME NEW v \in Threads, NEW u \in Threads, pc'[v] \in FreshPCs, svc'[u] = svc'[v], u # v
        PROVE  pc'[u] = "idle"
    <3>1. pc[v] \in FreshPCs /\ svc'[v] = svc[v] /\ svc[v] \in Services
      BY <2>2 DEF Moves, Others, TypeInv
    <3>2. CASE u = t
      BY <2>2, <3>1, <3>2 DEF Moves, Open, At
    <3>3. CASE u # t
      BY <2>2, <3>1, <3>3 DEF Moves, Others, ThreadsInv
    <3>4. QED
      BY <3>2, <3>3
  <2>3. QED
    BY <1>0, <2>1, <2>2 DEF ThreadsInv
<1>6. UnregInv'
  <2>1. \A u \in Threads \ {t} : pc'[u] = pc[u] /\ svc'[u] = svc[u]
    BY DEF Moves, Others
  <2>2. \A u \in Threads : pc'[u] \in UnregPCs => unregistering'[svc'[u]]
    BY <1>0, <1>2, <2>1 DEF UnregInv
  <2>3. \A u, v \in Threads : pc'[u] \in UnregPCs /\ At(v, UnregPCs, svc[u])' => u = v
    BY <1>2, <2>1 DEF UnregInv, At
  <2>4. \A u \in Threads : pc'[u] \in {"unregRemove", "unregEvent"} => bundle'[svc'[u]] /\ told'[svc'[u]] = 0
    BY <1>0, <1>2, <2>1 DEF UnregInv, UnregPCs
  <2>5. \A u \in Threads : pc'[u] = "unregClear" => bundle'[svc'[u]] /\ ~available'[svc'[u]]
    BY <1>0, <1>2, <2>1 DEF UnregInv, UnregPCs
  <2>6. \A s \in Services : bundle'[s] /\ ~available'[s] => \E u \in Threads : At(u, {"unregClear"}, s)'
    BY <1>0, <1>4 DEF UnregInv
  <2>7. \A s \in Services : told'[s] # 0 =>
            told'[s] = 1 /\ (bundle'[s] => \E u \in Threads : At(u, {"unregMark", "unregClear"}, s)')
    BY <1>0, <1>4 DEF UnregInv
  <2>8. QED
    BY <2>2, <2>3, <2>4, <2>5, <2>6, <2>7 DEF UnregInv
<1>7. FreshInv'
  BY <1>0, <1>1 DEF FreshInv, Listed
<1>8. NewInv'
  <2>1. \A u \in Threads : pc'[u] \in FreshPCs => pc[u] \in FreshPCs /\ svc'[u] = svc[u]
    BY DEF Moves, Others
  <2>2. QED
    BY <1>0, <2>1 DEF NewInv
<1>9. ListedInv'
  <2>1. \A u \in Threads : pc'[u] \in EndPCs => svc'[u] \notin Listed'
    BY <1>0, <1>2 DEF Moves, Others, EndPCs, UnregPCs, ListedInv, Listed
  <2>2. \A u \in Threads, s \in Services : At(u, FreshPCs \cup EndPCs, s)' <=> At(u, FreshPCs \cup EndPCs, s)
    BY <1>1, <1>4 DEF At
  <2>3. QED
    BY <1>0, <2>1, <2>2 DEF ListedInv, Listed
<1>10. QED
  BY <1>5, <1>6, <1>7, <1>8, <1>9

LEMMA ClassQuiet ==
    ASSUME ClassInv, CompleteInv,
           UNCHANGED <<objectclass, available, unregistering, serviceRegistrations, classServices, cleared>>
    PROVE  ClassInv' /\ CompleteInv'
BY DEF ClassInv, CompleteInv, ClearedStay, Listed

LEMMA UnsortedIs == \A c : c \in Unsorted <=> \E u \in Threads : pc[u] \in {"setLock", "setSort"} /\ c \in objectclass[svc[u]]
BY DEF Unsorted

LEMMA SeenQuiet ==
    ASSUME TypeInv, OwnerInv, OwnerInv', SeenInv, ListedInv, NEW t \in Threads, Others(t),
           UNCHANGED <<owner, seen, rank>>, Listed' \subseteq Listed,
           pc'[t] # "regInsert", pc[t] = "setLock" => ~bundle[svc[t]] 
    PROVE  SeenInv'
<1>1. ASSUME NEW u \in owner' PROVE (u \in owner /\ u # t) \/ pc'[u] # "regInsert"
  BY <1>1 DEF OwnerInv
<1>2. ASSUME NEW u \in owner', pc'[u] = "regInsert" PROVE seen'[svc'[u]] = {rank'[svc'[u]]}
  <2>1. u \in owner /\ u # t /\ u \in Threads
    BY <1>2, <1>1 DEF OwnerInv
  <2>2. pc[u] = "regInsert" /\ svc'[u] = svc[u]
    BY <1>2, <2>1 DEF Others
  <2>3. QED
    BY <2>1, <2>2 DEF SeenInv
<1>3. ASSUME NEW u \in owner', NEW s \in Listed'
      PROVE  seen'[s] = {rank'[s]} \/ \E v \in Threads : At(v, {"setLock"}, s)'
  <2>1. u \in owner /\ s \in Listed
    BY <1>3
  <2>2. CASE seen[s] = {rank[s]}
    BY <2>2
  <2>3. ASSUME NEW v \in Threads, At(v, {"setLock"}, s) PROVE At(v, {"setLock"}, s)'
    <3>1. v # t
      BY <2>1, <2>3 DEF At, ListedInv
    <3>2. QED
      BY <2>3, <3>1 DEF At, Others
  <2>4. QED
    BY <2>1, <2>2, <2>3 DEF SeenInv
<1>4. QED
  BY <1>2, <1>3 DEF SeenInv

LEMMA OrderQuiet ==
    ASSUME OrderInv, NEW t \in Threads, Others(t), UNCHANGED <<rank, objectclass, classServices, skipped>>,
           pc[t] \notin {"setLock", "setSort"}
    PROVE  OrderInv'
<1>1. ASSUME NEW c \in Unsorted PROVE c \in Unsorted'
  <2>1. PICK u \in Threads : pc[u] \in {"setLock", "setSort"} /\ c \in objectclass[svc[u]]
    BY <1>1, UnsortedIs
  <2>2. pc'[u] \in {"setLock", "setSort"} /\ c \in objectclass'[svc'[u]]
    BY <2>1 DEF Others
  <2>3. QED
    BY <2>2 DEF Unsorted
<1>2. QED
  BY <1>1 DEF OrderInv, BestFirstWhenSettled, BestFirst, Less

-----------------------------------------------------------------------------
(* The steps that leave the lists and the flags of all services alone. *)

LEMMA AtService ==
    ASSUME TypeInv, ThreadsInv, NEW t \in Threads, pc[t] # "idle"
    PROVE  svc[t] \in Services /\ Open(t, svc[t])
<1>1. svc[t] \in Services /\ svc[t] < nextServiceID
  BY DEF TypeInv, ThreadsInv
<1>2. \A u \in Threads \ {t} : ~ At(u, FreshPCs, svc[t])
  BY DEF ThreadsInv, At
<1>3. QED
  BY <1>1, <1>2 DEF Open

LEMMA RegisterLockKeeps ==
    ASSUME IInv, NEW t \in Threads, RegisterLock(t) PROVE IInv'
<1>0. /\ TypeInv /\ OwnerInv /\ ThreadsInv /\ UnregInv /\ FreshInv /\ NewInv /\ ListedInv /\ ClassInv
      /\ CompleteInv /\ SeenInv /\ OrderInv
  BY DEF IInv
<1>1. /\ pc[t] = "regLock" /\ Goto(t, "regInsert") /\ Acquire(t)
      /\ UNCHANGED <<nextServiceID, rank, regState, lists, sets, told, skipped, cleared>>
  BY DEF RegisterLock
<1>2. LocalsType' /\ Others(t) /\ pc'[t] = "regInsert" /\ svc'[t] = svc[t]
  BY <1>0, <1>1, GotoIs DEF PCs
<1>3. Moves(t)
  BY <1>0, <1>1, <1>2, AtService DEF Moves, UnregPCs, FreshPCs
<1>4. ThreadsInv' /\ UnregInv' /\ FreshInv' /\ NewInv' /\ ListedInv'
  BY <1>0, <1>1, <1>2, <1>3, MoveKeeps DEF Registry, regState, lists
<1>5. ClassInv' /\ CompleteInv'
  BY <1>0, <1>1, ClassQuiet DEF regState, lists
<1>6. OwnerInv'
  BY <1>0, <1>1, <1>2, OwnerAcquires DEF HoldPCs
<1>7. TypeInv'
  BY <1>0, <1>1, <1>2 DEF TypeInv, LocalsType, Acquire, regState, lists
<1>8. SeenInv'
  <2>1. \A s \in Services : seen'[s] = {rank'[s]}
    BY <1>1 DEF Acquire
  <2>2. \A s \in Listed' : s \in Services
    BY <1>7 DEF TypeInv, Listed, ToSet
  <2>3. \A u \in Threads : svc'[u] \in Services
    BY <1>2 DEF LocalsType
  <2>4. owner' \subseteq Threads
    BY <1>6 DEF OwnerInv
  <2>5. QED
    BY <2>1, <2>2, <2>3, <2>4 DEF SeenInv
<1>9. OrderInv'
  BY <1>0, <1>1, <1>2, OrderQuiet DEF regState, lists
<1>10. QED
  BY <1>4, <1>5, <1>6, <1>7, <1>8, <1>9 DEF IInv

\* Steps that change positions only.
LEMMA PositionKeeps ==
    ASSUME IInv, NEW t \in Threads, LocalsType', Others(t), Moves(t),
           UNCHANGED <<nextServiceID, rank, regState, lists, owner, seen, told, skipped, cleared>>,
           sets' \in 0 .. MaxSets,
           pc[t] \notin HoldPCs \cup {"setLock"}, pc'[t] \notin HoldPCs
    PROVE  IInv'
<1>0. /\ TypeInv /\ OwnerInv /\ ThreadsInv /\ UnregInv /\ FreshInv /\ NewInv /\ ListedInv /\ ClassInv
      /\ CompleteInv /\ SeenInv /\ OrderInv
  BY DEF IInv
<1>1. ThreadsInv' /\ UnregInv' /\ FreshInv' /\ NewInv' /\ ListedInv'
  BY <1>0, MoveKeeps DEF Registry, regState, lists
<1>2. ClassInv' /\ CompleteInv'
  BY <1>0, ClassQuiet DEF regState, lists
<1>3. OwnerInv'
  BY <1>0, OwnerQuiet
<1>4. TypeInv'
  BY <1>0 DEF TypeInv, LocalsType, regState, lists
<1>5. SeenInv'
  BY <1>0, <1>3, SeenQuiet DEF Listed, lists, HoldPCs
<1>6. OrderInv'
  BY <1>0, OrderQuiet DEF regState, lists, HoldPCs
<1>7. QED
  BY <1>1, <1>2, <1>3, <1>4, <1>5, <1>6 DEF IInv

LEMMA RegisterReferenceKeeps ==
    ASSUME IInv, NEW t \in Threads, RegisterReference(t) PROVE IInv'
<1>0. TypeInv /\ ThreadsInv
  BY DEF IInv
<1>1. PICK l \in {"regEvent", "idle"} : Goto(t, l)
  BY DEF RegisterReference
<1>2. LocalsType' /\ Others(t) /\ pc'[t] = l /\ (l # "idle" => svc'[t] = svc[t])
  BY <1>0, <1>1, GotoIs DEF PCs
<1>3. pc[t] = "regReference"
  BY DEF RegisterReference
<1>4. Moves(t)
  BY <1>0, <1>2, <1>3, AtService DEF Moves, UnregPCs, FreshPCs
<1>5. QED
  BY <1>0, <1>2, <1>3, <1>4, PositionKeeps DEF RegisterReference, HoldPCs, TypeInv

LEMMA RegisterEventKeeps ==
    ASSUME IInv, NEW t \in Threads, RegisterEvent(t) PROVE IInv'
<1>0. TypeInv /\ ThreadsInv
  BY DEF IInv
<1>1. LocalsType' /\ Others(t) /\ pc'[t] = "idle"
  BY <1>0, GotoIs DEF PCs, RegisterEvent
<1>2. pc[t] = "regEvent"
  BY DEF RegisterEvent
<1>3. Moves(t)
  BY <1>1, <1>2 DEF Moves, UnregPCs, FreshPCs
<1>4. QED
  BY <1>0, <1>1, <1>2, <1>3, PositionKeeps DEF RegisterEvent, HoldPCs, TypeInv

LEMMA SetEventKeeps ==
    ASSUME IInv, NEW t \in Threads, SetEvent(t) PROVE IInv'
<1>0. TypeInv /\ ThreadsInv
  BY DEF IInv
<1>1. LocalsType' /\ Others(t) /\ pc'[t] = "idle"
  BY <1>0, GotoIs DEF PCs, SetEvent
<1>2. pc[t] = "setEvent"
  BY DEF SetEvent
<1>3. Moves(t)
  BY <1>1, <1>2 DEF Moves, UnregPCs, FreshPCs
<1>4. QED
  BY <1>0, <1>1, <1>2, <1>3, PositionKeeps DEF SetEvent, HoldPCs, TypeInv

LEMMA SetStartKeeps ==
    ASSUME IInv, NEW t \in Threads, NEW s \in Services, NEW r \in Ranks, SetStart(t, s, r) PROVE IInv'
<1>0. TypeInv /\ ThreadsInv
  BY DEF IInv
<1>1. LocalsType' /\ Others(t) /\ pc'[t] = "setRank" /\ svc'[t] = s
  BY <1>0, CallIs DEF PCs, SetStart
<1>2. pc[t] = "idle" /\ sets' \in 0 .. MaxSets
  BY <1>0, RegistryAssumption DEF SetStart, TypeInv
<1>3. Open(t, s)
  BY DEF SetStart, Returned, Open, At, FreshPCs
<1>4. Moves(t)
  BY <1>1, <1>2, <1>3 DEF Moves, UnregPCs, FreshPCs
<1>5. QED
  BY <1>1, <1>2, <1>4, PositionKeeps DEF SetStart, HoldPCs

LEMMA UnregisterStartKeeps ==
    ASSUME IInv, NEW t \in Threads, NEW s \in Services, UnregisterStart(t, s) PROVE IInv'
<1>0. TypeInv /\ ThreadsInv /\ FreshInv
  BY DEF IInv
<1>1. LocalsType' /\ Others(t) /\ pc'[t] = "unregCas" /\ svc'[t] = s
  BY <1>0, RankType, CallIs DEF PCs, UnregisterStart
<1>2. pc[t] = "idle"
  BY DEF UnregisterStart
<1>3. Open(t, s)
  <2>1. CASE Returned(s)
    BY <2>1 DEF Returned, Open, At, FreshPCs
  <2>2. CASE Contains(serviceRegistrations, s)
    <3>1. s \in Listed
      BY <2>2 DEF Contains, Listed, ToSet, TypeInv, IInv
    <3>2. ~(s >= nextServiceID) /\ \A u \in Threads : ~ At(u, FreshPCs, s)
      BY <1>0, <3>1 DEF FreshInv
    <3>3. s < nextServiceID
      BY <1>0, <3>2 DEF TypeInv, Services
    <3>4. QED
      BY <3>2, <3>3 DEF Open
  <2>3. QED
    BY <2>1, <2>2 DEF UnregisterStart
<1>4. Moves(t)
  BY <1>1, <1>2, <1>3 DEF Moves, UnregPCs, FreshPCs
<1>5. QED
  BY <1>0, <1>1, <1>2, <1>4, PositionKeeps DEF UnregisterStart, HoldPCs, TypeInv

-----------------------------------------------------------------------------
(* SetProperties. *)

LEMMA SetRankKeeps ==
    ASSUME IInv, NEW t \in Threads, SetRank(t) PROVE IInv'
<1>0. /\ TypeInv /\ OwnerInv /\ ThreadsInv /\ UnregInv /\ FreshInv /\ NewInv /\ ListedInv /\ ClassInv
      /\ CompleteInv /\ SeenInv /\ OrderInv
  BY DEF IInv
<1> DEFINE s == svc[t]
<1>1. /\ pc[t] = "setRank" /\ s \in Services
      /\ UNCHANGED <<nextServiceID, regState, lists, owner, sets, told, skipped, cleared>>
  BY <1>0 DEF SetRank, TypeInv
<1>2. CASE Goto(t, "idle") /\ UNCHANGED <<rank, seen>>
  <2>1. LocalsType' /\ Others(t) /\ pc'[t] = "idle"
    BY <1>0, <1>2, GotoIs DEF PCs
  <2>2. Moves(t)
    BY <1>1, <2>1 DEF Moves, UnregPCs, FreshPCs
  <2>3. QED
    BY <1>0, <1>1, <1>2, <2>1, <2>2, PositionKeeps DEF HoldPCs, TypeInv
<1>3. CASE /\ rank' = [rank EXCEPT ![s] = newRank[t]]
           /\ seen' = IF owner = {} THEN seen ELSE [seen EXCEPT ![s] = @ \cup {newRank[t]}]
           /\ Goto(t, IF rank[s] = newRank[t] THEN "setEvent" ELSE "setLock")
  <2>1. PICK l \in {"setEvent", "setLock"} : l = IF rank[s] = newRank[t] THEN "setEvent" ELSE "setLock"
    OBVIOUS
  <2>2. LocalsType' /\ Others(t) /\ pc'[t] = l /\ svc'[t] = s
    BY <1>0, <1>3, <2>1, GotoIs DEF PCs
  <2>3. Moves(t)
    BY <1>0, <1>1, <2>2, AtService DEF Moves, UnregPCs, FreshPCs
  <2>4. ThreadsInv' /\ UnregInv' /\ FreshInv' /\ NewInv' /\ ListedInv'
    BY <1>0, <1>1, <2>2, <2>3, MoveKeeps DEF Registry, regState, lists
  <2>5. ClassInv' /\ CompleteInv'
    BY <1>0, <1>1, ClassQuiet DEF regState, lists
  <2>6. OwnerInv'
    BY <1>0, <1>1, <2>2, OwnerQuiet DEF HoldPCs
  <2>7. newRank[t] \in Ranks /\ rank' \in [Services -> Ranks] /\ seen' \in [Services -> SUBSET Ranks]
    BY <1>0, <1>1, <1>3 DEF TypeInv
  <2>8. TypeInv'
    BY <1>0, <1>1, <2>2, <2>7 DEF TypeInv, LocalsType, regState, lists
  <2>9. /\ \A x \in Services \ {s} : rank'[x] = rank[x] /\ seen'[x] = seen[x]
        /\ rank[s] = newRank[t] => rank' = rank
        /\ owner # {} => seen'[s] = seen[s] \cup {newRank[t]}
        /\ rank'[s] = newRank[t]
    BY <1>0, <1>1, <1>3 DEF TypeInv
  <2>10. ASSUME NEW u \in owner', NEW x \in Listed'
         PROVE  seen'[x] = {rank'[x]} \/ \E v \in Threads : At(v, {"setLock"}, x)'
    <3>1. x \in Listed /\ u \in owner /\ x \in Services
      BY <1>0, <1>1, <2>10 DEF Listed, lists, TypeInv, ToSet
    <3>2. CASE x = s /\ rank[s] # newRank[t]
      BY <2>1, <2>2, <3>2 DEF At
    <3>3. CASE seen[x] = {rank[x]} /\ ~(x = s /\ rank[s] # newRank[t])
      BY <2>9, <3>1, <3>3
    <3>4. ASSUME NEW v \in Threads, At(v, {"setLock"}, x) PROVE At(v, {"setLock"}, x)'
      BY <1>1, <2>2, <3>4 DEF At, Others
    <3>5. QED
      BY <1>0, <3>1, <3>2, <3>3, <3>4 DEF SeenInv
  <2>11. ASSUME NEW u \in owner', pc'[u] = "regInsert" PROVE seen'[svc'[u]] = {rank'[svc'[u]]}
    <3>1. u \in Threads /\ u \in owner /\ u # t
      BY <2>11, <1>0, <1>1, <2>1, <2>2 DEF OwnerInv
    <3>2. pc[u] = "regInsert" /\ svc'[u] = svc[u] /\ svc[u] # s /\ svc[u] \in Services
      BY <1>0, <1>1, <2>2, <2>11, <3>1 DEF Others, ThreadsInv, FreshPCs, TypeInv
    <3>3. QED
      BY <1>0, <2>9, <3>1, <3>2 DEF SeenInv
  <2>12. SeenInv'
    BY <2>10, <2>11 DEF SeenInv
  <2>13. OrderInv'
    <3>1. ASSUME NEW c \in Unsorted PROVE c \in Unsorted'
      <4>1. PICK u \in Threads : pc[u] \in {"setLock", "setSort"} /\ c \in objectclass[svc[u]]
        BY <3>1, UnsortedIs
      <4>2. pc'[u] \in {"setLock", "setSort"} /\ c \in objectclass'[svc'[u]]
        BY <1>1, <2>2, <4>1 DEF Others, regState
      <4>3. QED
        BY <4>2 DEF Unsorted
    <3>2. ASSUME rank[s] # newRank[t], NEW c \in objectclass[s] PROVE c \in Unsorted'
      <4>1. pc'[t] \in {"setLock", "setSort"} /\ c \in objectclass'[svc'[t]]
        BY <1>1, <2>1, <2>2, <3>2 DEF regState
      <4>2. QED
        BY <4>1 DEF Unsorted
    <3>3. ASSUME NEW c \in Classes, c \notin Unsorted', c \notin skipped'
          PROVE  BestFirst(classServices'[c], rank')
      <4>1. BestFirst(classServices[c], rank) /\ classServices[c] \in Seq(Services)
        BY <1>0, <1>1, <3>1, <3>3 DEF OrderInv, BestFirstWhenSettled, TypeInv
      <4>2. \A x \in ToSet(classServices[c]) : x \in Services /\ c \in objectclass[x]
        BY <1>0, <4>1 DEF ClassInv, ToSet
      <4>3. \A x \in ToSet(classServices[c]) : rank'[x] = rank[x]
        BY <2>9, <3>2, <3>3, <4>2
      <4>4. BestFirst(classServices[c], rank')
        BY <4>1, <4>3, BestFirstAgree, Zenon
      <4>5. QED
        BY <1>1, <4>4 DEF lists
    <3>4. QED
      BY <3>3 DEF OrderInv, BestFirstWhenSettled
  <2>14. QED
    BY <2>4, <2>5, <2>6, <2>8, <2>12, <2>13 DEF IInv
<1>4. QED
  BY <1>2, <1>3 DEF SetRank

LEMMA SetLockKeeps ==
    ASSUME IInv, NEW t \in Threads, SetLock(t) PROVE IInv'
<1>0. /\ TypeInv /\ OwnerInv /\ ThreadsInv /\ UnregInv /\ FreshInv /\ NewInv /\ ListedInv /\ ClassInv
      /\ CompleteInv /\ SeenInv /\ OrderInv
  BY DEF IInv
<1>1. /\ pc[t] = "setLock" /\ svc[t] \in Services
      /\ UNCHANGED <<nextServiceID, rank, regState, lists, sets, told, cleared>>
  BY <1>0 DEF SetLock, TypeInv
<1>2. PICK l \in {"setSort", "setEvent"} : Goto(t, l)
  BY DEF SetLock
<1>3. LocalsType' /\ Others(t) /\ pc'[t] = l /\ svc'[t] = svc[t]
  BY <1>0, <1>2, GotoIs DEF PCs
<1>4. Moves(t)
  BY <1>0, <1>1, <1>3, AtService DEF Moves, UnregPCs, FreshPCs
<1>5. ThreadsInv' /\ UnregInv' /\ FreshInv' /\ NewInv' /\ ListedInv'
  BY <1>0, <1>1, <1>3, <1>4, MoveKeeps DEF Registry, regState, lists
<1>6. ClassInv' /\ CompleteInv'
  BY <1>0, <1>1, ClassQuiet DEF regState, lists
<1>7. CASE Acquire(t) /\ Goto(t, "setSort") /\ UNCHANGED skipped
  <2>1. pc'[t] = "setSort"
    BY <1>0, <1>7, GotoIs DEF PCs
  <2>2. OwnerInv'
    BY <1>0, <1>3, <1>7, <2>1, OwnerAcquires DEF HoldPCs
  <2>3. TypeInv'
    BY <1>0, <1>1, <1>3, <1>7 DEF TypeInv, LocalsType, Acquire, regState, lists
  <2>4. SeenInv'
    <3>1. \A s \in Services : seen'[s] = {rank'[s]}
      BY <1>1, <1>7 DEF Acquire
    <3>2. \A s \in Listed' : s \in Services
      BY <2>3 DEF TypeInv, Listed, ToSet
    <3>3. \A u \in Threads : svc'[u] \in Services
      BY <1>3 DEF LocalsType
    <3>4. owner' \subseteq Threads
      BY <2>2 DEF OwnerInv
    <3>5. QED
      BY <3>1, <3>2, <3>3, <3>4 DEF SeenInv
  <2>5. OrderInv'
    <3>1. ASSUME NEW c \in Unsorted PROVE c \in Unsorted'
      <4>1. PICK u \in Threads : pc[u] \in {"setLock", "setSort"} /\ c \in objectclass[svc[u]]
        BY <3>1, UnsortedIs
      <4>2. pc'[u] \in {"setLock", "setSort"} /\ c \in objectclass'[svc'[u]]
        BY <1>1, <1>3, <2>1, <4>1 DEF Others, regState
      <4>3. QED
        BY <4>2 DEF Unsorted
    <3>2. QED
      BY <1>0, <1>1, <1>7, <3>1 DEF OrderInv, BestFirstWhenSettled, BestFirst, Less, lists
  <2>6. QED
    BY <1>5, <1>6, <2>2, <2>3, <2>4, <2>5 DEF IInv
<1>8. CASE /\ ~bundle[svc[t]] /\ Goto(t, "setEvent") /\ UNCHANGED <<owner, seen>>
           /\ skipped' = skipped \cup objectclass[svc[t]]
  <2>1. pc'[t] = "setEvent"
    BY <1>0, <1>8, GotoIs DEF PCs
  <2>2. OwnerInv'
    BY <1>0, <1>1, <1>3, <1>8, <2>1, OwnerQuiet DEF HoldPCs
  <2>3. TypeInv'
    BY <1>0, <1>1, <1>3, <1>8 DEF TypeInv, LocalsType, regState, lists
  <2>4. SeenInv'
    BY <1>0, <1>1, <1>3, <1>8, <2>1, <2>2, SeenQuiet DEF Listed, lists
  <2>5. OrderInv'
    <3>1. ASSUME NEW c \in Unsorted PROVE c \in Unsorted' \cup skipped'
      <4>1. PICK u \in Threads : pc[u] \in {"setLock", "setSort"} /\ c \in objectclass[svc[u]]
        BY <3>1, UnsortedIs
      <4>2. CASE u # t
        <5>1. pc'[u] \in {"setLock", "setSort"} /\ c \in objectclass'[svc'[u]]
          BY <1>1, <1>3, <4>1, <4>2 DEF Others, regState
        <5>2. QED
          BY <5>1 DEF Unsorted
      <4>3. QED
        BY <1>8, <4>1, <4>2
    <3>2. QED
      BY <1>0, <1>1, <1>8, <3>1 DEF OrderInv, BestFirstWhenSettled, BestFirst, Less, lists
  <2>6. QED
    BY <1>5, <1>6, <2>2, <2>3, <2>4, <2>5 DEF IInv
<1>9. QED
  BY <1>7, <1>8 DEF SetLock

\* A sort that was not disturbed, or whose disturber has yet to sort again.
LEMMA SetSortKeeps ==
    ASSUME IInv, NEW t \in Threads, SetSort(t) PROVE IInv'
<1>0. /\ TypeInv /\ OwnerInv /\ ThreadsInv /\ UnregInv /\ FreshInv /\ NewInv /\ ListedInv /\ ClassInv
      /\ CompleteInv /\ SeenInv /\ OrderInv
  BY DEF IInv
<1> DEFINE cs == objectclass[svc[t]]
<1>1. /\ pc[t] = "setSort" /\ svc[t] \in Services /\ Release /\ Goto(t, "setEvent") /\ skipped' = skipped \ cs
      /\ UNCHANGED <<nextServiceID, rank, regState, serviceRegistrations, sets, told, cleared>>
  BY <1>0 DEF SetSort, TypeInv
<1>2. /\ \A c \in cs \cap Classes : classServices'[c] \in Reordered(classServices[c])
      /\ \A c \in Classes \ cs : classServices'[c] = classServices[c]
      /\ classServices' = [c \in Classes |-> classServices'[c]]
  BY DEF SetSort
<1>3. LocalsType' /\ Others(t) /\ pc'[t] = "setEvent" /\ svc'[t] = svc[t]
  BY <1>0, <1>1, GotoIs DEF PCs
<1>4. Moves(t)
  BY <1>0, <1>1, <1>3, AtService DEF Moves, UnregPCs, FreshPCs
<1>5. ThreadsInv' /\ UnregInv' /\ FreshInv' /\ NewInv' /\ ListedInv'
  BY <1>0, <1>1, <1>3, <1>4, MoveKeeps DEF Registry, regState
<1>6. OwnerInv'
  BY <1>0, <1>1, <1>3, OwnerReleases DEF HoldPCs
<1>7. ASSUME NEW c \in Classes
      PROVE  /\ classServices'[c] \in Seq(Services) /\ IsInjective(classServices'[c])
             /\ ToSet(classServices'[c]) = ToSet(classServices[c])
  <2>1. classServices[c] \in Seq(Services) /\ IsInjective(classServices[c])
    BY <1>0 DEF TypeInv, ClassInv
  <2>2. CASE c \in cs
    <3>1. classServices'[c] \in SetToSeqs(ToSet(classServices[c]))
      BY <1>2, <2>2 DEF Reordered
    <3>2. PICK list \in Seq(Services) : list = classServices[c] /\ IsInjective(list)
      BY <2>1
    <3>21. PICK q \in SetToSeqs(ToSet(list)) : q = classServices'[c]
      BY <3>1, <3>2
    <3>3. q \in Seq(Services) /\ ToSet(q) = ToSet(list) /\ IsInjective(q)
      BY <3>2, SetToSeqsProps, Zenon
    <3>4. QED
      BY <3>2, <3>21, <3>3, Zenon
  <2>3. CASE c \notin cs
    <3>1. classServices'[c] = classServices[c]
      BY <1>2, <2>3
    <3>2. QED
      BY <2>1, <3>1, Zenon
  <2>4. QED
    BY <2>2, <2>3
<1>8. TypeInv'
  <2>1. classServices' \in [Classes -> Seq(Services)]
    BY <1>2, <1>7
  <2>2. QED
    BY <1>0, <1>1, <1>3, <2>1 DEF TypeInv, LocalsType, Release, regState
<1>9. ClassInv' /\ CompleteInv'
  BY <1>0, <1>1, <1>7 DEF ClassInv, CompleteInv, ClearedStay, Listed, regState
<1>10. SeenInv'
  BY <1>1 DEF SeenInv, Release
<1>11. OrderInv'
  <2>1. ASSUME NEW c \in Unsorted, c \notin cs PROVE c \in Unsorted'
    <3>1. PICK u \in Threads : pc[u] \in {"setLock", "setSort"} /\ c \in objectclass[svc[u]]
      BY <2>1, UnsortedIs
    <3>2. u # t
      BY <2>1, <3>1
    <3>3. pc'[u] \in {"setLock", "setSort"} /\ c \in objectclass'[svc'[u]]
      BY <1>1, <1>3, <3>1, <3>2 DEF Others, regState
    <3>4. QED
      BY <3>3 DEF Unsorted
  <2>2. ASSUME NEW c \in Classes, c \notin Unsorted', c \notin skipped', c \in cs
        PROVE  BestFirst(classServices'[c], rank)
    <3>1. ASSUME NEW x \in ToSet(classServices[c]) PROVE Cardinality(seen[x]) = 1
      <4>1. x \in Listed /\ c \in objectclass[x] /\ t \in owner
        BY <1>0, <1>1, <2>2 DEF ClassInv, OwnerInv, HoldPCs
      <4>2. ASSUME NEW u \in Threads, At(u, {"setLock"}, x) PROVE FALSE
        <5>1. u # t
          BY <1>1, <4>2 DEF At
        <5>2. pc'[u] \in {"setLock", "setSort"} /\ c \in objectclass'[svc'[u]]
          BY <1>1, <1>3, <4>1, <4>2, <5>1 DEF Others, regState, At
        <5>3. QED
          BY <2>2, <5>2 DEF Unsorted
      <4>3. seen[x] = {rank[x]}
        BY <1>0, <4>1, <4>2 DEF SeenInv
      <4>4. QED
        BY <4>3, FS_Singleton
    <3>2. classServices'[c] \in Reordered(classServices[c])
      BY <1>2, <2>2
    <3>3. QED
      BY <3>1, <3>2 DEF Reordered
  <2>3. ASSUME NEW c \in Classes, c \notin Unsorted', c \notin skipped', c \notin cs
        PROVE  BestFirst(classServices'[c], rank)
    <3>1. c \notin Unsorted /\ c \notin skipped
      BY <1>1, <2>1, <2>3
    <3>2. BestFirst(classServices[c], rank) /\ classServices'[c] = classServices[c]
      BY <1>0, <1>2, <2>3, <3>1 DEF OrderInv, BestFirstWhenSettled
    <3>3. QED
      BY <3>2, Zenon
  <2>4. \A c \in Classes \ (Unsorted' \cup skipped') : BestFirst(classServices'[c], rank)
    BY <2>2, <2>3
  <2>5. rank' = rank
    BY <1>1
  <2>6. QED
    BY <2>4, <2>5, Zenon DEF OrderInv, BestFirstWhenSettled
<1>12. QED
  BY <1>5, <1>6, <1>8, <1>9, <1>10, <1>11 DEF IInv

-----------------------------------------------------------------------------
(* RegisterService. *)

LEMMA RegisterCreateKeeps ==
    ASSUME IInv, NEW t \in Threads, NEW cs \in ClassSets, NEW r \in Ranks, RegisterCreate(t, cs, r) PROVE IInv'
<1>0. /\ TypeInv /\ OwnerInv /\ ThreadsInv /\ UnregInv /\ FreshInv /\ NewInv /\ ListedInv /\ ClassInv
      /\ CompleteInv /\ SeenInv /\ OrderInv
  BY DEF IInv
<1>1. PICK s \in Services : s = nextServiceID
  BY DEF RegisterCreate
<1>2. /\ pc[t] = "idle" /\ nextServiceID' = s + 1
      /\ objectclass' = [objectclass EXCEPT ![s] = cs] /\ rank' = [rank EXCEPT ![s] = r]
      /\ available' = [available EXCEPT ![s] = TRUE] /\ bundle' = [bundle EXCEPT ![s] = TRUE]
      /\ Call(t, "regLock", s, NoRank)
      /\ UNCHANGED <<unregistering, lists, owner, seen, sets, told, skipped, cleared>>
  BY <1>1 DEF RegisterCreate
<1>3. LocalsType' /\ Others(t) /\ pc'[t] = "regLock" /\ svc'[t] = s
  BY <1>0, <1>2, RankType, CallIs DEF PCs
<1>4. /\ \A x \in Services \ {s} : available'[x] = available[x] /\ bundle'[x] = bundle[x]
      /\ available'[s] /\ bundle'[s]
      /\ unregistering' = unregistering /\ told' = told
  BY <1>0, <1>2 DEF TypeInv
<1>5. /\ \A x \in Services \ {s} : rank'[x] = rank[x] /\ objectclass'[x] = objectclass[x]
      /\ serviceRegistrations' = serviceRegistrations /\ classServices' = classServices
      /\ owner' = owner /\ seen' = seen /\ skipped' = skipped /\ cleared' = cleared
  BY <1>0, <1>2 DEF TypeInv, lists
<1>6. s \in Int /\ nextServiceID \in Int /\ (\A x \in Services : x \in Int) /\ nextServiceID' = nextServiceID + 1
  BY <1>1, <1>2 DEF Services
<1>7. ~unregistering[s] /\ told[s] = 0 /\ s \notin Listed /\ s \notin cleared /\ ~available[s] /\ ~bundle[s]
  BY <1>0, <1>1, <1>6 DEF FreshInv, NewInv
<1>8. \A u \in Threads : pc[u] # "idle" => svc[u] \in Services \ {s} /\ u # t
  BY <1>0, <1>1, <1>2, <1>6 DEF ThreadsInv, TypeInv
<1>9. TypeInv'
  <2>1. nextServiceID' \in 1 .. MaxServices + 1
    BY <1>2, RegistryAssumption DEF Services
  <2>2. objectclass' \in [Services -> SUBSET Classes] /\ rank' \in [Services -> Ranks]
    BY <1>0, <1>2, RegistryAssumption DEF TypeInv
  <2>3. available' \in [Services -> BOOLEAN] /\ bundle' \in [Services -> BOOLEAN] /\ unregistering' \in [Services -> BOOLEAN]
    BY <1>0, <1>2 DEF TypeInv
  <2>4. QED
    BY <1>0, <1>2, <1>3, <2>1, <2>2, <2>3 DEF TypeInv, LocalsType, lists
<1>10. OwnerInv'
  BY <1>0, <1>2, <1>3, OwnerQuiet DEF HoldPCs
<1>11. \A u \in Threads : pc'[u] \in UnregPCs => pc[u] = pc'[u] /\ svc'[u] = svc[u] /\ svc[u] \in Services \ {s} /\ u # t
  BY <1>3, <1>8 DEF Others, UnregPCs
<1>12. ThreadsInv'
  <2>1. \A u \in Threads : pc'[u] # "idle" => svc'[u] < nextServiceID'
    <3>1. ASSUME NEW u \in Threads, pc'[u] # "idle" PROVE svc'[u] < nextServiceID'
      <4>1. CASE u = t
        BY <1>1, <1>3, <1>6, <4>1
      <4>2. CASE u # t
        <5>1. svc'[u] = svc[u] /\ svc[u] < nextServiceID /\ svc[u] \in Int
          BY <1>0, <1>3, <1>6, <3>1, <4>2 DEF Others, ThreadsInv, TypeInv
        <5>2. QED
          BY <1>6, <5>1
      <4>3. QED
        BY <4>1, <4>2
    <3>2. QED
      BY <3>1
  <2>2. \A u, v \in Threads : pc'[u] \in FreshPCs /\ svc'[v] = svc'[u] /\ v # u => pc'[v] = "idle"
    BY <1>0, <1>3, <1>8 DEF Others, ThreadsInv, FreshPCs
  <2>3. QED
    BY <2>1, <2>2 DEF ThreadsInv
<1>13. UnregInv'
  <2>1. \A u \in Threads : pc'[u] \in UnregPCs => unregistering'[svc'[u]]
    BY <1>0, <1>4, <1>11 DEF UnregInv
  <2>2. \A u, v \in Threads : pc'[u] \in UnregPCs /\ At(v, UnregPCs, svc[u])' => u = v
    BY <1>0, <1>11 DEF UnregInv, At
  <2>3. \A u \in Threads : pc'[u] \in {"unregRemove", "unregEvent"} => bundle'[svc'[u]] /\ told'[svc'[u]] = 0
    BY <1>0, <1>4, <1>11 DEF UnregInv, UnregPCs
  <2>4. \A u \in Threads : pc'[u] = "unregClear" => bundle'[svc'[u]] /\ ~available'[svc'[u]]
    BY <1>0, <1>4, <1>11 DEF UnregInv, UnregPCs
  <2>5. \A u \in Threads, x \in Services : /\ At(u, {"unregClear"}, x) => At(u, {"unregClear"}, x)'
                                           /\ At(u, {"unregMark", "unregClear"}, x) => At(u, {"unregMark", "unregClear"}, x)'
    BY <1>2, <1>3 DEF Others, At
  <2>6. \A x \in Services : bundle'[x] /\ ~available'[x] => \E u \in Threads : At(u, {"unregClear"}, x)'
    BY <1>0, <1>4, <2>5 DEF UnregInv
  <2>7. \A x \in Services : told'[x] # 0 =>
            told'[x] = 1 /\ (bundle'[x] => \E u \in Threads : At(u, {"unregMark", "unregClear"}, x)')
    BY <1>0, <1>4, <1>7, <2>5 DEF UnregInv
  <2>8. QED
    BY <2>1, <2>2, <2>3, <2>4, <2>6, <2>7 DEF UnregInv
<1>14. FreshInv'
  <2>1. ASSUME NEW x \in Services, x >= nextServiceID' \/ \E u \in Threads : At(u, FreshPCs, x)'
        PROVE  x = s \/ x >= nextServiceID \/ \E u \in Threads : At(u, FreshPCs, x)
    <3>1. CASE x >= nextServiceID'
      BY <1>6, <3>1
    <3>2. ASSUME NEW u \in Threads, At(u, FreshPCs, x)' PROVE x = s \/ At(u, FreshPCs, x)
      BY <1>3, <3>2 DEF At, Others
    <3>3. QED
      BY <2>1, <3>1, <3>2
  <2>2. QED
    BY <1>0, <1>4, <1>5, <1>7, <2>1 DEF FreshInv, Listed
<1>15. NewInv'
  <2>1. \A x \in Services : x >= nextServiceID' => x >= nextServiceID /\ x # s
    BY <1>1, <1>6
  <2>2. \A u \in Threads :
          pc'[u] \in FreshPCs =>
              (svc'[u] = s \/ (pc[u] \in FreshPCs /\ svc'[u] = svc[u] /\ svc[u] \in Services \ {s}))
    BY <1>3, <1>8 DEF Others, FreshPCs
  <2>3. QED
    BY <1>0, <1>4, <2>1, <2>2 DEF NewInv
<1>16. ListedInv'
  <2>1. Listed' = Listed /\ Listed \subseteq Services \ {s}
    BY <1>0, <1>5, <1>7 DEF Listed, TypeInv, ToSet
  <2>2. \A u \in Threads : pc'[u] \in EndPCs => svc'[u] \notin Listed'
    BY <1>0, <1>11, <2>1 DEF ListedInv, EndPCs, UnregPCs
  <2>3. \A u \in Threads, x \in Services : At(u, FreshPCs \cup EndPCs, x) => At(u, FreshPCs \cup EndPCs, x)'
    BY <1>2, <1>3 DEF Others, At, FreshPCs, EndPCs
  <2>4. At(t, FreshPCs \cup EndPCs, s)'
    BY <1>3 DEF At, FreshPCs
  <2>5. \A x \in Services : bundle'[x] => \/ x \in Listed' \cup cleared'
                                         \/ \E u \in Threads : At(u, FreshPCs \cup EndPCs, x)'
    BY <1>0, <1>4, <1>5, <2>1, <2>3, <2>4 DEF ListedInv
  <2>6. \A x \in Listed' : available'[x] /\ bundle'[x]
    BY <1>0, <1>4, <2>1 DEF ListedInv
  <2>7. QED
    BY <1>0, <1>5, <2>2, <2>5, <2>6 DEF ListedInv
<1>17. \A x \in Listed : x \in Services \ {s} /\ objectclass'[x] = objectclass[x] /\ rank'[x] = rank[x]
  BY <1>0, <1>5, <1>7 DEF Listed, TypeInv, ToSet
<1>18. ClassInv'
  BY <1>0, <1>5, <1>17 DEF ClassInv, Listed
<1>19. CompleteInv'
  <2>1. ClearedStay' => ClearedStay
    BY <1>0, <1>4, <1>5, <1>7 DEF ClearedStay, TypeInv
  <2>2. QED
    BY <1>0, <1>5, <1>17, <2>1 DEF CompleteInv, Listed
<1>20. SeenInv'
  <2>1. ASSUME NEW u \in owner', pc'[u] = "regInsert" PROVE seen'[svc'[u]] = {rank'[svc'[u]]}
    <3>1. u \in Threads /\ u \in owner /\ u # t
      BY <1>0, <1>3, <1>5, <2>1 DEF OwnerInv
    <3>2. pc[u] = "regInsert" /\ svc'[u] = svc[u] /\ svc[u] \in Services \ {s}
      BY <1>3, <1>8, <2>1, <3>1 DEF Others
    <3>3. QED
      BY <1>0, <1>5, <3>1, <3>2 DEF SeenInv
  <2>2. ASSUME NEW u \in owner', NEW x \in Listed'
        PROVE  seen'[x] = {rank'[x]} \/ \E v \in Threads : At(v, {"setLock"}, x)'
    <3>1. \A v \in Threads : At(v, {"setLock"}, x) => At(v, {"setLock"}, x)'
      BY <1>2, <1>3 DEF At, Others
    <3>2. x \in Listed /\ u \in owner
      BY <1>5, <2>2 DEF Listed
    <3>3. QED
      BY <1>0, <1>5, <1>17, <3>1, <3>2 DEF SeenInv
  <2>3. QED
    BY <2>1, <2>2 DEF SeenInv
<1>21. OrderInv'
  <2>1. ASSUME NEW c \in Unsorted PROVE c \in Unsorted'
    <3>1. PICK u \in Threads : pc[u] \in {"setLock", "setSort"} /\ c \in objectclass[svc[u]]
      BY <2>1, UnsortedIs
    <3>2. pc'[u] \in {"setLock", "setSort"} /\ c \in objectclass'[svc'[u]]
      BY <1>3, <1>5, <1>8, <3>1 DEF Others
    <3>3. QED
      BY <3>2 DEF Unsorted
  <2>2. ASSUME NEW c \in Classes, c \notin Unsorted', c \notin skipped'
        PROVE  BestFirst(classServices'[c], rank')
    <3>1. BestFirst(classServices[c], rank) /\ classServices[c] \in Seq(Services)
      BY <1>0, <1>5, <2>1, <2>2 DEF OrderInv, BestFirstWhenSettled, TypeInv
    <3>2. \A x \in ToSet(classServices[c]) : rank'[x] = rank[x]
      BY <1>0, <1>17 DEF ClassInv
    <3>3. BestFirst(classServices[c], rank')
      BY <3>1, <3>2, BestFirstAgree, Zenon
    <3>4. QED
      BY <1>5, <3>3
  <2>3. QED
    BY <2>2 DEF OrderInv, BestFirstWhenSettled
<1>22. QED
  BY <1>9, <1>10, <1>12, <1>13, <1>14, <1>15, <1>16, <1>18, <1>19, <1>20, <1>21 DEF IInv

\* The service takes its place in the lists: the right one where the list is in order.
LEMMA RegisterInsertKeeps ==
    ASSUME IInv, NEW t \in Threads, RegisterInsert(t) PROVE IInv'
<1>0. /\ TypeInv /\ OwnerInv /\ ThreadsInv /\ UnregInv /\ FreshInv /\ NewInv /\ ListedInv /\ ClassInv
      /\ CompleteInv /\ SeenInv /\ OrderInv
  BY DEF IInv
<1>1. PICK s \in Services : s = svc[t]
  BY <1>0 DEF TypeInv
<1>2. /\ pc[t] = "regInsert" /\ Release /\ Goto(t, "regReference")
      /\ serviceRegistrations' = Append(serviceRegistrations, s)
      /\ UNCHANGED <<nextServiceID, rank, regState, sets, told, skipped, cleared>>
  BY <1>1 DEF RegisterInsert
<1>3. PICK r \in Views :
        classServices' = [c \in Classes |-> IF c \in objectclass[s] THEN Inserted(classServices[c], s, r)
                                                                     ELSE classServices[c]]
  BY <1>1 DEF RegisterInsert
<1>4. LocalsType' /\ Others(t) /\ pc'[t] = "regReference" /\ svc'[t] = s
  BY <1>0, <1>1, <1>2, GotoIs DEF PCs
<1>5. /\ nextServiceID' = nextServiceID /\ available' = available /\ unregistering' = unregistering
      /\ bundle' = bundle /\ told' = told /\ cleared' = cleared /\ objectclass' = objectclass
      /\ rank' = rank /\ skipped' = skipped
  BY <1>2 DEF regState
<1>6. /\ s < nextServiceID /\ s \notin Listed /\ ~unregistering[s] /\ told[s] = 0 /\ s \notin cleared
      /\ \A u \in Threads \ {t} : svc[u] = s => pc[u] = "idle"
  BY <1>0, <1>1, <1>2 DEF ThreadsInv, FreshInv, At, FreshPCs
<1>7. OwnerInv'
  BY <1>0, <1>2, <1>4, OwnerReleases DEF HoldPCs
<1>8. available[s] /\ bundle[s]
  BY <1>0, <1>1, <1>2 DEF NewInv, FreshPCs
<1>9. /\ serviceRegistrations' \in Seq(Services) /\ Listed' = Listed \cup {s}
      /\ IsInjective(serviceRegistrations')
  <2>1. /\ serviceRegistrations \in Seq(Services) /\ IsInjective(serviceRegistrations)
        /\ s \notin ToSet(serviceRegistrations)
    BY <1>0, <1>6, Zenon DEF TypeInv, ListedInv, Listed
  <2>2. PICK z : z = Append(serviceRegistrations, s)
    OBVIOUS
  <2>3. z \in Seq(Services) /\ ToSet(z) = ToSet(serviceRegistrations) \cup {s} /\ IsInjective(z)
    BY <2>1, <2>2, AppendProps, ZenonT(200)
  <2>4. serviceRegistrations' = z
    BY <1>2, <2>2, Zenon
  <2>5. QED
    BY <2>3, <2>4, Zenon DEF Listed
<1>10. ASSUME NEW c \in Classes
       PROVE  /\ classServices'[c] \in Seq(Services) /\ IsInjective(classServices'[c])
              /\ ToSet(classServices'[c]) = IF c \in objectclass[s] THEN ToSet(classServices[c]) \cup {s}
                                                                    ELSE ToSet(classServices[c])
  <2>1. /\ classServices[c] \in Seq(Services) /\ IsInjective(classServices[c])
        /\ s \notin ToSet(classServices[c])
    BY <1>0, <1>6 DEF TypeInv, ClassInv
  <2>2. CASE c \in objectclass[s]
    <3>1. PICK z : z = Inserted(classServices[c], s, r)
      OBVIOUS
    <3>2. classServices'[c] = z
      BY <1>3, <2>2, <3>1
    <3>3. z \in Seq(Services) /\ ToSet(z) = ToSet(classServices[c]) \cup {s} /\ IsInjective(z)
      BY <2>1, <3>1, InsertedProps, Zenon
    <3>4. QED
      BY <2>2, <3>2, <3>3, Zenon
  <2>3. CASE c \notin objectclass[s]
    <3>1. classServices'[c] = classServices[c]
      BY <1>3, <2>3
    <3>2. QED
      BY <2>1, <2>3, <3>1, Zenon
  <2>4. QED
    BY <2>2, <2>3
<1>11. TypeInv'
  <2>1. classServices' \in [Classes -> Seq(Services)]
    BY <1>3, <1>10
  <2>2. QED
    BY <1>0, <1>2, <1>4, <1>9, <2>1 DEF TypeInv, LocalsType, Release, regState
<1>12. ThreadsInv'
  <2>1. \A u \in Threads : pc'[u] # "idle" => svc'[u] < nextServiceID'
    BY <1>0, <1>4, <1>5, <1>6 DEF Others, ThreadsInv
  <2>2. \A u, v \in Threads : pc'[u] \in FreshPCs /\ svc'[v] = svc'[u] /\ v # u => pc'[v] = "idle"
    BY <1>0, <1>4, <1>6 DEF Others, ThreadsInv, FreshPCs
  <2>3. QED
    BY <2>1, <2>2 DEF ThreadsInv
<1>13. \A u \in Threads : pc'[u] \in UnregPCs => pc[u] = pc'[u] /\ svc'[u] = svc[u] /\ svc[u] # s
  BY <1>4, <1>6 DEF Others, UnregPCs
<1>14. UnregInv'
  <2>1. \A u \in Threads : pc'[u] \in UnregPCs => unregistering'[svc'[u]]
    BY <1>0, <1>5, <1>13 DEF UnregInv
  <2>2. \A u, v \in Threads : pc'[u] \in UnregPCs /\ At(v, UnregPCs, svc[u])' => u = v
    BY <1>0, <1>13 DEF UnregInv, At
  <2>3. \A u \in Threads : pc'[u] \in {"unregRemove", "unregEvent"} => bundle'[svc'[u]] /\ told'[svc'[u]] = 0
    BY <1>0, <1>5, <1>13 DEF UnregInv, UnregPCs
  <2>4. \A u \in Threads : pc'[u] = "unregClear" => bundle'[svc'[u]] /\ ~available'[svc'[u]]
    BY <1>0, <1>5, <1>13 DEF UnregInv, UnregPCs
  <2>5. \A u \in Threads, x \in Services : /\ At(u, {"unregClear"}, x) => At(u, {"unregClear"}, x)'
                                           /\ At(u, {"unregMark", "unregClear"}, x) => At(u, {"unregMark", "unregClear"}, x)'
    BY <1>2, <1>4 DEF Others, At
  <2>6. \A x \in Services : bundle'[x] /\ ~available'[x] => \E u \in Threads : At(u, {"unregClear"}, x)'
    BY <1>0, <1>5, <2>5 DEF UnregInv
  <2>7. \A x \in Services : told'[x] # 0 =>
            told'[x] = 1 /\ (bundle'[x] => \E u \in Threads : At(u, {"unregMark", "unregClear"}, x)')
    BY <1>0, <1>5, <2>5 DEF UnregInv
  <2>8. QED
    BY <2>1, <2>2, <2>3, <2>4, <2>6, <2>7 DEF UnregInv
<1>15. FreshInv'
  <2>1. \A u \in Threads, x \in Services : At(u, FreshPCs, x)' => At(u, FreshPCs, x) /\ x # s
    BY <1>4, <1>6 DEF At, Others, FreshPCs
  <2>2. \A x \in Services : x >= nextServiceID' => x >= nextServiceID /\ x # s
    BY <1>0, <1>5, <1>6 DEF Services, TypeInv
  <2>3. QED
    BY <1>0, <1>5, <1>9, <2>1, <2>2 DEF FreshInv
<1>16. NewInv'
  <2>1. \A u \in Threads : pc'[u] \in FreshPCs => pc[u] \in FreshPCs /\ svc'[u] = svc[u]
    BY <1>4 DEF Others, FreshPCs
  <2>2. QED
    BY <1>0, <1>5, <2>1 DEF NewInv
<1>17. ListedInv'
  <2>1. \A u \in Threads : pc'[u] \in EndPCs => svc'[u] \notin Listed'
    BY <1>0, <1>9, <1>13 DEF ListedInv, EndPCs, UnregPCs
  <2>2. \A u \in Threads, x \in Services : At(u, FreshPCs \cup EndPCs, x) => x = s \/ At(u, FreshPCs \cup EndPCs, x)'
    BY <1>1, <1>4 DEF Others, At
  <2>3. \A x \in Services : bundle'[x] => \/ x \in Listed' \cup cleared'
                                         \/ \E u \in Threads : At(u, FreshPCs \cup EndPCs, x)'
    BY <1>0, <1>5, <1>9, <2>2 DEF ListedInv
  <2>4. \A x \in Listed' : available'[x] /\ bundle'[x]
    BY <1>0, <1>5, <1>8, <1>9 DEF ListedInv
  <2>5. QED
    BY <1>9, <2>1, <2>3, <2>4 DEF ListedInv
<1>18. ClassInv'
  BY <1>0, <1>5, <1>9, <1>10 DEF ClassInv
<1>19. CompleteInv'
  <2>1. ClearedStay' => ClearedStay
    BY <1>5 DEF ClearedStay
  <2>2. QED
    BY <1>0, <1>5, <1>9, <1>10, <2>1 DEF CompleteInv
<1>20. SeenInv'
  BY <1>2 DEF SeenInv, Release
<1>21. OrderInv'
  <2>1. ASSUME NEW c \in Unsorted PROVE c \in Unsorted'
    <3>1. PICK u \in Threads : pc[u] \in {"setLock", "setSort"} /\ c \in objectclass[svc[u]]
      BY <2>1, UnsortedIs
    <3>2. pc'[u] \in {"setLock", "setSort"} /\ c \in objectclass'[svc'[u]]
      BY <1>2, <1>4, <1>5, <3>1 DEF Others
    <3>3. QED
      BY <3>2 DEF Unsorted
  <2>2. ASSUME NEW c \in Classes, c \notin Unsorted', c \notin skipped'
        PROVE  BestFirst(classServices'[c], rank)
    <3>1. /\ BestFirst(classServices[c], rank) /\ classServices[c] \in Seq(Services)
          /\ c \notin Unsorted
      BY <1>0, <1>5, <2>1, <2>2 DEF OrderInv, BestFirstWhenSettled, TypeInv
    <3>2. CASE c \notin objectclass[s]
      <4>1. classServices'[c] = classServices[c]
        BY <1>3, <3>2
      <4>2. QED
        BY <3>1, <4>1, Zenon
    <3>3. CASE c \in objectclass[s]
      <4>1. r \in [Services -> Ranks] /\ t \in owner /\ seen[s] = {rank[s]} /\ r[s] = rank[s]
        <5>1. t \in owner
          BY <1>0, <1>2 DEF OwnerInv, HoldPCs
        <5>2. seen[s] = {rank[s]}
          BY <1>0, <1>1, <1>2, <5>1 DEF SeenInv
        <5>3. r \in [Services -> Ranks] /\ r[s] \in seen[s]
          BY <1>3 DEF Views
        <5>4. QED
          BY <5>1, <5>2, <5>3
      <4>2. ASSUME NEW x \in ToSet(classServices[c]) PROVE r[x] = rank[x] /\ rank[x] = r[x]
        <5>1. x \in Listed /\ c \in objectclass[x] /\ x \in Services
          BY <1>0, <3>1 DEF ClassInv, ToSet
        <5>2. ~ \E u \in Threads : At(u, {"setLock"}, x)
          BY <3>1, <5>1, UnsortedIs DEF At
        <5>3. seen[x] = {rank[x]}
          BY <1>0, <4>1, <5>1, <5>2 DEF SeenInv
        <5>4. QED
          BY <1>3, <5>1, <5>3 DEF Views
      <4>3. BestFirst(classServices[c], r) /\ s \notin ToSet(classServices[c])
        <5>1. BestFirst(classServices[c], r)
          BY <3>1, <4>2, BestFirstAgree, Zenon
        <5>2. QED
          BY <1>0, <1>6, <5>1 DEF ClassInv
      <4>4. PICK z : z = Inserted(classServices[c], s, r)
        OBVIOUS
      <4>5. BestFirst(z, r)
        BY <3>1, <4>1, <4>3, <4>4, InsertedOrder, Zenon
      <4>6. classServices'[c] = z
        BY <1>3, <3>3, <4>4
      <4>7. z \in Seq(Services) /\ ToSet(z) = ToSet(classServices[c]) \cup {s}
        BY <1>10, <3>3, <4>6
      <4>8. \A x \in ToSet(z) : rank[x] = r[x]
        BY <4>1, <4>2, <4>7
      <4>9. BestFirst(z, rank)
        BY <4>5, <4>7, <4>8, BestFirstAgree, Zenon
      <4>10. QED
        BY <4>6, <4>9, Zenon
    <3>4. QED
      BY <3>2, <3>3
  <2>3. QED
    BY <1>5, <2>2, Zenon DEF OrderInv, BestFirstWhenSettled
<1>22. QED
  BY <1>7, <1>11, <1>12, <1>14, <1>15, <1>16, <1>17, <1>18, <1>19, <1>20, <1>21 DEF IInv

-----------------------------------------------------------------------------
(* Unregister. *)

\* The service of a thread that unregisters it is not fresh.
LEMMA NotFresh ==
    ASSUME TypeInv, ThreadsInv, NEW t \in Threads, pc[t] \notin FreshPCs, pc[t] # "idle"
    PROVE  /\ svc[t] \in Services /\ svc[t] < nextServiceID
           /\ \A u \in Threads : ~ At(u, FreshPCs, svc[t])
BY AtService DEF Open, At

\* What all these steps have in common: the thread leaves its position for one outside of a
\* registration and of a critical section, and everybody's registration goes on.
LEMMA UnregMoves ==
    ASSUME OwnerInv, TypeInv, ThreadsInv, SeenInv, ListedInv, NewInv, NEW t \in Threads, LocalsType', Others(t),
           pc[t] \in UnregPCs \cup {"unregCas"},
           pc'[t] \in UnregPCs \cup {"idle", "fault"}, pc'[t] # "idle" => svc'[t] = svc[t],
           UNCHANGED <<nextServiceID, owner, seen, rank>>, Listed' \subseteq Listed
    PROVE  OwnerInv' /\ ThreadsInv' /\ SeenInv'
<1>1. /\ pc[t] \notin HoldPCs \cup FreshPCs \cup {"idle", "setLock"}
      /\ pc'[t] \notin HoldPCs \cup FreshPCs
  BY DEF UnregPCs, HoldPCs, FreshPCs
<1>2. OwnerInv'
  BY <1>1, OwnerQuiet
<1>3. SeenInv'
  BY <1>1, <1>2, SeenQuiet DEF HoldPCs
<1>4. ThreadsInv'
  <2>1. \A u \in Threads : pc'[u] # "idle" => svc'[u] < nextServiceID'
    BY <1>1 DEF Others, ThreadsInv
  <2>2. \A u, v \in Threads : pc'[u] \in FreshPCs /\ svc'[v] = svc'[u] /\ v # u => pc'[v] = "idle"
    BY <1>1 DEF Others, ThreadsInv
  <2>3. QED
    BY <2>1, <2>2 DEF ThreadsInv
<1>5. QED
  BY <1>2, <1>3, <1>4

LEMMA UnregisterCasKeeps ==
    ASSUME IInv, NEW t \in Threads, UnregisterCas(t) PROVE IInv'
<1>0. /\ TypeInv /\ OwnerInv /\ ThreadsInv /\ UnregInv /\ FreshInv /\ NewInv /\ ListedInv /\ ClassInv
      /\ CompleteInv /\ SeenInv /\ OrderInv
  BY DEF IInv
<1>1. PICK s \in Services : s = svc[t]
  BY <1>0 DEF TypeInv
<1>2. /\ pc[t] = "unregCas" /\ unregistering' = [unregistering EXCEPT ![s] = TRUE]
      /\ UNCHANGED <<nextServiceID, rank, objectclass, available, bundle, lists, owner, seen,
                     sets, told, skipped, cleared>>
  BY <1>1 DEF UnregisterCas
<1>3. PICK l \in {"idle", "unregRemove", "unregMark"} :
        /\ Goto(t, l)
        /\ l # "idle" => ~unregistering[s]
        /\ l = "unregRemove" => bundle[s]
        /\ l = "unregMark" => ~bundle[s]
  <2>1. CASE unregistering[s]
    BY <1>1, <2>1 DEF UnregisterCas
  <2>2. CASE ~unregistering[s] /\ bundle[s]
    BY <1>1, <2>2 DEF UnregisterCas
  <2>3. CASE ~unregistering[s] /\ ~bundle[s]
    BY <1>1, <2>3 DEF UnregisterCas
  <2>4. QED
    BY <2>1, <2>2, <2>3
<1>4. LocalsType' /\ Others(t) /\ pc'[t] = l /\ (l # "idle" => svc'[t] = s)
  BY <1>0, <1>1, <1>3, GotoIs DEF PCs
<1>5. /\ serviceRegistrations' = serviceRegistrations /\ classServices' = classServices
      /\ nextServiceID' = nextServiceID /\ available' = available /\ bundle' = bundle /\ told' = told
      /\ cleared' = cleared /\ objectclass' = objectclass /\ Listed' = Listed
  BY <1>2 DEF lists, Listed
<1>6. unregistering'[s] /\ \A x \in Services \ {s} : unregistering'[x] = unregistering[x]
  BY <1>0, <1>2 DEF TypeInv
<1>7. OwnerInv' /\ ThreadsInv' /\ SeenInv'
  BY <1>0, <1>1, <1>2, <1>4, <1>5, UnregMoves DEF UnregPCs
<1>8. s < nextServiceID /\ \A u \in Threads : ~ At(u, FreshPCs, s)
  BY <1>0, <1>1, <1>2, NotFresh DEF FreshPCs
<1>9. \A u \in Threads \ {t} : pc'[u] = pc[u] /\ svc'[u] = svc[u] /\ svc[u] \in Services
  BY <1>0, <1>4 DEF Others, TypeInv
<1>10. TypeInv'
  <2>1. unregistering' \in [Services -> BOOLEAN]
    BY <1>0, <1>2 DEF TypeInv
  <2>2. QED
    BY <1>0, <1>2, <1>4, <2>1 DEF TypeInv, LocalsType, lists
<1>11. l # "idle" => \A u \in Threads : ~ At(u, UnregPCs, s)
  BY <1>0, <1>3 DEF UnregInv, At
<1>12. \A u \in Threads, x \in Services : /\ At(u, {"unregClear"}, x) => At(u, {"unregClear"}, x)'
                                          /\ At(u, {"unregMark", "unregClear"}, x) => At(u, {"unregMark", "unregClear"}, x)'
                                          /\ At(u, FreshPCs \cup EndPCs, x) => At(u, FreshPCs \cup EndPCs, x)'
  BY <1>2, <1>9 DEF At, FreshPCs, EndPCs
<1>13. UnregInv'
  <2>1. \A u \in Threads : pc'[u] \in UnregPCs => unregistering'[svc'[u]]
    BY <1>0, <1>4, <1>6, <1>9 DEF UnregInv, UnregPCs
  <2>2. \A u, v \in Threads : pc'[u] \in UnregPCs /\ At(v, UnregPCs, svc[u])' => u = v
    BY <1>0, <1>4, <1>9, <1>11 DEF UnregInv, UnregPCs, At
  <2>3. ASSUME NEW u \in Threads, pc'[u] \in {"unregRemove", "unregEvent"}
        PROVE  bundle'[svc'[u]] /\ told'[svc'[u]] = 0
    <3>1. CASE u # t
      BY <1>0, <1>5, <1>9, <2>3, <3>1 DEF UnregInv
    <3>2. CASE u = t
      <4>1. l = "unregRemove" /\ svc'[u] = s /\ bundle[s]
        BY <1>3, <1>4, <2>3, <3>2
      <4>2. \A v \in Threads : ~ At(v, {"unregMark", "unregClear"}, s)
        BY <1>11, <4>1 DEF At, UnregPCs
      <4>3. told[s] = 0
        BY <1>0, <4>1, <4>2 DEF UnregInv
      <4>4. QED
        BY <1>5, <4>1, <4>3
    <3>3. QED
      BY <3>1, <3>2
  <2>4. \A u \in Threads : pc'[u] = "unregClear" => bundle'[svc'[u]] /\ ~available'[svc'[u]]
    BY <1>0, <1>4, <1>5, <1>9 DEF UnregInv
  <2>5. \A x \in Services : bundle'[x] /\ ~available'[x] => \E u \in Threads : At(u, {"unregClear"}, x)'
    BY <1>0, <1>5, <1>12 DEF UnregInv
  <2>6. \A x \in Services : told'[x] # 0 =>
            told'[x] = 1 /\ (bundle'[x] => \E u \in Threads : At(u, {"unregMark", "unregClear"}, x)')
    BY <1>0, <1>5, <1>12 DEF UnregInv
  <2>7. QED
    BY <2>1, <2>2, <2>3, <2>4, <2>5, <2>6 DEF UnregInv
<1>14. FreshInv' /\ NewInv'
  <2>1. \A u \in Threads, x \in Services : At(u, FreshPCs, x)' => At(u, FreshPCs, x) /\ x # s
    BY <1>4, <1>8, <1>9 DEF At, FreshPCs
  <2>2. \A x \in Services : x >= nextServiceID => x # s
    BY <1>0, <1>8 DEF Services, TypeInv
  <2>3. FreshInv'
    BY <1>0, <1>5, <1>6, <2>1, <2>2 DEF FreshInv
  <2>4. \A u \in Threads : pc'[u] \in FreshPCs => pc[u] = pc'[u] /\ svc'[u] = svc[u]
    BY <1>4, <1>9 DEF FreshPCs
  <2>5. NewInv'
    BY <1>0, <1>5, <2>4 DEF NewInv
  <2>6. QED
    BY <2>3, <2>5
<1>15. ListedInv'
  <2>1. \A u \in Threads : pc'[u] \in EndPCs => svc'[u] \notin Listed'
    BY <1>0, <1>3, <1>4, <1>5, <1>9 DEF ListedInv, EndPCs
  <2>2. QED
    BY <1>0, <1>5, <1>12, <2>1 DEF ListedInv
<1>16. ClassInv' /\ CompleteInv'
  <2>1. ClearedStay' => ClearedStay
    BY <1>0, <1>5, <1>6 DEF ClearedStay, TypeInv
  <2>2. QED
    BY <1>0, <1>5, <2>1 DEF ClassInv, CompleteInv
<1>17. OrderInv'
  BY <1>0, <1>2, <1>4, OrderQuiet DEF lists
<1>18. QED
  BY <1>7, <1>10, <1>13, <1>14, <1>15, <1>16, <1>17 DEF IInv

LEMMA UnregisterEventKeeps ==
    ASSUME IInv, NEW t \in Threads, UnregisterEvent(t) PROVE IInv'
<1>0. /\ TypeInv /\ OwnerInv /\ ThreadsInv /\ UnregInv /\ FreshInv /\ NewInv /\ ListedInv /\ ClassInv
      /\ CompleteInv /\ SeenInv /\ OrderInv
  BY DEF IInv
<1>1. PICK s \in Services : s = svc[t]
  BY <1>0 DEF TypeInv
<1>2. /\ pc[t] = "unregEvent" /\ told' = [told EXCEPT ![s] = @ + 1] /\ Goto(t, "unregMark")
      /\ UNCHANGED <<nextServiceID, rank, regState, lists, owner, seen, sets, skipped, cleared>>
  BY <1>1 DEF UnregisterEvent
<1>4. LocalsType' /\ Others(t) /\ pc'[t] = "unregMark" /\ svc'[t] = s
  BY <1>0, <1>1, <1>2, GotoIs DEF PCs
<1>5. /\ serviceRegistrations' = serviceRegistrations /\ classServices' = classServices
      /\ nextServiceID' = nextServiceID /\ available' = available /\ bundle' = bundle
      /\ unregistering' = unregistering
      /\ cleared' = cleared /\ objectclass' = objectclass /\ Listed' = Listed
  BY <1>2 DEF lists, Listed, regState
<1>6. told'[s] = 1 /\ \A x \in Services \ {s} : told'[x] = told[x]
  BY <1>0, <1>1, <1>2 DEF TypeInv, UnregInv
<1>7. OwnerInv' /\ ThreadsInv' /\ SeenInv'
  BY <1>0, <1>1, <1>2, <1>4, <1>5, UnregMoves DEF UnregPCs
<1>8. s < nextServiceID /\ \A u \in Threads : ~ At(u, FreshPCs, s)
  BY <1>0, <1>1, <1>2, NotFresh DEF FreshPCs
<1>9. \A u \in Threads \ {t} : pc'[u] = pc[u] /\ svc'[u] = svc[u] /\ svc[u] \in Services
  BY <1>0, <1>4 DEF Others, TypeInv
<1>11. \A u \in Threads \ {t} : ~ At(u, UnregPCs, s)
  BY <1>0, <1>1, <1>2 DEF UnregInv, At, UnregPCs
<1>12. \A u \in Threads, x \in Services :
         x # s => /\ At(u, {"unregClear"}, x) => At(u, {"unregClear"}, x)'
                  /\ At(u, {"unregMark", "unregClear"}, x) => At(u, {"unregMark", "unregClear"}, x)'
                  /\ At(u, FreshPCs \cup EndPCs, x) => At(u, FreshPCs \cup EndPCs, x)'
  BY <1>1, <1>9 DEF At
<1>10. TypeInv'
  <2>1. told' \in [Services -> Nat]
    BY <1>0, <1>2 DEF TypeInv
  <2>2. QED
    BY <1>0, <1>2, <1>4, <2>1 DEF TypeInv, LocalsType, lists, regState
<1>13. UnregInv'
  <2>1. \A u \in Threads : pc'[u] \in UnregPCs => unregistering'[svc'[u]]
    BY <1>0, <1>1, <1>2, <1>4, <1>5, <1>9 DEF UnregInv, UnregPCs
  <2>2. \A u, v \in Threads : pc'[u] \in UnregPCs /\ At(v, UnregPCs, svc[u])' => u = v
    BY <1>0, <1>4, <1>9, <1>11 DEF UnregInv, At
  <2>3. \A u \in Threads : pc'[u] \in {"unregRemove", "unregEvent"} => bundle'[svc'[u]] /\ told'[svc'[u]] = 0
    BY <1>0, <1>4, <1>5, <1>6, <1>9, <1>11 DEF UnregInv, UnregPCs, At
  <2>4. \A u \in Threads : pc'[u] = "unregClear" => bundle'[svc'[u]] /\ ~available'[svc'[u]]
    BY <1>0, <1>4, <1>5, <1>9 DEF UnregInv
  <2>5. \A x \in Services : bundle'[x] /\ ~available'[x] => \E u \in Threads : At(u, {"unregClear"}, x)'
    <3>1. \A u \in Threads : ~ At(u, {"unregClear"}, s)
      BY <1>2, <1>11 DEF At, UnregPCs
    <3>2. QED
      BY <1>0, <1>5, <1>12, <3>1 DEF UnregInv
  <2>6. \A x \in Services : told'[x] # 0 =>
            told'[x] = 1 /\ (bundle'[x] => \E u \in Threads : At(u, {"unregMark", "unregClear"}, x)')
    <3>1. At(t, {"unregMark", "unregClear"}, s)'
      BY <1>4 DEF At
    <3>2. QED
      BY <1>0, <1>5, <1>6, <1>12, <3>1 DEF UnregInv
  <2>7. QED
    BY <2>1, <2>2, <2>3, <2>4, <2>5, <2>6 DEF UnregInv
<1>14. FreshInv' /\ NewInv'
  <2>1. \A u \in Threads, x \in Services : At(u, FreshPCs, x)' => At(u, FreshPCs, x) /\ x # s
    BY <1>4, <1>8, <1>9 DEF At, FreshPCs
  <2>2. \A x \in Services : x >= nextServiceID => x # s
    BY <1>0, <1>8 DEF Services, TypeInv
  <2>3. FreshInv'
    BY <1>0, <1>5, <1>6, <2>1, <2>2 DEF FreshInv
  <2>4. \A u \in Threads : pc'[u] \in FreshPCs => pc[u] = pc'[u] /\ svc'[u] = svc[u]
    BY <1>4, <1>9 DEF FreshPCs
  <2>5. NewInv'
    BY <1>0, <1>5, <2>4 DEF NewInv
  <2>6. QED
    BY <2>3, <2>5
<1>15. ListedInv'
  <2>1. \A u \in Threads : pc'[u] \in EndPCs => svc'[u] \notin Listed'
    BY <1>0, <1>1, <1>2, <1>4, <1>5, <1>9 DEF ListedInv, EndPCs
  <2>2. At(t, FreshPCs \cup EndPCs, s)'
    BY <1>4 DEF At, EndPCs
  <2>3. \A x \in Services : bundle'[x] => \/ x \in Listed' \cup cleared'
                                         \/ \E u \in Threads : At(u, FreshPCs \cup EndPCs, x)'
    BY <1>0, <1>5, <1>12, <2>2 DEF ListedInv
  <2>4. QED
    BY <1>0, <1>5, <2>1, <2>3 DEF ListedInv
<1>16. ClassInv' /\ CompleteInv'
  BY <1>0, <1>5, ClassQuiet
<1>17. OrderInv'
  BY <1>0, <1>2, <1>4, OrderQuiet DEF lists, regState
<1>18. QED
  BY <1>7, <1>10, <1>13, <1>14, <1>15, <1>16, <1>17 DEF IInv

LEMMA UnregisterMarkKeeps ==
    ASSUME IInv, NEW t \in Threads, UnregisterMark(t) PROVE IInv'
<1>0. /\ TypeInv /\ OwnerInv /\ ThreadsInv /\ UnregInv /\ FreshInv /\ NewInv /\ ListedInv /\ ClassInv
      /\ CompleteInv /\ SeenInv /\ OrderInv
  BY DEF IInv
<1>1. PICK s \in Services : s = svc[t]
  BY <1>0 DEF TypeInv
<1>2. /\ pc[t] = "unregMark" /\ available' = [available EXCEPT ![s] = FALSE]
      /\ UNCHANGED <<nextServiceID, rank, objectclass, unregistering, bundle, lists, owner, seen,
                     sets, told, skipped, cleared>>
  BY <1>1 DEF UnregisterMark
<1>3. PICK l \in {"unregClear", "fault"} : Goto(t, l) /\ (l = "unregClear" <=> bundle[s])
  <2>1. CASE bundle[s]
    BY <1>1, <2>1 DEF UnregisterMark
  <2>2. CASE ~bundle[s]
    BY <1>1, <2>2 DEF UnregisterMark
  <2>3. QED
    BY <2>1, <2>2
<1>4. LocalsType' /\ Others(t) /\ pc'[t] = l /\ svc'[t] = s
  BY <1>0, <1>1, <1>3, GotoIs DEF PCs
<1>5. /\ serviceRegistrations' = serviceRegistrations /\ classServices' = classServices
      /\ nextServiceID' = nextServiceID /\ told' = told /\ bundle' = bundle
      /\ unregistering' = unregistering
      /\ cleared' = cleared /\ objectclass' = objectclass /\ Listed' = Listed
  BY <1>2 DEF lists, Listed
<1>6. ~available'[s] /\ \A x \in Services \ {s} : available'[x] = available[x]
  BY <1>0, <1>2 DEF TypeInv
<1>7. OwnerInv' /\ ThreadsInv' /\ SeenInv'
  BY <1>0, <1>1, <1>2, <1>4, <1>5, UnregMoves DEF UnregPCs
<1>8. s < nextServiceID /\ \A u \in Threads : ~ At(u, FreshPCs, s)
  BY <1>0, <1>1, <1>2, NotFresh DEF FreshPCs
<1>9. \A u \in Threads \ {t} : pc'[u] = pc[u] /\ svc'[u] = svc[u] /\ svc[u] \in Services
  BY <1>0, <1>4 DEF Others, TypeInv
<1>11. \A u \in Threads \ {t} : ~ At(u, UnregPCs, s)
  BY <1>0, <1>1, <1>2 DEF UnregInv, At, UnregPCs
<1>12. \A u \in Threads, x \in Services :
         x # s => /\ At(u, {"unregClear"}, x) => At(u, {"unregClear"}, x)'
                  /\ At(u, {"unregMark", "unregClear"}, x) => At(u, {"unregMark", "unregClear"}, x)'
                  /\ At(u, FreshPCs \cup EndPCs, x) => At(u, FreshPCs \cup EndPCs, x)'
  BY <1>1, <1>9 DEF At
<1>10. TypeInv'
  <2>1. available' \in [Services -> BOOLEAN]
    BY <1>0, <1>2 DEF TypeInv
  <2>2. QED
    BY <1>0, <1>2, <1>4, <2>1 DEF TypeInv, LocalsType, lists
<1>13. UnregInv'
  <2>1. \A u \in Threads : pc'[u] \in UnregPCs => unregistering'[svc'[u]]
    BY <1>0, <1>1, <1>2, <1>4, <1>5, <1>9 DEF UnregInv, UnregPCs
  <2>2. \A u, v \in Threads : pc'[u] \in UnregPCs /\ At(v, UnregPCs, svc[u])' => u = v
    BY <1>0, <1>4, <1>9, <1>11 DEF UnregInv, At
  <2>3. \A u \in Threads : pc'[u] \in {"unregRemove", "unregEvent"} => bundle'[svc'[u]] /\ told'[svc'[u]] = 0
    BY <1>0, <1>4, <1>5, <1>9 DEF UnregInv
  <2>4. \A u \in Threads : pc'[u] = "unregClear" => bundle'[svc'[u]] /\ ~available'[svc'[u]]
    BY <1>0, <1>3, <1>4, <1>5, <1>6, <1>9 DEF UnregInv
  <2>5. \A x \in Services : bundle'[x] /\ ~available'[x] => \E u \in Threads : At(u, {"unregClear"}, x)'
    <3>1. bundle[s] => At(t, {"unregClear"}, s)'
      BY <1>3, <1>4 DEF At
    <3>2. QED
      BY <1>0, <1>5, <1>6, <1>12, <3>1 DEF UnregInv
  <2>6. \A x \in Services : told'[x] # 0 =>
            told'[x] = 1 /\ (bundle'[x] => \E u \in Threads : At(u, {"unregMark", "unregClear"}, x)')
    <3>1. bundle[s] => At(t, {"unregMark", "unregClear"}, s)'
      BY <1>3, <1>4 DEF At
    <3>2. QED
      BY <1>0, <1>5, <1>12, <3>1 DEF UnregInv
  <2>7. QED
    BY <2>1, <2>2, <2>3, <2>4, <2>5, <2>6 DEF UnregInv
<1>14. FreshInv' /\ NewInv'
  <2>1. \A u \in Threads, x \in Services : At(u, FreshPCs, x)' => At(u, FreshPCs, x) /\ x # s
    BY <1>4, <1>8, <1>9 DEF At, FreshPCs
  <2>2. \A x \in Services : x >= nextServiceID => x # s
    BY <1>0, <1>8 DEF Services, TypeInv
  <2>3. FreshInv'
    BY <1>0, <1>5, <2>1 DEF FreshInv
  <2>4. \A u \in Threads : pc'[u] \in FreshPCs => /\ pc[u] = pc'[u] /\ svc'[u] = svc[u]
                                                 /\ svc[u] \in Services \ {s}
    BY <1>4, <1>8, <1>9 DEF FreshPCs, At
  <2>5. NewInv'
    BY <1>0, <1>5, <1>6, <2>2, <2>4 DEF NewInv
  <2>6. QED
    BY <2>3, <2>5
<1>15. ListedInv'
  <2>0. s \notin Listed /\ Listed \subseteq Services
    BY <1>0, <1>1, <1>2 DEF ListedInv, EndPCs, Listed, ToSet, TypeInv
  <2>1. \A u \in Threads : pc'[u] \in EndPCs => svc'[u] \notin Listed'
    BY <1>0, <1>4, <1>5, <1>9, <2>0 DEF ListedInv
  <2>2. bundle[s] => At(t, FreshPCs \cup EndPCs, s)'
    BY <1>3, <1>4 DEF At, EndPCs
  <2>3. \A x \in Services : bundle'[x] => \/ x \in Listed' \cup cleared'
                                         \/ \E u \in Threads : At(u, FreshPCs \cup EndPCs, x)'
    BY <1>0, <1>5, <1>12, <2>2 DEF ListedInv
  <2>4. \A x \in Listed' : available'[x] /\ bundle'[x]
    BY <1>0, <1>5, <1>6, <2>0 DEF ListedInv
  <2>5. QED
    BY <1>0, <1>5, <2>1, <2>3, <2>4 DEF ListedInv
<1>16. ClassInv' /\ CompleteInv'
  <2>1. ClearedStay' => ClearedStay
    BY <1>0, <1>5, <1>6, ZenonT(60) DEF ClearedStay, TypeInv
  <2>2. QED
    BY <1>0, <1>5, <2>1 DEF ClassInv, CompleteInv
<1>17. OrderInv'
  BY <1>0, <1>2, <1>4, OrderQuiet DEF lists
<1>18. QED
  BY <1>7, <1>10, <1>13, <1>14, <1>15, <1>16, <1>17 DEF IInv

LEMMA UnregisterClearKeeps ==
    ASSUME IInv, NEW t \in Threads, UnregisterClear(t) PROVE IInv'
<1>0. /\ TypeInv /\ OwnerInv /\ ThreadsInv /\ UnregInv /\ FreshInv /\ NewInv /\ ListedInv /\ ClassInv
      /\ CompleteInv /\ SeenInv /\ OrderInv
  BY DEF IInv
<1>1. PICK s \in Services : s = svc[t]
  BY <1>0 DEF TypeInv
<1>2. /\ pc[t] = "unregClear" /\ bundle' = [bundle EXCEPT ![s] = FALSE]
      /\ unregistering' = [unregistering EXCEPT ![s] = FALSE] /\ Goto(t, "idle")
      /\ UNCHANGED <<nextServiceID, rank, objectclass, available, lists, owner, seen,
                     sets, told, skipped, cleared>>
  BY <1>1 DEF UnregisterClear
<1>4. LocalsType' /\ Others(t) /\ pc'[t] = "idle"
  BY <1>0, <1>1, <1>2, GotoIs DEF PCs
<1>5. /\ serviceRegistrations' = serviceRegistrations /\ classServices' = classServices
      /\ nextServiceID' = nextServiceID /\ told' = told /\ available' = available
      /\ cleared' = cleared /\ objectclass' = objectclass /\ Listed' = Listed
  BY <1>2 DEF lists, Listed
<1>6. /\ ~bundle'[s] /\ ~unregistering'[s]
      /\ \A x \in Services \ {s} : bundle'[x] = bundle[x] /\ unregistering'[x] = unregistering[x]
  BY <1>0, <1>2 DEF TypeInv
<1>7. OwnerInv' /\ ThreadsInv' /\ SeenInv'
  BY <1>0, <1>1, <1>2, <1>4, <1>5, UnregMoves DEF UnregPCs
<1>8. s < nextServiceID /\ \A u \in Threads : ~ At(u, FreshPCs, s)
  BY <1>0, <1>1, <1>2, NotFresh DEF FreshPCs
<1>9. \A u \in Threads \ {t} : pc'[u] = pc[u] /\ svc'[u] = svc[u] /\ svc[u] \in Services
  BY <1>0, <1>4 DEF Others, TypeInv
<1>11. \A u \in Threads \ {t} : ~ At(u, UnregPCs, s)
  BY <1>0, <1>1, <1>2 DEF UnregInv, At, UnregPCs
<1>12. \A u \in Threads, x \in Services :
         x # s => /\ At(u, {"unregClear"}, x) => At(u, {"unregClear"}, x)'
                  /\ At(u, {"unregMark", "unregClear"}, x) => At(u, {"unregMark", "unregClear"}, x)'
                  /\ At(u, FreshPCs \cup EndPCs, x) => At(u, FreshPCs \cup EndPCs, x)'
  BY <1>1, <1>9 DEF At
<1>10. TypeInv'
  <2>1. bundle' \in [Services -> BOOLEAN] /\ unregistering' \in [Services -> BOOLEAN]
    BY <1>0, <1>2 DEF TypeInv
  <2>2. QED
    BY <1>0, <1>2, <1>4, <2>1 DEF TypeInv, LocalsType, lists
<1>13. UnregInv'
  <2>0. \A u \in Threads : pc'[u] \in UnregPCs => /\ u # t /\ pc[u] = pc'[u] /\ svc'[u] = svc[u]
                                                 /\ svc[u] \in Services \ {s}
    BY <1>4, <1>9, <1>11 DEF UnregPCs, At
  <2>1. \A u \in Threads : pc'[u] \in UnregPCs => unregistering'[svc'[u]]
    BY <1>0, <1>6, <2>0 DEF UnregInv
  <2>2. \A u, v \in Threads : pc'[u] \in UnregPCs /\ At(v, UnregPCs, svc[u])' => u = v
    BY <1>0, <2>0 DEF UnregInv, At
  <2>3. \A u \in Threads : pc'[u] \in {"unregRemove", "unregEvent"} => bundle'[svc'[u]] /\ told'[svc'[u]] = 0
    BY <1>0, <1>5, <1>6, <2>0 DEF UnregInv, UnregPCs
  <2>4. \A u \in Threads : pc'[u] = "unregClear" => bundle'[svc'[u]] /\ ~available'[svc'[u]]
    BY <1>0, <1>5, <1>6, <2>0 DEF UnregInv, UnregPCs
  <2>5. \A x \in Services : bundle'[x] /\ ~available'[x] => \E u \in Threads : At(u, {"unregClear"}, x)'
    BY <1>0, <1>5, <1>6, <1>12 DEF UnregInv
  <2>6. \A x \in Services : told'[x] # 0 =>
            told'[x] = 1 /\ (bundle'[x] => \E u \in Threads : At(u, {"unregMark", "unregClear"}, x)')
    BY <1>0, <1>5, <1>6, <1>12 DEF UnregInv
  <2>7. QED
    BY <2>1, <2>2, <2>3, <2>4, <2>5, <2>6 DEF UnregInv
<1>14. FreshInv' /\ NewInv'
  <2>1. \A u \in Threads, x \in Services : At(u, FreshPCs, x)' => At(u, FreshPCs, x) /\ x # s
    BY <1>4, <1>8, <1>9 DEF At, FreshPCs
  <2>2. \A x \in Services : x >= nextServiceID => x # s
    BY <1>0, <1>8 DEF Services, TypeInv
  <2>3. FreshInv'
    BY <1>0, <1>5, <1>6, <2>1, <2>2 DEF FreshInv
  <2>4. \A u \in Threads : pc'[u] \in FreshPCs => /\ pc[u] = pc'[u] /\ svc'[u] = svc[u]
                                                 /\ svc[u] \in Services \ {s}
    BY <1>4, <1>8, <1>9 DEF FreshPCs, At
  <2>5. NewInv'
    BY <1>0, <1>5, <1>6, <2>2, <2>4 DEF NewInv
  <2>6. QED
    BY <2>3, <2>5
<1>15. ListedInv'
  <2>0. s \notin Listed /\ Listed \subseteq Services
    BY <1>0, <1>1, <1>2 DEF ListedInv, EndPCs, Listed, ToSet, TypeInv
  <2>1. \A u \in Threads : pc'[u] \in EndPCs => svc'[u] \notin Listed'
    BY <1>0, <1>4, <1>5, <1>9 DEF ListedInv, EndPCs
  <2>3. \A x \in Services : bundle'[x] => \/ x \in Listed' \cup cleared'
                                         \/ \E u \in Threads : At(u, FreshPCs \cup EndPCs, x)'
    BY <1>0, <1>5, <1>6, <1>12 DEF ListedInv
  <2>4. \A x \in Listed' : available'[x] /\ bundle'[x]
    BY <1>0, <1>5, <1>6, <2>0 DEF ListedInv
  <2>5. QED
    BY <1>0, <1>5, <2>1, <2>3, <2>4 DEF ListedInv
<1>16. ClassInv' /\ CompleteInv'
  <2>1. ~available[s]
    BY <1>0, <1>1, <1>2 DEF UnregInv
  <2>2. ClearedStay' => ClearedStay
    BY <1>0, <1>5, <1>6, <2>1 DEF ClearedStay, TypeInv
  <2>3. QED
    BY <1>0, <1>5, <2>2 DEF ClassInv, CompleteInv
<1>17. OrderInv'
  BY <1>0, <1>2, <1>4, OrderQuiet DEF lists
<1>18. QED
  BY <1>7, <1>10, <1>13, <1>14, <1>15, <1>16, <1>17 DEF IInv

LEMMA UnregisterRemoveKeeps ==
    ASSUME IInv, NEW t \in Threads, UnregisterRemove(t) PROVE IInv'
<1>0. /\ TypeInv /\ OwnerInv /\ ThreadsInv /\ UnregInv /\ FreshInv /\ NewInv /\ ListedInv /\ ClassInv
      /\ CompleteInv /\ SeenInv /\ OrderInv
  BY DEF IInv
<1>1. PICK s \in Services : s = svc[t]
  BY <1>0 DEF TypeInv
<1>2. /\ pc[t] = "unregRemove" /\ Goto(t, "unregEvent")
      /\ serviceRegistrations' = RemoveFirst(serviceRegistrations, s)
      /\ classServices' = [c \in Classes |-> IF c \in objectclass[s] THEN RemovedFrom(classServices[c], s)
                                                                     ELSE classServices[c]]
      /\ UNCHANGED <<nextServiceID, rank, regState, owner, seen, sets, told, skipped, cleared>>
  BY <1>1 DEF UnregisterRemove
<1>3. /\ serviceRegistrations' \in Seq(Services) /\ IsInjective(serviceRegistrations')
      /\ Listed' = Listed \ {s}
  <2>1. serviceRegistrations \in Seq(Services) /\ IsInjective(serviceRegistrations)
    BY <1>0, Zenon DEF TypeInv, ListedInv
  <2>2. PICK z : z = RemoveFirst(serviceRegistrations, s)
    OBVIOUS
  <2>3. z \in Seq(Services) /\ ToSet(z) = ToSet(serviceRegistrations) \ {s} /\ IsInjective(z)
    BY <2>1, <2>2, RemoveFirstProps, Zenon
  <2>4. serviceRegistrations' = z
    BY <1>2, <2>2, Zenon
  <2>5. QED
    BY <2>3, <2>4, Zenon DEF Listed
<1>4. LocalsType' /\ Others(t) /\ pc'[t] = "unregEvent" /\ svc'[t] = s
  BY <1>0, <1>1, <1>2, GotoIs DEF PCs
<1>5. /\ nextServiceID' = nextServiceID /\ available' = available /\ bundle' = bundle
      /\ unregistering' = unregistering /\ told' = told /\ rank' = rank /\ skipped' = skipped
      /\ cleared' = cleared /\ objectclass' = objectclass /\ Listed' \subseteq Listed
  BY <1>2, <1>3 DEF regState
<1>6. ASSUME NEW c \in Classes
      PROVE  /\ classServices'[c] \in Seq(Services) /\ IsInjective(classServices'[c])
             /\ ToSet(classServices'[c]) \subseteq ToSet(classServices[c])
             /\ c \in objectclass[s] => s \notin ToSet(classServices'[c])
             /\ c \notin objectclass[s] \/ s \in ToSet(classServices[c]) =>
                    ToSet(classServices[c]) \ {s} \subseteq ToSet(classServices'[c])
             /\ BestFirst(classServices[c], rank) => BestFirst(classServices'[c], rank)
  <2>1. classServices[c] \in Seq(Services) /\ IsInjective(classServices[c])
    BY <1>0 DEF TypeInv, ClassInv
  <2>2. CASE c \in objectclass[s]
    <3>1. PICK z : z = RemovedFrom(classServices[c], s)
      OBVIOUS
    <3>2. classServices'[c] = z
      BY <1>2, <2>2, <3>1
    <3>3. /\ z \in Seq(Services)
          /\ ToSet(z) \subseteq ToSet(classServices[c]) \ {s}
          /\ s \in ToSet(classServices[c]) => ToSet(z) = ToSet(classServices[c]) \ {s}
          /\ IsInjective(z)
          /\ \A r : BestFirst(classServices[c], r) => BestFirst(z, r)
      BY <2>1, <3>1, RemovedFromProps, Zenon
    <3>4. QED
      BY <2>2, <3>2, <3>3, Zenon
  <2>3. CASE c \notin objectclass[s]
    <3>1. classServices'[c] = classServices[c]
      BY <1>2, <2>3
    <3>2. QED
      BY <2>1, <2>3, <3>1, Zenon
  <2>4. QED
    BY <2>2, <2>3
<1>7. OwnerInv' /\ ThreadsInv' /\ SeenInv'
  BY <1>0, <1>1, <1>2, <1>4, <1>5, UnregMoves DEF UnregPCs
<1>8. s < nextServiceID /\ \A u \in Threads : ~ At(u, FreshPCs, s)
  BY <1>0, <1>1, <1>2, NotFresh DEF FreshPCs
<1>9. \A u \in Threads \ {t} : pc'[u] = pc[u] /\ svc'[u] = svc[u] /\ svc[u] \in Services
  BY <1>0, <1>4 DEF Others, TypeInv
<1>11. \A u \in Threads \ {t} : ~ At(u, UnregPCs, s)
  BY <1>0, <1>1, <1>2 DEF UnregInv, At, UnregPCs
<1>12. \A u \in Threads, x \in Services :
         x # s => /\ At(u, {"unregClear"}, x) => At(u, {"unregClear"}, x)'
                  /\ At(u, {"unregMark", "unregClear"}, x) => At(u, {"unregMark", "unregClear"}, x)'
                  /\ At(u, FreshPCs \cup EndPCs, x) => At(u, FreshPCs \cup EndPCs, x)'
  BY <1>1, <1>9 DEF At
<1>10. TypeInv'
  <2>1. classServices' \in [Classes -> Seq(Services)]
    BY <1>2, <1>6
  <2>2. QED
    BY <1>0, <1>2, <1>3, <1>4, <2>1 DEF TypeInv, LocalsType, regState
<1>13. UnregInv'
  <2>1. \A u \in Threads : pc'[u] \in UnregPCs => unregistering'[svc'[u]]
    BY <1>0, <1>1, <1>2, <1>4, <1>5, <1>9 DEF UnregInv, UnregPCs
  <2>2. \A u, v \in Threads : pc'[u] \in UnregPCs /\ At(v, UnregPCs, svc[u])' => u = v
    BY <1>0, <1>4, <1>9, <1>11 DEF UnregInv, At
  <2>3. \A u \in Threads : pc'[u] \in {"unregRemove", "unregEvent"} => bundle'[svc'[u]] /\ told'[svc'[u]] = 0
    BY <1>0, <1>1, <1>2, <1>4, <1>5, <1>9 DEF UnregInv
  <2>4. \A u \in Threads : pc'[u] = "unregClear" => bundle'[svc'[u]] /\ ~available'[svc'[u]]
    BY <1>0, <1>4, <1>5, <1>9 DEF UnregInv
  <2>5. \A u \in Threads : ~ At(u, {"unregMark", "unregClear"}, s) /\ ~ At(u, {"unregClear"}, s)
    BY <1>2, <1>11 DEF At, UnregPCs
  <2>6. \A x \in Services : bundle'[x] /\ ~available'[x] => \E u \in Threads : At(u, {"unregClear"}, x)'
    BY <1>0, <1>5, <1>12, <2>5 DEF UnregInv
  <2>7. \A x \in Services : told'[x] # 0 =>
            told'[x] = 1 /\ (bundle'[x] => \E u \in Threads : At(u, {"unregMark", "unregClear"}, x)')
    BY <1>0, <1>5, <1>12, <2>5 DEF UnregInv
  <2>8. QED
    BY <2>1, <2>2, <2>3, <2>4, <2>6, <2>7 DEF UnregInv
<1>14. FreshInv' /\ NewInv'
  <2>1. \A u \in Threads, x \in Services : At(u, FreshPCs, x)' => At(u, FreshPCs, x)
    BY <1>4, <1>9 DEF At, FreshPCs
  <2>2. FreshInv'
    BY <1>0, <1>5, <2>1 DEF FreshInv
  <2>3. \A u \in Threads : pc'[u] \in FreshPCs => pc[u] = pc'[u] /\ svc'[u] = svc[u]
    BY <1>4, <1>9 DEF FreshPCs
  <2>4. NewInv'
    BY <1>0, <1>5, <2>3 DEF NewInv
  <2>5. QED
    BY <2>2, <2>4
<1>15. ListedInv'
  <2>1. \A u \in Threads : pc'[u] \in EndPCs => svc'[u] \notin Listed'
    BY <1>0, <1>3, <1>4, <1>9 DEF ListedInv
  <2>2. At(t, FreshPCs \cup EndPCs, s)'
    BY <1>4 DEF At, EndPCs
  <2>3. \A x \in Services : bundle'[x] => \/ x \in Listed' \cup cleared'
                                         \/ \E u \in Threads : At(u, FreshPCs \cup EndPCs, x)'
    BY <1>0, <1>3, <1>5, <1>12, <2>2 DEF ListedInv
  <2>4. \A x \in Listed' : available'[x] /\ bundle'[x]
    BY <1>0, <1>5 DEF ListedInv
  <2>5. QED
    BY <1>3, <2>1, <2>3, <2>4 DEF ListedInv
<1>16. ClassInv'
  <2>1. ASSUME NEW c \in Classes, NEW x \in ToSet(classServices'[c])
        PROVE  x \in Listed' /\ c \in objectclass'[x]
    <3>1. x \in Listed /\ c \in objectclass[x]
      BY <1>0, <1>6, <2>1 DEF ClassInv
    <3>2. x # s
      BY <1>6, <2>1, <3>1
    <3>3. QED
      BY <1>3, <1>5, <3>1, <3>2
  <2>2. QED
    BY <1>6, <2>1 DEF ClassInv
<1>17. CompleteInv'
  <2>1. SUFFICES ASSUME ClearedStay', NEW c \in Classes, NEW x \in Listed', c \in objectclass'[x]
                 PROVE  x \in ToSet(classServices'[c])
    BY DEF CompleteInv
  <2>2. ClearedStay /\ x \in Listed /\ x # s /\ c \in objectclass[x]
    BY <1>3, <1>5, <2>1 DEF ClearedStay
  <2>3. x \in ToSet(classServices[c])
    BY <1>0, <2>2 DEF CompleteInv
  <2>4. s \in Listed
    <3>1. unregistering[s] /\ bundle[s]
      BY <1>0, <1>1, <1>2 DEF UnregInv, UnregPCs
    <3>2. s \notin cleared
      BY <2>2, <3>1 DEF ClearedStay
    <3>3. \A u \in Threads : ~ At(u, FreshPCs \cup EndPCs, s)
      BY <1>2, <1>8, <1>11 DEF At, UnregPCs, EndPCs, FreshPCs
    <3>4. QED
      BY <1>0, <3>1, <3>2, <3>3 DEF ListedInv
  <2>5. c \in objectclass[s] => s \in ToSet(classServices[c])
    BY <1>0, <2>2, <2>4 DEF CompleteInv
  <2>6. QED
    BY <1>6, <2>2, <2>3, <2>5
<1>18. OrderInv'
  <2>1. ASSUME NEW c \in Unsorted PROVE c \in Unsorted'
    <3>1. PICK u \in Threads : pc[u] \in {"setLock", "setSort"} /\ c \in objectclass[svc[u]]
      BY <2>1, UnsortedIs
    <3>2. pc'[u] \in {"setLock", "setSort"} /\ c \in objectclass'[svc'[u]]
      BY <1>2, <1>4, <1>5, <3>1 DEF Others
    <3>3. QED
      BY <3>2 DEF Unsorted
  <2>2. ASSUME NEW c \in Classes, c \notin Unsorted', c \notin skipped'
        PROVE  BestFirst(classServices'[c], rank)
    <3>1. BestFirst(classServices[c], rank)
      BY <1>0, <1>5, <2>1, <2>2 DEF OrderInv, BestFirstWhenSettled
    <3>2. QED
      BY <1>6, <3>1, Zenon
  <2>3. QED
    BY <1>5, <2>2, Zenon DEF OrderInv, BestFirstWhenSettled
<1>19. QED
  BY <1>7, <1>10, <1>13, <1>14, <1>15, <1>16, <1>17, <1>18 DEF IInv

-----------------------------------------------------------------------------
(* Clear. *)

LEMMA ClearKeeps ==
    ASSUME IInv, Clear PROVE IInv'
<1>0. /\ TypeInv /\ OwnerInv /\ ThreadsInv /\ UnregInv /\ FreshInv /\ NewInv /\ ListedInv /\ ClassInv
      /\ CompleteInv /\ SeenInv /\ OrderInv
  BY DEF IInv
<1>1. /\ owner = {} /\ cleared = {}
      /\ serviceRegistrations' = <<>> /\ cleared' = Listed
      /\ classServices' = [c \in Classes |-> <<>>]
      /\ UNCHANGED <<nextServiceID, rank, regState, owner, seen, pc, svc, newRank, sets, told, skipped>>
  BY DEF Clear, Listed
<1>2. /\ pc' = pc /\ svc' = svc /\ nextServiceID' = nextServiceID /\ owner' = owner
      /\ available' = available /\ bundle' = bundle /\ unregistering' = unregistering /\ told' = told
  BY <1>1 DEF regState
<1>3. <<>> \in Seq(Services) /\ ToSet(<<>>) = {} /\ IsInjective(<<>>) /\ \A r : BestFirst(<<>>, r)
  BY DEF ToSet, IsInjective, BestFirst
<1>4. Listed' = {} /\ Listed \subseteq Services
  <2>1. Listed \subseteq Services
    BY <1>0 DEF Listed, ToSet, TypeInv
  <2>2. QED
    BY <1>1, <1>3, <2>1, Zenon DEF Listed
<1>5. \A c \in Classes : classServices'[c] = <<>>
  BY <1>1
<1>6. TypeInv'
  <2>1. classServices' \in [Classes -> Seq(Services)]
    BY <1>1, <1>3
  <2>2. QED
    BY <1>0, <1>1, <1>3, <1>4, <2>1 DEF TypeInv, regState
<1>7. OwnerInv' /\ ThreadsInv' /\ NewInv' /\ UnregInv'
  BY <1>0, <1>2 DEF OwnerInv, ThreadsInv, NewInv, UnregInv, At
<1>8. FreshInv'
  BY <1>0, <1>1, <1>2, <1>4 DEF FreshInv, At
<1>9. ListedInv'
  <2>1. \A x \in Services : bundle'[x] => \/ x \in Listed' \cup cleared'
                                         \/ \E u \in Threads : At(u, FreshPCs \cup EndPCs, x)'
    BY <1>0, <1>1, <1>2, <1>4 DEF ListedInv, At
  <2>2. IsInjective(serviceRegistrations')
    BY <1>1, <1>3, Zenon
  <2>3. QED
    BY <1>4, <2>1, <2>2 DEF ListedInv
<1>10. ClassInv'
  BY <1>3, <1>5 DEF ClassInv
<1>11. CompleteInv'
  BY <1>4 DEF CompleteInv
<1>12. SeenInv'
  BY <1>1 DEF SeenInv
<1>13. OrderInv'
  BY <1>3, <1>5, Zenon DEF OrderInv, BestFirstWhenSettled
<1>14. QED
  BY <1>6, <1>7, <1>8, <1>9, <1>10, <1>11, <1>12, <1>13 DEF IInv

-----------------------------------------------------------------------------
(* The invariant holds initially and in every step. *)

LEMMA InitIInv == Init => IInv
<1> SUFFICES ASSUME Init PROVE IInv
  OBVIOUS
<1>1. /\ nextServiceID = 1 /\ serviceRegistrations = <<>> /\ owner = {} /\ cleared = {} /\ skipped = {}
      /\ \A t \in Threads : pc[t] = "idle"
      /\ \A s \in Services : ~bundle[s] /\ ~available[s] /\ ~unregistering[s] /\ told[s] = 0
      /\ \A c \in Classes : classServices[c] = <<>>
  BY DEF Init
<1>2. <<>> \in Seq(Services) /\ ToSet(<<>>) = {} /\ IsInjective(<<>>) /\ \A r : BestFirst(<<>>, r)
  BY DEF ToSet, IsInjective, BestFirst
<1>3. Listed = {}
  BY <1>1, <1>2, Zenon DEF Listed
<1>4. TypeInv
  <2>1. 1 \in Services /\ 1 \in 1 .. MaxServices + 1 /\ 0 \in 0 .. MaxSets
    BY RegistryAssumption DEF Services
  <2>2. /\ serviceRegistrations \in Seq(Services) /\ classServices \in [Classes -> Seq(Services)]
    BY <1>2 DEF Init
  <2>3. QED
    BY <2>1, <2>2, RankType DEF Init, TypeInv, PCs
<1>5. OwnerInv /\ SeenInv
  BY <1>1 DEF OwnerInv, SeenInv, HoldPCs
<1>6. ThreadsInv /\ UnregInv
  BY <1>1 DEF ThreadsInv, UnregInv, FreshPCs, UnregPCs, At
<1>7. FreshInv /\ NewInv
  BY <1>1, <1>3 DEF FreshInv, NewInv, FreshPCs
<1>8. ListedInv
  <2>1. IsInjective(serviceRegistrations)
    BY <1>1, <1>2, Zenon
  <2>2. QED
    BY <1>1, <1>3, <2>1 DEF ListedInv, EndPCs
<1>9. ClassInv /\ CompleteInv
  BY <1>1, <1>2, <1>3 DEF ClassInv, CompleteInv
<1>10. OrderInv
  BY <1>1, <1>2, Zenon DEF OrderInv, BestFirstWhenSettled
<1>11. QED
  BY <1>4, <1>5, <1>6, <1>7, <1>8, <1>9, <1>10 DEF IInv

LEMMA QuietKeeps == ASSUME IInv, UNCHANGED vars PROVE IInv'
<1>0. /\ TypeInv /\ OwnerInv /\ ThreadsInv /\ UnregInv /\ FreshInv /\ NewInv /\ ListedInv /\ ClassInv
      /\ CompleteInv /\ SeenInv /\ OrderInv
  BY DEF IInv
<1>1. /\ UNCHANGED <<nextServiceID, rank, objectclass, available, unregistering, bundle>>
      /\ UNCHANGED <<serviceRegistrations, classServices, owner, seen, pc, svc, newRank>>
      /\ UNCHANGED <<sets, told, skipped, cleared>>
  BY DEF vars, regState, lists
<1>2. TypeInv' /\ OwnerInv' /\ ThreadsInv' /\ UnregInv'
  BY <1>0, <1>1 DEF TypeInv, OwnerInv, ThreadsInv, UnregInv, At
<1>3. FreshInv' /\ NewInv' /\ ListedInv' /\ SeenInv'
  BY <1>0, <1>1 DEF FreshInv, NewInv, ListedInv, SeenInv, At, Listed
<1>4. ClassInv' /\ CompleteInv'
  BY <1>0, <1>1, ClassQuiet
<1>5. OrderInv'
  BY <1>0, <1>1 DEF OrderInv, BestFirstWhenSettled, Unsorted, BestFirst, Less
<1>6. QED
  BY <1>2, <1>3, <1>4, <1>5 DEF IInv

LEMMA StepIInv == IInv /\ [Next]_vars => IInv'
<1> SUFFICES ASSUME IInv, [Next]_vars PROVE IInv'
  OBVIOUS
<1>1. ASSUME NEW t \in Threads, NEW cs \in ClassSets, NEW r \in Ranks, RegisterCreate(t, cs, r) PROVE IInv'
  BY <1>1, RegisterCreateKeeps
<1>2. ASSUME NEW t \in Threads,
             RegisterLock(t) \/ RegisterInsert(t) \/ RegisterReference(t) \/ RegisterEvent(t)
      PROVE  IInv'
  BY <1>2, RegisterLockKeeps, RegisterInsertKeeps, RegisterReferenceKeeps, RegisterEventKeeps
<1>3. ASSUME NEW t \in Threads, NEW s \in Services, NEW r \in Ranks, SetStart(t, s, r) PROVE IInv'
  BY <1>3, SetStartKeeps
<1>4. ASSUME NEW t \in Threads, SetRank(t) \/ SetLock(t) \/ SetSort(t) \/ SetEvent(t) PROVE IInv'
  BY <1>4, SetRankKeeps, SetLockKeeps, SetSortKeeps, SetEventKeeps
<1>5. ASSUME NEW t \in Threads, NEW s \in Services, UnregisterStart(t, s) PROVE IInv'
  BY <1>5, UnregisterStartKeeps
<1>6. ASSUME NEW t \in Threads, \/ UnregisterCas(t) \/ UnregisterRemove(t) \/ UnregisterEvent(t)
                                \/ UnregisterMark(t) \/ UnregisterClear(t)
      PROVE  IInv'
  BY <1>6, UnregisterCasKeeps, UnregisterRemoveKeeps, UnregisterEventKeeps, UnregisterMarkKeeps,
     UnregisterClearKeeps
<1>7. CASE Clear
  BY <1>7, ClearKeeps
<1>8. CASE Ended \/ UNCHANGED vars
  BY <1>8, QuietKeeps DEF Ended
<1>9. QED
  BY <1>1, <1>2, <1>3, <1>4, <1>5, <1>6, <1>7, <1>8 DEF Next

-----------------------------------------------------------------------------
(* The theorems. *)

\* The invariant above holds in every state that calls of RegisterService, SetProperties and
\* Unregister, and Clear, reach.
THEOREM AlwaysIInv == Spec => []IInv
<1>1. QED
  BY InitIInv, StepIInv, PTL DEF Spec

\* The state keeps its type; in particular at most one thread is in a critical section of the
\* registry's mutex.
THEOREM TypeCorrect == Spec => []TypeOK
<1>1. IInv => TypeOK
  <2> SUFFICES ASSUME IInv PROVE TypeOK
    OBVIOUS
  <2>1. owner \subseteq Threads /\ \A t, u \in owner : t = u
    BY DEF IInv, OwnerInv
  <2>2. CASE owner = {}
    <3>1. Cardinality(owner) = 0
      BY <2>2, FS_EmptySet
    <3>2. QED
      BY <2>1, <3>1 DEF IInv, TypeInv, TypeOK
  <2>3. ASSUME NEW t \in owner PROVE TypeOK
    <3>1. owner = {t}
      BY <2>1
    <3>2. Cardinality(owner) = 1
      BY <3>1, FS_Singleton
    <3>3. QED
      BY <2>1, <3>2 DEF IInv, TypeInv, TypeOK
  <2>4. QED
    BY <2>2, <2>3
<1>2. QED
  BY <1>1, AlwaysIInv, PTL

\* The list of a class is best first when no SetProperties is between its change of a ranking and
\* its sort, and none skipped its sort, whatever rankings the searches of RegisterService and the
\* sorts read: the first reference is the one GetServiceReference promises.
THEOREM AlwaysBestFirst == Spec => []BestFirstWhenSettled
<1>1. IInv => BestFirstWhenSettled
  BY DEF IInv, OrderInv
<1>2. QED
  BY <1>1, AlwaysIInv, PTL

\* A service that a lookup can find is available and has its bundle, while other threads
\* unregister it: GetReference of it does not throw.
THEOREM ListedAlwaysAvailable == Spec => []ListedIsAvailable
<1>1. IInv => ListedIsAvailable
  <2> SUFFICES ASSUME IInv PROVE ListedIsAvailable
    OBVIOUS
  <2>0. TypeInv /\ ListedInv /\ ClassInv
    BY DEF IInv
  <2>1. ASSUME NEW s \in Services, Contains(serviceRegistrations, s) PROVE s \in Listed
    BY <2>0, <2>1 DEF Contains, Listed, ToSet, TypeInv
  <2>2. ASSUME NEW s \in Services, NEW c \in Classes, Contains(classServices[c], s) PROVE s \in Listed
    <3>1. s \in ToSet(classServices[c])
      BY <2>0, <2>2 DEF Contains, ToSet, TypeInv
    <3>2. QED
      BY <2>0, <3>1 DEF ClassInv
  <2>3. QED
    BY <2>0, <2>1, <2>2 DEF ListedIsAvailable, ListedInv
<1>2. QED
  BY <1>1, AlwaysIInv, PTL

\* The list of a class has exactly the listed services of that class, each once, although
\* RemoveServiceRegistration_unlocked erases a list of one element unread, until a service that
\* Clear took from the lists is unregistered.
THEOREM ClassListsAlwaysComplete == Spec => []ClassListsComplete
<1>1. IInv => ClassListsComplete
  <2> SUFFICES ASSUME IInv, ClearedStay, NEW c \in Classes
               PROVE  /\ ToSet(classServices[c]) = {s \in ToSet(serviceRegistrations) : c \in objectclass[s]}
                      /\ Len(classServices[c]) = Cardinality(ToSet(classServices[c]))
    BY Zenon DEF ClassListsComplete, ClearedStay
  <2>1. TypeInv /\ ClassInv /\ CompleteInv
    BY DEF IInv
  <2>2. classServices[c] \in Seq(Services) /\ IsInjective(classServices[c])
    BY <2>1 DEF TypeInv, ClassInv
  <2>3. Len(classServices[c]) = Cardinality(ToSet(classServices[c]))
    BY <2>2, InjectiveCardinality, Zenon
  <2>4. ToSet(classServices[c]) = {s \in Listed : c \in objectclass[s]}
    BY <2>1 DEF ClassInv, CompleteInv
  <2>5. QED
    BY <2>3, <2>4 DEF Listed
<1>2. QED
  BY <1>1, AlwaysIInv, PTL

\* However many threads call Unregister for a service, and although the last of them clears the
\* flag that excludes the others, listeners hear of its end at most once.
THEOREM UnregisteringAlwaysOnce == Spec => []UnregisteringOnce
<1>1. IInv => UnregisteringOnce
  <2> SUFFICES ASSUME IInv, NEW s \in Services PROVE told[s] <= 1
    BY DEF UnregisteringOnce
  <2>1. told[s] \in Nat /\ (told[s] # 0 => told[s] = 1)
    BY DEF IInv, TypeInv, UnregInv
  <2>2. QED
    BY <2>1
<1>2. QED
  BY <1>1, AlwaysIInv, PTL
=============================================================================
