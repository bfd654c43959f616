------------------------ MODULE BundleInstallProofs ------------------------
(***************************************************************************)
(* Proofs about BundleInstall: its types, that the entry on which threads  *)
(* wait is counted, that a location is installed once, and that bundles    *)
(* and archives belong together.                                           *)
(***************************************************************************)
EXTENDS BundleInstall, FiniteSetTheorems, TLAPS

-----------------------------------------------------------------------------
(* The inductive invariant. *)

\* Ids the storage has given out, and the installed bundles.
Known == 1 .. nextFreeId - 1
Inst  == ToSet(bundles)
Mine(t) == ToSet(mine[t])

\* Where a thread has not made its archives yet.
EarlyPCs == {"wait", "requery", "already", "container", "archives"}
Early    == {t \in Threads : pc[t] \in EarlyPCs}

\* Every install that is under way still finds room for its archives.
RoomLeft == /\ nextFreeId + Cardinality(Names) * Cardinality(Early) <= MaxArchives + 1
            /\ leaks <= throws

\* How a thread came to where it is.
KindOK(t) ==
    /\ pc[t] \in {"idle", "unresolved"} => kind[t] = "fast"
    /\ pc[t] \in {"wait", "requery"} => kind[t] = "waiter"
    /\ pc[t] \in {"container", "notify"} => kind[t] = "first"
    /\ pc[t] = "already" => kind[t] # "first" /\ (from[t] = None => kind[t] = "waiter")
    /\ pc[t] = "decrement" => kind[t] # "fast"

\* What its local variables are.
LocalsOK(t) ==
    /\ pc[t] \in EarlyPCs \cup {"idle", "unresolved"} => mine[t] = <<>> /\ built[t] = 0
    /\ pc[t] \in {"idle", "wait", "requery", "already", "container", "unresolved"} \/ kind[t] = "first" => have[t] = {}
    /\ pc[t] = "unresolved" <=> victim[t] # None
    /\ built[t] <= Len(mine[t]) /\ Len(mine[t]) <= Cardinality(Names)
    /\ Mine(t) \subseteq Known /\ IsInjective(mine[t])

Users == {t \in Threads : kind[t] \in {"first", "waiter"}}

ThreadsOK ==
    /\ \A t \in Threads : KindOK(t) /\ LocalsOK(t)
    /\ \A t, u \in Threads : t # u => Mine(t) \cap Mine(u) = {}
    /\ \A t, u \in Threads : kind[t] = "first" /\ kind[u] = "first" => t = u

\* What others know of: archives of bundles that were installed at some time, unless they are
\* uninstalled.
Victims == {victim[u] : u \in Threads}
Seen    == Inst \cup upset \cup Victims

Fresh(t)  == Mine(t) \cap Seen = {}
Placed(t) == Mine(t) \cap archives \subseteq Seen

PlaceOK(t) ==
    /\ pc[t] = "construct" => Fresh(t) /\ Mine(t) \subseteq archives
    /\ pc[t] = "purge" => Fresh(t) \/ Mine(t) \subseteq upset
    /\ pc[t] \in {"event", "notify", "decrement"} => Placed(t)
    /\ victim[t] # None => victim[t] \in Known \ Inst

PlacesOK == (\A t \in Threads : PlaceOK(t)) /\ upset \subseteq Known

\* ArchivesOfBundles: an archive has been seen, or is still its maker's.
ArchivesOK ==
    /\ Inst \ upset \subseteq archives
    /\ \A i \in archives : i \in Seen \/ \E t \in Threads : i \in Mine(t)

\* Without failures and removals the location is empty or complete, and nobody but the first
\* installs anything.
FirstOK(t) ==
    /\ pc[t] \in {"container", "archives", "construct"} => bundles = <<>>
    /\ pc[t] = "construct" => /\ \A n \in Names : \E i \in DOMAIN mine[t] : name[mine[t][i]] = n
                              /\ \A i, j \in DOMAIN mine[t] : name[mine[t][i]] = name[mine[t][j]] => i = j
OtherOK(t) ==
    /\ pc[t] = "already" => from[t] # None
    /\ pc[t] = "archives" => have[t] = Names
    /\ pc[t] = "construct" => mine[t] = <<>>
    /\ pc[t] \in {"archives", "construct"} => bundles # <<>>

OnceThread(t) ==
    /\ kind[t] = "first" => FirstOK(t)
    /\ kind[t] # "first" => OtherOK(t)
    /\ pc[t] # "purge"
    /\ pc[t] \in {"requery", "already", "event", "notify", "decrement"} => bundles # <<>>

Complete  == bundles # <<>> => \A n \in Names : Installed(n)
NamesOnce == \A i, j \in DOMAIN bundles : name[bundles[i]] = name[bundles[j]] => i = j
FlagSet   == bundles = <<>> /\ ref # 0 => waitFlag

Once   == Complete /\ NamesOnce /\ FlagSet /\ \A t \in Threads : OnceThread(t)
OnceOK == throws = 0 /\ removals = 0 => Once

\* The parts of the type invariant.
StorageType ==
    /\ nextFreeId \in 1 .. MaxArchives + 1
    /\ archives \subseteq Known
    /\ name \in [Ids -> Names]
BundlesType ==
    /\ bundles \in Seq(Ids) /\ Inst \subseteq Known
    /\ IsInjective(bundles)
LocalsType ==
    /\ pc \in [Threads -> PCs] /\ kind \in [Threads -> Kinds]
    /\ from \in [Threads -> Ids \cup {None}] /\ have \in [Threads -> SUBSET Names]
    /\ mine \in [Threads -> Seq(Ids)] /\ built \in [Threads -> 0 .. Cardinality(Names)]
    /\ victim \in [Threads -> Ids \cup {None}]
CountsType ==
    /\ ref \in Nat /\ waitFlag \in BOOLEAN
    /\ uninstalled \subseteq Ids
    /\ leaks \in 0 .. MaxThrows
    /\ throws \in 0 .. MaxThrows /\ removals \in 0 .. MaxRemovals

\* What holds whatever fails.
IInv0 == /\ StorageType /\ BundlesType /\ LocalsType /\ CountsType
         /\ RoomLeft /\ ThreadsOK /\ EntryIsCounted /\ PlacesOK /\ ArchivesOK

IInv == IInv0 /\ OnceOK

-----------------------------------------------------------------------------
(* Sequences. *)

\* The sequences before and behind the k-th element.
LEMMA BeforeElement ==
    ASSUME NEW S, NEW s \in Seq(S), NEW k \in 1 .. Len(s)
    PROVE  /\ SubSeq(s, 1, k - 1) \in Seq(S) /\ Len(SubSeq(s, 1, k - 1)) = k - 1
           /\ \A i \in 1 .. k - 1 : SubSeq(s, 1, k - 1)[i] = s[i]
OBVIOUS

LEMMA BehindElement ==
    ASSUME NEW S, NEW s \in Seq(S), NEW k \in 1 .. Len(s)
    PROVE  /\ SubSeq(s, k + 1, Len(s)) \in Seq(S) /\ Len(SubSeq(s, k + 1, Len(s))) = Len(s) - k
           /\ \A i \in 1 .. Len(s) - k : SubSeq(s, k + 1, Len(s))[i] = s[k + i]
OBVIOUS

LEMMA ConcatLen ==
    ASSUME NEW S, NEW p \in Seq(S), NEW q \in Seq(S)
    PROVE  p \o q \in Seq(S) /\ Len(p \o q) = Len(p) + Len(q)
OBVIOUS

\* Erasing an element from a sequence without duplicates.
LEMMA RemoveFirstProps ==
    ASSUME NEW S, NEW s \in Seq(S), IsInjective(s), NEW e
    PROVE  /\ RemoveFirst(s, e) \in Seq(S)
           /\ ToSet(RemoveFirst(s, e)) = ToSet(s) \ {e}
           /\ IsInjective(RemoveFirst(s, e))
<1> DEFINE r == RemoveFirst(s, e)
<1>1. CASE ~ \E i \in 1 .. Len(s) : s[i] = e
  BY <1>1 DEF RemoveFirst, ToSet
<1>2. CASE \E i \in 1 .. Len(s) : s[i] = e
  <2>1. PICK k \in 1 .. Len(s) : s[k] = e
    BY <1>2
  <2>2. {i \in 1 .. Len(s) : s[i] = e} = {k}
    BY <2>1 DEF IsInjective
  <2>3. SelectInSeq(s, LAMBDA v : v = e) = k
    BY <2>2 DEF SelectInSeq, Min
  <2>4. r = SubSeq(s, 1, k - 1) \o SubSeq(s, k + 1, Len(s))
    BY <1>2, <2>3 DEF RemoveFirst, RemoveAt
  <2>5. Len(s) \in Nat /\ k \in Nat
    OBVIOUS
  <2> HIDE DEF r
  <2>51. /\ SubSeq(s, 1, k - 1) \in Seq(S) /\ Len(SubSeq(s, 1, k - 1)) = k - 1
         /\ \A i \in 1 .. k - 1 : SubSeq(s, 1, k - 1)[i] = s[i]
    BY BeforeElement, Zenon
  <2>6. PICK p \in Seq(S) : /\ p = SubSeq(s, 1, k - 1) /\ Len(p) = k - 1
                            /\ \A i \in 1 .. k - 1 : p[i] = s[i]
    BY <2>51, Zenon
  <2>61. /\ SubSeq(s, k + 1, Len(s)) \in Seq(S) /\ Len(SubSeq(s, k + 1, Len(s))) = Len(s) - k
         /\ \A i \in 1 .. Len(s) - k : SubSeq(s, k + 1, Len(s))[i] = s[k + i]
    BY BehindElement, Zenon
  <2>7. PICK q \in Seq(S) : /\ q = SubSeq(s, k + 1, Len(s)) /\ Len(q) = Len(s) - k
                            /\ \A i \in 1 .. Len(s) - k : q[i] = s[k + i]
    BY <2>61, Zenon
  <2>71. r = p \o q
    BY <2>4, <2>6, <2>7, Zenon
  <2>8. r \in Seq(S) /\ Len(r) = Len(s) - 1
    <3>1. p \o q \in Seq(S) /\ Len(p \o q) = Len(p) + Len(q)
      BY ConcatLen, Zenon
    <3>2. Len(p) + Len(q) = Len(s) - 1
      <4>1. Len(p) = k - 1 /\ Len(q) = Len(s) - k
        BY <2>6, <2>7, Zenon
      <4>2. QED
        BY <2>5, <4>1
    <3>3. QED
      BY <2>71, <3>1, <3>2, Zenon
  <2>9. \A i \in 1 .. k - 1 : r[i] = s[i]
    <3>1. ASSUME NEW i \in 1 .. k - 1 PROVE r[i] = s[i]
      <4>1. Len(p) = k - 1
        BY <2>6, Zenon
      <4>2. i \in 1 .. Len(p)
        BY <4>1
      <4>3. (p \o q)[i] = p[i]
        BY <4>2
      <4>4. QED
        BY <2>6, <2>71, <4>3, Zenon
    <3>2. QED
      BY <3>1
  <2>10. \A i \in k .. Len(s) - 1 : r[i] = s[i + 1]
    <3>1. ASSUME NEW i \in k .. Len(s) - 1 PROVE r[i] = s[i + 1]
      <4>1. Len(p) = k - 1 /\ Len(q) = Len(s) - k
        BY <2>6, <2>7, Zenon
      <4>2. (p \o q)[i] = q[i - (k - 1)]
        BY <2>5, <4>1
      <4>3. i - (k - 1) \in 1 .. Len(s) - k /\ k + (i - (k - 1)) = i + 1
        BY <2>5
      <4>4. q[i - (k - 1)] = s[k + (i - (k - 1))]
        BY <2>7, <4>3, Zenon
      <4>5. QED
        BY <2>71, <4>2, <4>3, <4>4, Zenon
    <3>2. QED
      BY <3>1
  <2>11. \A i \in DOMAIN r : \E j \in DOMAIN s \ {k} : r[i] = s[j] /\ j = (IF i < k THEN i ELSE i + 1)
    BY <2>1, <2>5, <2>8, <2>9, <2>10
  <2>12. \A j \in DOMAIN s \ {k} : \E i \in DOMAIN r : r[i] = s[j]
    <3>1. ASSUME NEW j \in DOMAIN s \ {k} PROVE \E i \in DOMAIN r : r[i] = s[j]
      <4>1. CASE j < k
        BY <2>1, <2>5, <2>8, <2>9, <4>1
      <4>2. CASE j > k
        <5>1. j - 1 \in k .. Len(s) - 1 /\ j - 1 \in DOMAIN r
          BY <2>1, <2>5, <2>8, <4>2
        <5>2. r[j - 1] = s[j - 1 + 1]
          BY <2>10, <5>1
        <5>3. QED
          BY <5>1, <5>2
      <4>3. QED
        BY <2>1, <2>5, <4>1, <4>2
    <3>2. QED
      BY <3>1
  <2>13. ToSet(r) = ToSet(s) \ {e}
    <3>1. \A j \in DOMAIN s : s[j] # e <=> j # k
      BY <2>1 DEF IsInjective
    <3>2. QED
      BY <2>11, <2>12, <3>1 DEF ToSet
  <2>14. IsInjective(r)
    <3>1. ASSUME NEW i \in DOMAIN r, NEW j \in DOMAIN r, r[i] = r[j] PROVE i = j
      <4>1. PICK m \in DOMAIN s : r[i] = s[m] /\ m = (IF i < k THEN i ELSE i + 1)
        BY <2>11
      <4>2. PICK n \in DOMAIN s : r[j] = s[n] /\ n = (IF j < k THEN j ELSE j + 1)
        BY <2>11
      <4>3. m = n
        BY <3>1, <4>1, <4>2 DEF IsInjective
      <4>4. i \in Nat /\ j \in Nat
        BY <2>8
      <4>5. QED
        BY <2>5, <4>1, <4>2, <4>3, <4>4
    <3>2. QED
      BY <3>1 DEF IsInjective
  <2>15. QED
    BY <2>8, <2>13, <2>14 DEF r
<1>3. QED
  BY <1>1, <1>2

\* Putting two sequences behind each other.
LEMMA ConcatSet ==
    ASSUME NEW S, NEW s \in Seq(S), NEW r \in Seq(S)
    PROVE  s \o r \in Seq(S) /\ ToSet(s \o r) = ToSet(s) \cup ToSet(r)
<1>1. s \o r \in Seq(S) /\ Len(s \o r) = Len(s) + Len(r)
  OBVIOUS
<1>2. \A i \in 1 .. Len(s) : (s \o r)[i] = s[i]
  OBVIOUS
<1>3. \A i \in 1 .. Len(r) : (s \o r)[Len(s) + i] = r[i]
  OBVIOUS
<1>4. \A i \in DOMAIN (s \o r) : (s \o r)[i] \in ToSet(s) \cup ToSet(r)
  BY <1>1, <1>2, <1>3 DEF ToSet
<1>5. \A i \in DOMAIN r : Len(s) + i \in DOMAIN (s \o r)
  BY <1>1
<1>6. \A i \in DOMAIN s : i \in DOMAIN (s \o r)
  BY <1>1
<1>7. QED
  BY <1>1, <1>2, <1>3, <1>4, <1>5, <1>6 DEF ToSet

LEMMA ConcatInjective ==
    ASSUME NEW S, NEW s \in Seq(S), NEW r \in Seq(S), IsInjective(s), IsInjective(r),
           ToSet(s) \cap ToSet(r) = {}
    PROVE  IsInjective(s \o r)
<1> DEFINE q == s \o r
<1>1. q \in Seq(S) /\ Len(q) = Len(s) + Len(r) /\ Len(s) \in Nat /\ Len(r) \in Nat
  OBVIOUS
<1>2. \A i \in 1 .. Len(s) : q[i] = s[i] /\ q[i] \in ToSet(s)
  BY DEF ToSet
<1>3. \A i \in Len(s) + 1 .. Len(q) : q[i] = r[i - Len(s)] /\ i - Len(s) \in 1 .. Len(r) /\ q[i] \in ToSet(r)
  BY <1>1 DEF ToSet
<1>4. ASSUME NEW i \in DOMAIN q, NEW j \in DOMAIN q, q[i] = q[j] PROVE i = j
  <2>1. i \in 1 .. Len(s) \/ i \in Len(s) + 1 .. Len(q)
    BY <1>1
  <2>2. j \in 1 .. Len(s) \/ j \in Len(s) + 1 .. Len(q)
    BY <1>1
  <2>3. CASE i \in 1 .. Len(s) /\ j \in 1 .. Len(s)
    BY <1>2, <1>4, <2>3 DEF IsInjective
  <2>4. CASE i \in Len(s) + 1 .. Len(q) /\ j \in Len(s) + 1 .. Len(q)
    <3>1. i - Len(s) = j - Len(s)
      BY <1>3, <1>4, <2>4 DEF IsInjective
    <3>2. QED
      BY <1>1, <3>1
  <2>5. QED
    BY <1>2, <1>3, <1>4, <2>1, <2>2, <2>3, <2>4
<1>5. QED
  BY <1>4 DEF IsInjective

\* A finite set as a sequence.
LEMMA SetToSeqProps ==
    ASSUME NEW S, IsFiniteSet(S)
    PROVE  /\ SetToSeq(S) \in Seq(S) /\ Len(SetToSeq(S)) = Cardinality(S) /\ IsInjective(SetToSeq(S))
           /\ Cardinality(S) \in Nat
<1>1. Cardinality(S) \in Nat /\ ExistsBijection(1 .. Cardinality(S), S)
  BY FS_CardinalityType
<1>2. \E f \in [1 .. Cardinality(S) -> S] : IsInjective(f)
  BY <1>1 DEF ExistsBijection, Bijection, Injection
<1>3. SetToSeq(S) \in [1 .. Cardinality(S) -> S] /\ IsInjective(SetToSeq(S))
  BY <1>2 DEF SetToSeq
<1>4. QED
  BY <1>1, <1>3

\* ... has every element of it.
LEMMA SetToSeqAll ==
    ASSUME NEW S, IsFiniteSet(S), NEW x \in S
    PROVE  \E i \in DOMAIN SetToSeq(S) : SetToSeq(S)[i] = x
<1> DEFINE f == SetToSeq(S)
<1>1. f \in [1 .. Cardinality(S) -> S] /\ IsInjective(f) /\ Cardinality(S) \in Nat
  BY SetToSeqProps
<1> DEFINE n == Cardinality(S)
<1>2. IsFiniteSet(1 .. n) /\ Cardinality(1 .. n) = n
  BY <1>1, FS_Interval
<1>3. IsFiniteSet({f[i] : i \in 1 .. n}) /\ Cardinality({f[i] : i \in 1 .. n}) = n
  <2> DEFINE T == {f[i] : i \in 1 .. n}
  <2>1. f \in Bijection(1 .. n, T)
    BY <1>1 DEF Bijection, Injection, Surjection, IsInjective
  <2>2. QED
    BY <1>2, <2>1, FS_Bijection DEF ExistsBijection
<1>4. {f[i] : i \in 1 .. n} \in SUBSET S
  BY <1>1
<1>5. S = {f[i] : i \in 1 .. n}
  BY <1>3, <1>4, FS_Subset
<1>6. QED
  BY <1>1, <1>5

-----------------------------------------------------------------------------
(* What a step does to the local variables. *)

\* A step of a thread changes nothing of another one's.
OthersKeep(t) ==
    \A u \in Threads \ {t} :
        /\ pc'[u] = pc[u] /\ kind'[u] = kind[u] /\ from'[u] = from[u] /\ have'[u] = have[u]
        /\ mine'[u] = mine[u] /\ built'[u] = built[u] /\ victim'[u] = victim[u]

LEMMA LeaveFrame ==
    ASSUME LocalsType, NEW t \in Threads, Leave(t)
    PROVE  /\ LocalsType' /\ OthersKeep(t)
           /\ pc'[t] = "idle" /\ kind'[t] = "fast" /\ from'[t] = None /\ have'[t] = {}
           /\ mine'[t] = <<>> /\ built'[t] = 0 /\ victim'[t] = None
<1>1. <<>> \in Seq(Ids) /\ {} \in SUBSET Names /\ "fast" \in Kinds /\ "idle" \in PCs
  BY DEF Kinds, PCs
<1>2. Cardinality(Names) \in Nat /\ 0 \in 0 .. Cardinality(Names)
  BY InstallAssumption, FS_CardinalityType
<1>3. pc' \in [Threads -> PCs] /\ kind' \in [Threads -> Kinds] /\ from' \in [Threads -> Ids \cup {None}]
  BY <1>1 DEF LocalsType, Leave, Goto
<1>4. have' \in [Threads -> SUBSET Names] /\ victim' \in [Threads -> Ids \cup {None}]
  BY <1>1 DEF LocalsType, Leave
<1>5. mine' \in [Threads -> Seq(Ids)]
  BY <1>1 DEF LocalsType, Leave
<1>6. built' \in [Threads -> 0 .. Cardinality(Names)]
  BY <1>2 DEF LocalsType, Leave
<1>7. OthersKeep(t)
  BY DEF LocalsType, Leave, Goto, OthersKeep
<1>8. /\ pc'[t] = "idle" /\ kind'[t] = "fast" /\ from'[t] = None /\ have'[t] = {}
      /\ mine'[t] = <<>> /\ built'[t] = 0 /\ victim'[t] = None
  BY DEF LocalsType, Leave, Goto
<1>9. QED
  BY <1>3, <1>4, <1>5, <1>6, <1>7, <1>8 DEF LocalsType

LEMMA GotoFrame ==
    ASSUME LocalsType, NEW t \in Threads, NEW l \in PCs, Goto(t, l), UNCHANGED locals
    PROVE  /\ LocalsType' /\ OthersKeep(t)
           /\ pc'[t] = l /\ kind'[t] = kind[t] /\ from'[t] = from[t] /\ have'[t] = have[t]
           /\ mine'[t] = mine[t] /\ built'[t] = built[t] /\ victim'[t] = victim[t]
<1>1. pc' \in [Threads -> PCs] /\ pc'[t] = l /\ \A u \in Threads \ {t} : pc'[u] = pc[u]
  BY DEF LocalsType, Goto
<1>2. /\ kind' = kind /\ from' = from /\ have' = have /\ mine' = mine /\ built' = built
      /\ victim' = victim
  BY DEF locals
<1>3. QED
  BY <1>1, <1>2 DEF LocalsType, OthersKeep

\* The end of Install0: the call returns, or its clean-up object is run.
LEMMA DoneFrame ==
    ASSUME LocalsType, NEW t \in Threads, Done(t)
    PROVE  /\ LocalsType' /\ OthersKeep(t)
           /\ kind[t] = "fast" => Leave(t)
           /\ kind[t] # "fast" => /\ pc'[t] = (IF kind[t] = "first" THEN "notify" ELSE "decrement")
                                  /\ UNCHANGED locals
<1>1. kind[t] \in Kinds
  BY DEF LocalsType
<1>2. CASE kind[t] = "fast"
  <2>1. Leave(t)
    BY <1>2 DEF Done, AfterInstall0
  <2>2. QED
    BY <1>2, <2>1, LeaveFrame
<1>3. CASE kind[t] # "fast"
  <2>1. PICK l \in PCs : l = (IF kind[t] = "first" THEN "notify" ELSE "decrement")
    BY DEF PCs, InstallPCs
  <2>2. Goto(t, l) /\ UNCHANGED locals
    BY <1>1, <1>3, <2>1 DEF Done, AfterInstall0, Kinds
  <2>3. QED
    BY <1>3, <2>1, <2>2, GotoFrame
<1>4. QED
  BY <1>2, <1>3

-----------------------------------------------------------------------------
(* What need be shown of a step. *)

LEMMA ThreadsKeep ==
    ASSUME ThreadsOK, NEW t \in Threads, OthersKeep(t), KindOK(t)', LocalsOK(t)',
           Known \subseteq Known',
           \A u \in Threads \ {t} : Mine(t)' \cap Mine(u) = {},
           \A u \in Threads \ {t} : kind'[t] = "first" => kind[u] # "first"
    PROVE  ThreadsOK'
<1>1. ASSUME NEW u \in Threads \ {t} PROVE KindOK(u)' /\ LocalsOK(u)' /\ Mine(u)' = Mine(u)
  <2>1. Mine(u)' = Mine(u)
    BY DEF OthersKeep, Mine
  <2>2. KindOK(u)'
    BY DEF OthersKeep, KindOK, ThreadsOK
  <2>3. LocalsOK(u)'
    BY <2>1 DEF OthersKeep, LocalsOK, ThreadsOK
  <2>4. QED
    BY <2>1, <2>2, <2>3
<1>2. \A u \in Threads : KindOK(u)' /\ LocalsOK(u)'
  BY <1>1
<1>3. ASSUME NEW u \in Threads, NEW v \in Threads, u # v PROVE Mine(u)' \cap Mine(v)' = {}
  <2>1. CASE u = t
    BY <1>1, <1>3, <2>1
  <2>2. CASE v = t
    BY <1>1, <1>3, <2>2
  <2>3. CASE u # t /\ v # t
    BY <1>1, <1>3, <2>3 DEF ThreadsOK
  <2>4. QED
    BY <2>1, <2>2, <2>3
<1>4. ASSUME NEW u \in Threads, NEW v \in Threads, kind'[u] = "first", kind'[v] = "first" PROVE u = v
  BY <1>4 DEF OthersKeep, ThreadsOK
<1>5. QED
  BY <1>2, <1>3, <1>4 DEF ThreadsOK

\* The uses of the entry.
LEMMA CountKeep ==
    ASSUME EntryIsCounted, NEW t \in Threads, OthersKeep(t), UNCHANGED <<ref, leaks>>,
           kind'[t] \in {"first", "waiter"} <=> kind[t] \in {"first", "waiter"}
    PROVE  EntryIsCounted'
<1>1. {u \in Threads : kind'[u] \in {"first", "waiter"}} = {u \in Threads : kind[u] \in {"first", "waiter"}}
  BY DEF OthersKeep
<1>2. QED
  BY <1>1 DEF EntryIsCounted

LEMMA TimesMonotone ==
    ASSUME NEW n \in Nat, NEW a \in Nat, NEW b \in Nat, a <= b
    PROVE  n * a <= n * b /\ n * a \in Nat /\ n * b \in Nat
<1>1. PICK c \in Nat : b = a + c
  <2>1. b - a \in Nat /\ b = a + (b - a)
    OBVIOUS
  <2>2. QED
    BY <2>1
<1>2. n * b = n * a + n * c
  BY <1>1
<1>3. n * a \in Nat /\ n * c \in Nat
  BY <1>1
<1>4. QED
  BY <1>2, <1>3

LEMMA TimesNext ==
    ASSUME NEW n \in Nat, NEW a \in Nat
    PROVE  n * (a + 1) = n * a + n /\ n * a \in Nat
OBVIOUS

\* The threads that still need archives are finitely many.
LEMMA EarlyFinite ==
    ASSUME NEW S, S \subseteq Threads
    PROVE  IsFiniteSet(S) /\ Cardinality(S) \in Nat
BY InstallAssumption, FS_Subset, FS_CardinalityType

LEMMA RoomKeep ==
    ASSUME RoomLeft, StorageType, NEW t \in Threads, OthersKeep(t), nextFreeId' = nextFreeId,
           pc'[t] \in EarlyPCs => pc[t] \in EarlyPCs, leaks' <= throws'
    PROVE  RoomLeft'
<1> DEFINE N == Cardinality(Names)
           e == Cardinality(Early)
<1>1. Early' \subseteq Early
  BY DEF OthersKeep, Early
<1>2. IsFiniteSet(Early) /\ e \in Nat /\ Cardinality(Early') \in Nat
  BY EarlyFinite DEF Early
<1>3. Cardinality(Early') <= e
  BY <1>1, <1>2, FS_Subset
<1>4. N \in Nat
  BY InstallAssumption, FS_CardinalityType
<1>5. N * Cardinality(Early') <= N * e /\ N * e \in Nat /\ N * Cardinality(Early') \in Nat
  BY <1>2, <1>3, <1>4, TimesMonotone
<1>6. nextFreeId + N * e <= MaxArchives + 1
  BY DEF RoomLeft
<1>7. nextFreeId + N * Cardinality(Early') <= MaxArchives + 1
  <2> HIDE DEF N, e
  <2>1. nextFreeId \in Nat /\ MaxArchives \in Nat
    BY InstallAssumption DEF StorageType
  <2>2. QED
    BY <1>5, <1>6, <2>1
<1>8. QED
  BY <1>7 DEF RoomLeft

\* A step that no bundle and no archive is concerned by.
LEMMA QuietSeen ==
    ASSUME LocalsType, LocalsType', NEW t \in Threads, OthersKeep(t),
           UNCHANGED <<bundles, upset>>, victim'[t] = victim[t]
    PROVE  Seen' = Seen /\ Inst' = Inst
<1>1. \A u \in Threads : victim'[u] = victim[u]
  BY DEF OthersKeep
<1>2. Victims' = Victims
  BY <1>1 DEF Victims
<1>3. QED
  BY <1>2 DEF Seen, Inst

LEMMA QuietPlaces ==
    ASSUME PlacesOK, ArchivesOK, LocalsType, LocalsType', NEW t \in Threads, OthersKeep(t),
           UNCHANGED <<storage, bundles, upset>>, victim'[t] = victim[t], PlaceOK(t)',
           Mine(t) \cap archives \subseteq Mine(t)' \cup Seen
    PROVE  PlacesOK' /\ ArchivesOK'
<1>1. Seen' = Seen /\ Inst' = Inst /\ archives' = archives /\ Known' = Known /\ upset' = upset
  BY QuietSeen DEF storage, Known
<1>2. ASSUME NEW u \in Threads \ {t} PROVE PlaceOK(u)' /\ Mine(u)' = Mine(u)
  <2>1. Mine(u)' = Mine(u)
    BY DEF OthersKeep, Mine
  <2>2. PlaceOK(u)'
    BY <1>1, <2>1 DEF OthersKeep, PlaceOK, PlacesOK, Fresh, Placed
  <2>3. QED
    BY <2>1, <2>2
<1>3. PlacesOK'
  BY <1>1, <1>2 DEF PlacesOK
<1>4. ArchivesOK'
  BY <1>1, <1>2 DEF ArchivesOK
<1>5. QED
  BY <1>3, <1>4

LEMMA QuietStep ==
    ASSUME IInv0, NEW t \in Threads, OthersKeep(t), LocalsType', CountsType',
           UNCHANGED <<storage, bundles, upset, ref, leaks>>, leaks <= throws',
           mine'[t] = mine[t], victim'[t] = victim[t], kind'[t] = kind[t],
           pc'[t] \in EarlyPCs => pc[t] \in EarlyPCs,
           KindOK(t)', LocalsOK(t)', PlaceOK(t)'
    PROVE  IInv0'
<1>1. StorageType' /\ BundlesType' /\ Known' = Known
  BY DEF IInv0, StorageType, BundlesType, storage, Known, Inst
<1>2. Mine(t)' = Mine(t)
  BY DEF Mine
<1>3. \A u \in Threads \ {t} : Mine(t)' \cap Mine(u) = {}
  BY <1>2 DEF IInv0, ThreadsOK
<1>4. \A u \in Threads \ {t} : kind'[t] = "first" => kind[u] # "first"
  BY DEF IInv0, ThreadsOK
<1>5. ThreadsOK'
  BY <1>1, <1>3, <1>4, ThreadsKeep DEF IInv0
<1>6. EntryIsCounted'
  BY CountKeep DEF IInv0
<1>7. RoomLeft'
  BY RoomKeep DEF IInv0, storage
<1>8. PlacesOK' /\ ArchivesOK'
  BY <1>2, QuietPlaces DEF IInv0
<1>9. QED
  BY <1>1, <1>5, <1>6, <1>7, <1>8 DEF IInv0

\* The counters, when nothing is counted and when a failure is.
LEMMA CountsSame ==
    ASSUME CountsType, RoomLeft, UNCHANGED <<ref, waitFlag, uninstalled, leaks, throws, removals>>
    PROVE  CountsType' /\ leaks <= throws'
BY DEF CountsType, RoomLeft

LEMMA CountsThrow ==
    ASSUME CountsType, RoomLeft, UNCHANGED <<ref, waitFlag, uninstalled, leaks, removals>>, Throw
    PROVE  CountsType' /\ leaks <= throws'
BY InstallAssumption DEF CountsType, RoomLeft, Throw

\* What is used of a thread.
LEMMA Its ==
    ASSUME IInv0, NEW t \in Threads
    PROVE  /\ KindOK(t) /\ LocalsOK(t) /\ PlaceOK(t)
           /\ pc[t] \in PCs /\ kind[t] \in Kinds /\ from[t] \in Ids \cup {None} /\ have[t] \in SUBSET Names
           /\ mine[t] \in Seq(Ids) /\ built[t] \in 0 .. Cardinality(Names) /\ victim[t] \in Ids \cup {None}
BY DEF IInv0, ThreadsOK, PlacesOK, LocalsType

\* What a step leaves that has nothing to do with bundles and archives.
LEMMA SamePlace ==
    ASSUME IInv0, NEW t \in Threads, OthersKeep(t), LocalsType', UNCHANGED <<storage, bundles, upset>>,
           mine'[t] = mine[t], victim'[t] = victim[t]
    PROVE  /\ (victim[t] # None => victim[t] \in Known \ Inst)' 
           /\ Mine(t)' = Mine(t) /\ (Fresh(t)' <=> Fresh(t)) /\ (Placed(t)' <=> Placed(t))
           /\ Known' = Known /\ Seen' = Seen /\ archives' = archives
<1>1. Seen' = Seen /\ Inst' = Inst
  BY QuietSeen DEF IInv0
<1>2. Known' = Known /\ archives' = archives
  BY DEF storage, Known
<1>3. Mine(t)' = Mine(t)
  BY DEF Mine
<1>4. QED
  BY <1>1, <1>2, <1>3, Its DEF PlaceOK, Fresh, Placed

LEMMA WaitDoneKeeps ==
    ASSUME IInv0, NEW t \in Threads, WaitDone(t)
    PROVE  IInv0'
<1>1. /\ LocalsType' /\ OthersKeep(t)
      /\ pc'[t] = "requery" /\ kind'[t] = kind[t] /\ from'[t] = from[t] /\ have'[t] = have[t]
      /\ mine'[t] = mine[t] /\ built'[t] = built[t] /\ victim'[t] = victim[t]
  <2>1. "requery" \in PCs
    BY DEF PCs, InstallPCs
  <2>2. QED
    BY <2>1, GotoFrame DEF WaitDone, IInv0
<1>2. UNCHANGED <<storage, bundles, upset, ref, leaks, waitFlag, uninstalled, throws, removals>>
  BY DEF WaitDone, entry, histVars
<1>3. CountsType' /\ leaks <= throws'
  BY <1>2, CountsSame DEF IInv0
<1>4. pc[t] = "wait"
  BY DEF WaitDone, At
<1>5. KindOK(t)'
  BY <1>1, <1>4, Its DEF KindOK
<1>6. LocalsOK(t)'
  BY <1>1, <1>2, <1>4, Its, SamePlace DEF LocalsOK, EarlyPCs
<1>7. PlaceOK(t)'
  BY <1>1, <1>2, SamePlace DEF PlaceOK
<1>8. QED
  BY <1>1, <1>2, <1>3, <1>4, <1>5, <1>6, <1>7, QuietStep DEF EarlyPCs

LEMMA RequeryKeeps ==
    ASSUME IInv0, NEW t \in Threads, Requery(t)
    PROVE  IInv0'
<1>1. RangeFirst \in Ids \cup {None}
  BY DEF RangeFirst, IInv0, BundlesType
<1>2. /\ LocalsType' /\ OthersKeep(t)
      /\ pc'[t] = "already" /\ kind'[t] = kind[t] /\ from'[t] = RangeFirst /\ have'[t] = have[t]
      /\ mine'[t] = mine[t] /\ built'[t] = built[t] /\ victim'[t] = victim[t]
  <2>1. pc' = [pc EXCEPT ![t] = "already"] /\ from' = [from EXCEPT ![t] = RangeFirst]
        /\ UNCHANGED <<kind, have, mine, built, victim>>
    BY DEF Requery, Goto
  <2>2. "already" \in PCs
    BY DEF PCs, InstallPCs
  <2>3. LocalsType'
    BY <1>1, <2>1, <2>2 DEF LocalsType, IInv0
  <2>4. QED
    BY <2>1, <2>3 DEF LocalsType, OthersKeep, IInv0
<1>3. UNCHANGED <<storage, bundles, upset, ref, leaks, waitFlag, uninstalled, throws, removals>>
  BY DEF Requery, entry, histVars
<1>4. CountsType' /\ leaks <= throws'
  BY <1>3, CountsSame DEF IInv0
<1>5. pc[t] = "requery"
  BY DEF Requery, At
<1>6. KindOK(t)'
  BY <1>2, <1>5, Its DEF KindOK
<1>7. LocalsOK(t)'
  BY <1>2, <1>3, <1>5, Its, SamePlace DEF LocalsOK, EarlyPCs
<1>8. PlaceOK(t)'
  BY <1>2, <1>3, SamePlace DEF PlaceOK
<1>9. QED
  BY <1>2, <1>3, <1>4, <1>5, <1>6, <1>7, <1>8, QuietStep DEF EarlyPCs

LEMMA AlreadyInstalledKeeps ==
    ASSUME IInv0, NEW t \in Threads, AlreadyInstalled(t)
    PROVE  IInv0'
<1>1. pc[t] = "already" /\ kind[t] # "first"
  BY Its DEF AlreadyInstalled, At, KindOK
<1>2. PICK l \in {"archives", "fault"}, h \in SUBSET Names :
          /\ pc' = [pc EXCEPT ![t] = l] /\ have' = [have EXCEPT ![t] = h]
          /\ l = "archives" \/ h = have[t]
  <2>1. CASE Contains(bundles, from[t])
    <3>1. {name[bundles[i]] : i \in DOMAIN bundles} \in SUBSET Names
      BY DEF IInv0, BundlesType, StorageType
    <3>2. QED
      BY <2>1, <3>1 DEF AlreadyInstalled, Goto
  <2>2. CASE ~Contains(bundles, from[t])
    <3>1. pc' = [pc EXCEPT ![t] = "fault"] /\ have' = have
      BY <2>2 DEF AlreadyInstalled, Goto
    <3>2. have' = [have EXCEPT ![t] = have[t]] /\ have[t] \in SUBSET Names
      BY <3>1 DEF IInv0, LocalsType
    <3>3. QED
      BY <3>1, <3>2
  <2>3. QED
    BY <2>1, <2>2
<1>3. /\ LocalsType' /\ OthersKeep(t)
      /\ pc'[t] = l /\ kind'[t] = kind[t] /\ from'[t] = from[t] /\ have'[t] = h
      /\ mine'[t] = mine[t] /\ built'[t] = built[t] /\ victim'[t] = victim[t]
  <2>1. UNCHANGED <<kind, from, mine, built, victim>>
    BY DEF AlreadyInstalled
  <2>2. l \in PCs
    BY DEF PCs, InstallPCs
  <2>3. LocalsType'
    BY <1>2, <2>1, <2>2 DEF LocalsType, IInv0
  <2>4. QED
    BY <1>2, <2>1, <2>3 DEF LocalsType, OthersKeep, IInv0
<1>4. UNCHANGED <<storage, bundles, upset, ref, leaks, waitFlag, uninstalled, throws, removals>>
  BY DEF AlreadyInstalled, entry, histVars
<1>5. CountsType' /\ leaks <= throws'
  BY <1>4, CountsSame DEF IInv0
<1>6. KindOK(t)'
  BY <1>2, <1>3 DEF KindOK
<1>7. LocalsOK(t)'
  BY <1>1, <1>2, <1>3, <1>4, Its, SamePlace DEF LocalsOK, EarlyPCs
<1>8. PlaceOK(t)'
  BY <1>2, <1>3, <1>4, SamePlace DEF PlaceOK
<1>9. QED
  BY <1>1, <1>3, <1>4, <1>5, <1>6, <1>7, <1>8, QuietStep DEF EarlyPCs

LEMMA FirstContainerKeeps ==
    ASSUME IInv0, NEW t \in Threads, FirstContainer(t)
    PROVE  IInv0'
<1>1. pc[t] = "container" /\ kind[t] = "first"
  BY Its DEF FirstContainer, At, KindOK
<1>2. PICK l \in {"archives", "notify"} : Goto(t, l)
  BY DEF FirstContainer
<1>3. /\ LocalsType' /\ OthersKeep(t)
      /\ pc'[t] = l /\ kind'[t] = kind[t] /\ from'[t] = from[t] /\ have'[t] = have[t]
      /\ mine'[t] = mine[t] /\ built'[t] = built[t] /\ victim'[t] = victim[t]
  <2>1. l \in PCs
    BY DEF PCs, InstallPCs
  <2>2. UNCHANGED locals
    BY DEF FirstContainer
  <2>3. QED
    BY <1>2, <2>1, <2>2, GotoFrame DEF IInv0
<1>4. UNCHANGED <<storage, bundles, upset, ref, leaks, waitFlag, uninstalled, removals>>
  BY DEF FirstContainer, entry
<1>5. CountsType' /\ leaks <= throws'
  <2>1. UNCHANGED throws \/ Throw
    BY DEF FirstContainer
  <2>2. QED
    BY <1>4, <2>1, CountsSame, CountsThrow DEF IInv0
<1>6. KindOK(t)'
  BY <1>1, <1>3 DEF KindOK
<1>7. LocalsOK(t)'
  BY <1>1, <1>3, <1>4, Its, SamePlace DEF LocalsOK, EarlyPCs
<1>8. PlaceOK(t)'
  <2>1. Mine(t) = {}
    BY <1>1, Its DEF LocalsOK, EarlyPCs, Mine, ToSet
  <2>2. QED
    BY <1>3, <1>4, <2>1, SamePlace DEF PlaceOK, Placed
<1>9. QED
  BY <1>1, <1>3, <1>4, <1>5, <1>6, <1>7, <1>8, QuietStep DEF EarlyPCs

LEMMA ConstructKeeps ==
    ASSUME IInv0, NEW t \in Threads, Construct(t)
    PROVE  IInv0'
<1>1. pc[t] = "construct" /\ built[t] < Len(mine[t])
  BY DEF Construct, At
<1>2. UNCHANGED <<storage, bundles, upset, ref, leaks, waitFlag, uninstalled, removals>>
  BY DEF Construct, entry
<1>3. UNCHANGED <<kind, from, have, mine, victim>>
  BY DEF Construct
<1>4. CASE built' = [built EXCEPT ![t] = @ + 1] /\ UNCHANGED <<pc, throws>>
  <2>1. built[t] + 1 \in 0 .. Cardinality(Names) /\ built[t] + 1 <= Len(mine[t])
    <3>1. built[t] \in Nat /\ Len(mine[t]) \in Nat /\ Len(mine[t]) <= Cardinality(Names)
      BY Its DEF LocalsOK
    <3>2. Cardinality(Names) \in Nat
      BY InstallAssumption, FS_CardinalityType
    <3>3. QED
      BY <1>1, <3>1, <3>2
  <2>2. built' \in [Threads -> 0 .. Cardinality(Names)] /\ built'[t] = built[t] + 1
        /\ \A u \in Threads \ {t} : built'[u] = built[u]
    BY <1>4, <2>1 DEF IInv0, LocalsType
  <2>3. LocalsType' /\ OthersKeep(t)
    BY <1>3, <1>4, <2>2 DEF IInv0, LocalsType, OthersKeep
  <2>4. CountsType' /\ leaks <= throws'
    BY <1>2, <1>4, CountsSame DEF IInv0
  <2>5. KindOK(t)'
    BY <1>3, <1>4, Its DEF KindOK
  <2>6. LocalsOK(t)'
    BY <1>1, <1>2, <1>3, <1>4, <2>1, <2>2, <2>3, Its, SamePlace DEF LocalsOK, EarlyPCs
  <2>7. PlaceOK(t)'
    BY <1>1, <1>2, <1>3, <1>4, <2>3, Its, SamePlace DEF PlaceOK
  <2>8. QED
    BY <1>2, <1>3, <1>4, <2>3, <2>4, <2>5, <2>6, <2>7, QuietStep
<1>5. CASE Goto(t, "purge") /\ UNCHANGED built /\ (UNCHANGED throws \/ Throw)
  <2>1. /\ LocalsType' /\ OthersKeep(t)
        /\ pc'[t] = "purge" /\ kind'[t] = kind[t] /\ from'[t] = from[t] /\ have'[t] = have[t]
        /\ mine'[t] = mine[t] /\ built'[t] = built[t] /\ victim'[t] = victim[t]
    <3>1. "purge" \in PCs /\ UNCHANGED locals
      BY <1>3, <1>5 DEF PCs, InstallPCs, locals
    <3>2. QED
      BY <1>5, <3>1, GotoFrame DEF IInv0
  <2>2. CountsType' /\ leaks <= throws'
    BY <1>2, <1>5, CountsSame, CountsThrow DEF IInv0
  <2>3. KindOK(t)'
    BY <2>1 DEF KindOK
  <2>4. LocalsOK(t)'
    BY <1>1, <1>2, <2>1, Its, SamePlace DEF LocalsOK, EarlyPCs
  <2>5. PlaceOK(t)'
    BY <1>1, <1>2, <2>1, Its, SamePlace DEF PlaceOK
  <2>6. QED
    BY <1>2, <2>1, <2>2, <2>3, <2>4, <2>5, QuietStep DEF EarlyPCs
<1>6. QED
  BY <1>4, <1>5 DEF Construct

LEMMA NotifyKeeps ==
    ASSUME IInv0, NEW t \in Threads, Notify(t)
    PROVE  IInv0'
<1>1. pc[t] = "notify" /\ kind[t] = "first"
  BY Its DEF Notify, At, KindOK
<1>2. /\ LocalsType' /\ OthersKeep(t)
      /\ pc'[t] = "decrement" /\ kind'[t] = kind[t] /\ from'[t] = from[t] /\ have'[t] = have[t]
      /\ mine'[t] = mine[t] /\ built'[t] = built[t] /\ victim'[t] = victim[t]
  <2>1. "decrement" \in PCs
    BY DEF PCs, InstallPCs
  <2>2. QED
    BY <2>1, GotoFrame DEF Notify, IInv0
<1>3. UNCHANGED <<storage, bundles, upset, ref, leaks, uninstalled, throws, removals>>
  BY DEF Notify, histVars
<1>4. CountsType' /\ leaks <= throws'
  BY <1>3 DEF IInv0, CountsType, RoomLeft, Notify
<1>5. KindOK(t)'
  BY <1>1, <1>2 DEF KindOK
<1>6. LocalsOK(t)'
  BY <1>1, <1>2, <1>3, Its, SamePlace DEF LocalsOK, EarlyPCs
<1>7. PlaceOK(t)'
  BY <1>1, <1>2, <1>3, Its, SamePlace DEF PlaceOK
<1>8. QED
  BY <1>2, <1>3, <1>4, <1>5, <1>6, <1>7, QuietStep DEF EarlyPCs

\* What holds of a thread that is in no call.
LEMMA OutsideOK ==
    ASSUME NEW t \in Threads, LocalsType', pc'[t] = "idle", kind'[t] = "fast", have'[t] = {},
           mine'[t] = <<>>, built'[t] = 0, victim'[t] = None
    PROVE  KindOK(t)' /\ LocalsOK(t)' /\ PlaceOK(t)' /\ Mine(t)' = {}
<1>1. Mine(t)' = {} /\ IsInjective(<<>>) /\ Len(<<>>) = 0
  BY DEF Mine, ToSet, IsInjective
<1>2. Cardinality(Names) \in Nat
  BY InstallAssumption, FS_CardinalityType
<1>3. KindOK(t)'
  BY DEF KindOK
<1>4. LocalsOK(t)'
  BY <1>1, <1>2 DEF LocalsOK
<1>5. PlaceOK(t)'
  BY DEF PlaceOK
<1>6. QED
  BY <1>1, <1>3, <1>4, <1>5

\* A call of Install returns.
LEMMA ReturnStep ==
    ASSUME IInv0, NEW t \in Threads, Leave(t), UNCHANGED <<storage, bundles, upset>>, CountsType',
           leaks' <= throws', EntryIsCounted', Placed(t), victim[t] = None
    PROVE  IInv0'
<1>1. /\ LocalsType' /\ OthersKeep(t)
      /\ pc'[t] = "idle" /\ kind'[t] = "fast" /\ from'[t] = None /\ have'[t] = {}
      /\ mine'[t] = <<>> /\ built'[t] = 0 /\ victim'[t] = None
  BY LeaveFrame DEF IInv0
<1>2. StorageType' /\ BundlesType' /\ Known' = Known
  BY DEF IInv0, StorageType, BundlesType, storage, Known, Inst
<1>3. KindOK(t)' /\ LocalsOK(t)' /\ PlaceOK(t)' /\ Mine(t)' = {}
  BY <1>1, OutsideOK
<1>4. ThreadsOK'
  BY <1>1, <1>2, <1>3, ThreadsKeep DEF IInv0
<1>5. RoomLeft'
  BY <1>1, RoomKeep DEF IInv0, storage, EarlyPCs
<1>6. PlacesOK' /\ ArchivesOK'
  BY <1>1, <1>3, QuietPlaces DEF IInv0, Placed
<1>7. QED
  BY <1>1, <1>2, <1>4, <1>5, <1>6 DEF IInv0

\* One that did not use the entry.
LEMMA FastCount ==
    ASSUME IInv0, NEW t \in Threads, Leave(t), kind[t] = "fast", UNCHANGED <<ref, leaks>>
    PROVE  EntryIsCounted'
BY LeaveFrame, CountKeep DEF IInv0

\* One that did: it is no longer counted.
LEMMA UsersLeave ==
    ASSUME IInv0, NEW t \in Threads, Leave(t), kind[t] # "fast"
    PROVE  /\ Users' = Users \ {t} /\ t \in Users /\ IsFiniteSet(Users)
           /\ Cardinality(Users) \in Nat /\ Cardinality(Users') \in Nat
           /\ Cardinality(Users') = Cardinality(Users) - 1
<1>1. kind'[t] = "fast" /\ \A u \in Threads \ {t} : kind'[u] = kind[u]
  BY LeaveFrame DEF IInv0, OthersKeep
<1>2. kind[t] \in {"first", "waiter"}
  BY Its DEF Kinds
<1>3. Users' = Users \ {t} /\ t \in Users
  BY <1>1, <1>2 DEF Users
<1>4. IsFiniteSet(Users) /\ Cardinality(Users) \in Nat
  BY EarlyFinite DEF Users
<1>5. Cardinality(Users \ {t}) = Cardinality(Users) - 1
  BY <1>3, <1>4, FS_RemoveElement
<1>6. Cardinality(Users') \in Nat
  BY EarlyFinite DEF Users
<1>7. QED
  BY <1>3, <1>4, <1>5, <1>6

LEMMA DecrementKeeps ==
    ASSUME IInv0, NEW t \in Threads, Decrement(t)
    PROVE  IInv0'
<1>1. pc[t] = "decrement" /\ kind[t] # "fast" /\ victim[t] = None /\ Placed(t)
  BY Its DEF Decrement, At, KindOK, LocalsOK, PlaceOK
<1>2. Leave(t) /\ ref' = ref - 1 /\ UNCHANGED <<storage, bundles, upset, uninstalled, leaks, throws, removals>>
  BY DEF Decrement, histVars
<1>3. Cardinality(Users') = Cardinality(Users) - 1 /\ Cardinality(Users) \in Nat /\ Cardinality(Users') \in Nat
  BY <1>1, <1>2, UsersLeave
<1>4. ref = leaks + Cardinality(Users) /\ leaks \in Nat
  BY DEF IInv0, EntryIsCounted, Users, CountsType
<1>5. ref' = leaks' + Cardinality(Users') /\ ref' \in Nat
  BY <1>2, <1>3, <1>4
<1>6. EntryIsCounted'
  BY <1>5 DEF EntryIsCounted, Users
<1>7. waitFlag' \in BOOLEAN
  BY DEF Decrement
<1>8. CountsType' /\ leaks' <= throws'
  BY <1>2, <1>5, <1>7 DEF IInv0, CountsType, RoomLeft
<1>9. QED
  BY <1>1, <1>2, <1>6, <1>8, ReturnStep

LEMMA WaiterContainerKeeps ==
    ASSUME IInv0, NEW t \in Threads, WaiterContainer(t)
    PROVE  IInv0'
<1>1. pc[t] = "already" /\ kind[t] = "waiter" /\ mine[t] = <<>> /\ victim[t] = None
  BY Its DEF WaiterContainer, At, KindOK, LocalsOK, EarlyPCs
<1>2. UNCHANGED <<storage, bundles, upset, ref, waitFlag, uninstalled, removals>>
  BY DEF WaiterContainer, entry
<1>3. CASE Goto(t, "archives") /\ UNCHANGED <<locals, leaks, throws>>
  <2>1. /\ LocalsType' /\ OthersKeep(t)
        /\ pc'[t] = "archives" /\ kind'[t] = kind[t] /\ from'[t] = from[t] /\ have'[t] = have[t]
        /\ mine'[t] = mine[t] /\ built'[t] = built[t] /\ victim'[t] = victim[t]
    <3>1. "archives" \in PCs
      BY DEF PCs, InstallPCs
    <3>2. QED
      BY <1>3, <3>1, GotoFrame DEF IInv0
  <2>2. CountsType' /\ leaks <= throws'
    BY <1>2, <1>3, CountsSame DEF IInv0
  <2>3. KindOK(t)'
    BY <2>1 DEF KindOK
  <2>4. LocalsOK(t)'
    BY <1>1, <1>2, <2>1, Its, SamePlace DEF LocalsOK, EarlyPCs
  <2>5. PlaceOK(t)'
    BY <1>1, <1>2, <2>1, Its, SamePlace DEF PlaceOK
  <2>6. QED
    BY <1>1, <1>2, <1>3, <2>1, <2>2, <2>3, <2>4, <2>5, QuietStep DEF EarlyPCs
<1>4. CASE Throw /\ Leave(t) /\ leaks' = leaks + 1
  <2>1. Cardinality(Users') = Cardinality(Users) - 1 /\ Cardinality(Users) \in Nat /\ Cardinality(Users') \in Nat
    BY <1>1, <1>4, UsersLeave
  <2>2. ref = leaks + Cardinality(Users) /\ leaks \in Nat
    BY DEF IInv0, EntryIsCounted, Users, CountsType
  <2>3. ref' = leaks' + Cardinality(Users')
    BY <1>2, <1>4, <2>1, <2>2
  <2>4. EntryIsCounted'
    BY <2>3 DEF EntryIsCounted, Users
  <2>5. leaks' <= throws' /\ throws' \in 0 .. MaxThrows /\ leaks' \in 0 .. MaxThrows
    BY <1>4, InstallAssumption DEF IInv0, CountsType, RoomLeft, Throw
  <2>6. CountsType'
    BY <1>2, <2>5 DEF IInv0, CountsType
  <2>7. Placed(t)
    BY <1>1 DEF Placed, Mine, ToSet
  <2>8. QED
    BY <1>1, <1>2, <1>4, <2>4, <2>5, <2>6, <2>7, ReturnStep
<1>5. QED
  BY <1>3, <1>4 DEF WaiterContainer

\* A call finds room for its archives.
LEMMA RoomCall ==
    ASSUME StorageType, Room, NEW t \in Threads, OthersKeep(t), nextFreeId' = nextFreeId, leaks' <= throws'
    PROVE  RoomLeft'
<1> DEFINE N == Cardinality(Names)
           I == {u \in Threads : Installing(u)}
           c == Cardinality(I)
<1>1. Early' \subseteq I \cup {t}
  BY DEF OthersKeep, Early, EarlyPCs, Installing, InstallPCs
<1>2. IsFiniteSet(I) /\ c \in Nat /\ Cardinality(Early') \in Nat
  BY EarlyFinite DEF Early
<1>3. IsFiniteSet(I \cup {t}) /\ Cardinality(I \cup {t}) <= c + 1 /\ Cardinality(I \cup {t}) \in Nat
  <2>1. IsFiniteSet(I \cup {t})
        /\ Cardinality(I \cup {t}) = IF t \in I THEN Cardinality(I) ELSE Cardinality(I) + 1
    BY <1>2, FS_AddElement, Zenon
  <2> HIDE DEF I
  <2>2. QED
    BY <1>2, <2>1
<1>4. Cardinality(Early') <= 1 + c
  <2>1. Cardinality(Early') <= Cardinality(I \cup {t})
    BY <1>1, <1>3, FS_Subset
  <2>2. QED
    BY <1>2, <1>3, <2>1
<1>5. N \in Nat
  BY InstallAssumption, FS_CardinalityType
<1>6. N * Cardinality(Early') <= N * (1 + c) /\ N * (1 + c) \in Nat /\ N * Cardinality(Early') \in Nat
  <2>1. 1 + c \in Nat
    BY <1>2
  <2>2. QED
    BY <1>2, <1>4, <1>5, <2>1, TimesMonotone
<1>7. nextFreeId + N * (1 + c) <= MaxArchives + 1
  BY DEF Room
<1>8. nextFreeId + N * Cardinality(Early') <= MaxArchives + 1
  <2> HIDE DEF N, c, I
  <2>1. nextFreeId \in Nat /\ MaxArchives \in Nat
    BY InstallAssumption DEF StorageType
  <2>2. QED
    BY <1>6, <1>7, <2>1
<1>9. QED
  BY <1>8 DEF RoomLeft

\* A thread that begins to use the entry is counted.
LEMMA UsersJoin ==
    ASSUME IInv0, NEW t \in Threads, OthersKeep(t), kind[t] = "fast", kind'[t] \in {"first", "waiter"}
    PROVE  /\ Cardinality(Users') = Cardinality(Users) + 1
           /\ Cardinality(Users) \in Nat
<1>1. Users' = Users \cup {t} /\ t \notin Users
  BY DEF Users, OthersKeep
<1>2. IsFiniteSet(Users) /\ Cardinality(Users) \in Nat
  BY EarlyFinite DEF Users
<1>3. Cardinality(Users \cup {t}) = Cardinality(Users) + 1
  BY <1>1, <1>2, FS_AddElement
<1>4. QED
  BY <1>1, <1>2, <1>3

LEMMA InstallCallKeeps ==
    ASSUME IInv0, NEW t \in Threads, InstallCall(t)
    PROVE  IInv0'
<1>1. pc[t] = "idle" /\ kind[t] = "fast" /\ mine[t] = <<>> /\ built[t] = 0 /\ victim[t] = None /\ have[t] = {}
  BY Its DEF InstallCall, At, KindOK, LocalsOK
<1>2. UNCHANGED <<storage, bundles, upset, leaks, uninstalled, throws, removals, have, mine, built, victim>>
  BY DEF InstallCall, histVars
<1>3. RangeFirst \in Ids \cup {None} /\ (bundles # <<>> => RangeFirst # None)
  <2>1. bundles # <<>> => Head(bundles) \in Ids
    BY DEF IInv0, BundlesType
  <2>2. QED
    BY <2>1 DEF RangeFirst, Ids, None
<1>4. PICK l \in {"already", "container", "wait"}, k \in Kinds, f \in Ids \cup {None} :
         /\ pc' = [pc EXCEPT ![t] = l]
         /\ kind' = [kind EXCEPT ![t] = k]
         /\ from' = [from EXCEPT ![t] = f]
         /\ l = "already" => k = "fast" /\ f # None /\ UNCHANGED entry
         /\ l = "container" => k = "first" /\ ref = 0 /\ ref' = 1 /\ waitFlag' = TRUE
         /\ l = "wait" => k = "waiter" /\ ref' = ref + 1 /\ waitFlag' = waitFlag
  <2>1. kind = [kind EXCEPT ![t] = "fast"] /\ from = [from EXCEPT ![t] = from[t]] /\ from[t] \in Ids \cup {None}
    BY <1>1 DEF IInv0, LocalsType
  <2>2. "fast" \in Kinds /\ "first" \in Kinds /\ "waiter" \in Kinds
    BY DEF Kinds
  <2>3. CASE bundles # <<>>
    BY <1>3, <2>1, <2>2, <2>3 DEF InstallCall, Goto
  <2>4. CASE bundles = <<>> /\ ref = 0
    BY <2>1, <2>2, <2>4 DEF InstallCall, Goto
  <2>5. CASE bundles = <<>> /\ ref # 0
    BY <2>1, <2>2, <2>5 DEF InstallCall, Goto
  <2>6. QED
    BY <2>3, <2>4, <2>5
<1>5. /\ LocalsType' /\ OthersKeep(t)
      /\ pc'[t] = l /\ kind'[t] = k /\ from'[t] = f /\ have'[t] = have[t]
      /\ mine'[t] = mine[t] /\ built'[t] = built[t] /\ victim'[t] = victim[t]
  <2>1. l \in PCs
    BY DEF PCs, InstallPCs
  <2>2. LocalsType'
    BY <1>2, <1>4, <2>1 DEF LocalsType, IInv0
  <2>3. QED
    BY <1>2, <1>4, <2>2 DEF LocalsType, OthersKeep, IInv0
<1>6. ref = leaks + Cardinality(Users) /\ leaks \in Nat /\ Cardinality(Users) \in Nat
  BY EarlyFinite DEF IInv0, EntryIsCounted, Users, CountsType
<1>7. EntryIsCounted' /\ ref' \in Nat /\ waitFlag' \in BOOLEAN
  <2>1. CASE l = "already"
    BY <1>1, <1>4, <1>5, <1>2, <2>1, CountKeep DEF IInv0, entry, CountsType
  <2>2. CASE l # "already"
    <3>1. Cardinality(Users') = Cardinality(Users) + 1
      BY <1>1, <1>4, <1>5, <2>2, UsersJoin
    <3>2. ref' = ref + 1 /\ waitFlag' \in BOOLEAN
      <4>1. CASE l = "container"
        <5>1. ref = 0 /\ ref' = 1
          BY <1>4, <4>1
        <5>2. waitFlag' = TRUE
          BY <1>4, <4>1
        <5>3. QED
          BY <5>1, <5>2
      <4>2. CASE l = "wait"
        <5>1. ref' = ref + 1
          BY <1>4, <4>2
        <5>2. waitFlag' = waitFlag
          BY <1>4, <4>2
        <5>3. QED
          BY <5>1, <5>2 DEF IInv0, CountsType
      <4>3. QED
        BY <2>2, <4>1, <4>2
    <3>3. leaks' = leaks
      BY <1>2
    <3>4. ref' = leaks' + Cardinality(Users') /\ ref' \in Nat
      BY <1>6, <3>1, <3>2, <3>3
    <3>5. QED
      BY <3>2, <3>4 DEF EntryIsCounted, Users
  <2>3. QED
    BY <2>1, <2>2
<1>8. CountsType' /\ leaks' <= throws'
  BY <1>2, <1>7 DEF IInv0, CountsType, RoomLeft
<1>9. RoomLeft'
  BY <1>2, <1>5, <1>8, RoomCall DEF IInv0, InstallCall, storage
<1>10. StorageType' /\ BundlesType' /\ Known' = Known
  BY <1>2 DEF IInv0, StorageType, BundlesType, storage, Known, Inst
<1>11. KindOK(t)'
  BY <1>4, <1>5 DEF KindOK
<1>12. LocalsOK(t)'
  BY <1>1, <1>2, <1>5, Its, SamePlace DEF LocalsOK, EarlyPCs
<1>13. PlaceOK(t)'
  BY <1>1, <1>2, <1>5, SamePlace DEF PlaceOK
<1>14. Mine(t)' = {} /\ Mine(t) = {}
  BY <1>1, <1>5 DEF Mine, ToSet
<1>15. ASSUME k = "first", NEW u \in Threads \ {t} PROVE kind[u] # "first"
  <2>1. Cardinality(Users) = 0
    BY <1>4, <1>6, <1>15
  <2>2. Users = {}
    BY <2>1, EarlyFinite, FS_EmptySet DEF Users
  <2>3. QED
    BY <2>2 DEF Users
<1>16. ThreadsOK'
  BY <1>5, <1>10, <1>11, <1>12, <1>14, <1>15, ThreadsKeep DEF IInv0
<1>17. PlacesOK' /\ ArchivesOK'
  BY <1>2, <1>5, <1>13, <1>14, QuietPlaces DEF IInv0
<1>18. QED
  BY <1>5, <1>7, <1>8, <1>9, <1>10, <1>16, <1>17 DEF IInv0

\* Archives come to be seen by everyone: the bundles are inserted, or their listeners threw.
LEMMA SeenGrows ==
    ASSUME IInv0, NEW t \in Threads, OthersKeep(t), UNCHANGED storage,
           Seen' = Seen \cup Mine(t), upset \subseteq upset', Inst \subseteq Inst', 
           Inst' \subseteq Inst \cup Mine(t), upset' \subseteq upset \cup Mine(t),
           \A u \in Threads \ {t} : victim[u] # None => victim[u] \notin Inst',
           mine'[t] = mine[t], PlaceOK(t)', (Inst \ upset)' \subseteq archives
    PROVE  PlacesOK' /\ ArchivesOK'
<1>1. Known' = Known /\ archives' = archives
  BY DEF storage, Known
<1>2. Mine(t)' = Mine(t)
  BY DEF Mine
<1>3. ASSUME NEW u \in Threads \ {t} PROVE PlaceOK(u)' /\ Mine(u)' = Mine(u)
  <2>1. Mine(u)' = Mine(u)
    BY DEF OthersKeep, Mine
  <2>2. Mine(u) \cap Mine(t) = {}
    BY DEF IInv0, ThreadsOK
  <2>3. (Fresh(u) => Fresh(u)') /\ (Placed(u) => Placed(u)')
    BY <1>1, <2>1, <2>2 DEF Fresh, Placed
  <2>4. PlaceOK(u)'
    BY <1>1, <2>1, <2>3, Its DEF OthersKeep, PlaceOK
  <2>5. QED
    BY <2>1, <2>4
<1>4. upset' \subseteq Known'
  BY <1>1, Its DEF IInv0, PlacesOK, LocalsOK
<1>5. PlacesOK'
  BY <1>3, <1>4 DEF PlacesOK
<1>6. ASSUME NEW i \in archives' PROVE i \in Seen' \/ \E u \in Threads : i \in Mine(u)'
  BY <1>1, <1>2, <1>3 DEF IInv0, ArchivesOK
<1>7. ArchivesOK'
  BY <1>1, <1>6 DEF ArchivesOK
<1>8. QED
  BY <1>5, <1>7

LEMMA InsertKeeps ==
    ASSUME IInv0, NEW t \in Threads, Insert(t)
    PROVE  IInv0'
<1>1. pc[t] = "construct" /\ Fresh(t) /\ Mine(t) \subseteq archives /\ victim[t] = None
  BY Its DEF Insert, At, PlaceOK, LocalsOK
<1>2. UNCHANGED <<storage, upset, ref, leaks, waitFlag, uninstalled, throws, removals, kind, locals>>
  BY DEF Insert, entry, histVars, locals
<1>3. /\ LocalsType' /\ OthersKeep(t)
      /\ pc'[t] = "event" /\ kind'[t] = kind[t] /\ from'[t] = from[t] /\ have'[t] = have[t]
      /\ mine'[t] = mine[t] /\ built'[t] = built[t] /\ victim'[t] = victim[t]
  <2>1. "event" \in PCs
    BY DEF PCs, InstallPCs
  <2>2. QED
    BY <2>1, GotoFrame DEF Insert, IInv0
<1>4. CountsType' /\ leaks <= throws' /\ leaks' <= throws'
  BY <1>2, CountsSame DEF IInv0
<1>5. bundles \in Seq(Ids) /\ mine[t] \in Seq(Ids) /\ IsInjective(bundles) /\ IsInjective(mine[t])
  BY Its DEF IInv0, BundlesType, LocalsOK
<1>6. bundles' \in Seq(Ids) /\ Inst' = Inst \cup Mine(t)
  BY <1>5, ConcatSet DEF Insert, Inst, Mine
<1>7. Inst \cap Mine(t) = {}
  BY <1>1 DEF Fresh, Seen
<1>8. IsInjective(bundles')
  <2>1. IsInjective(bundles \o mine[t])
    BY <1>5, <1>7, ConcatInjective DEF Inst, Mine
  <2>2. QED
    BY <2>1 DEF Insert
<1>9. Known' = Known /\ StorageType'
  BY <1>2 DEF storage, Known, IInv0, StorageType
<1>10. BundlesType'
  <2>1. Inst' \subseteq Known'
    BY <1>6, <1>9, Its DEF IInv0, BundlesType, LocalsOK
  <2>2. QED
    BY <1>6, <1>8, <2>1 DEF BundlesType
<1>11. Mine(t)' = Mine(t)
  BY <1>3 DEF Mine
<1>12. KindOK(t)'
  BY <1>3 DEF KindOK
<1>13. LocalsOK(t)'
  BY <1>1, <1>3, <1>9, <1>11, Its DEF LocalsOK, EarlyPCs
<1>14. ThreadsOK'
  <2>1. \A u \in Threads \ {t} : Mine(t)' \cap Mine(u) = {}
    BY <1>11 DEF IInv0, ThreadsOK
  <2>2. \A u \in Threads \ {t} : kind'[t] = "first" => kind[u] # "first"
    BY <1>3 DEF IInv0, ThreadsOK
  <2>3. QED
    BY <1>3, <1>9, <1>12, <1>13, <2>1, <2>2, ThreadsKeep DEF IInv0
<1>15. EntryIsCounted'
  BY <1>2, <1>3, CountKeep DEF IInv0
<1>16. RoomLeft'
  BY <1>2, <1>3, <1>4, RoomKeep DEF IInv0, storage, EarlyPCs
<1>17. Seen' = Seen \cup Mine(t)
  <2>1. Victims' = Victims
    BY <1>2 DEF locals, Victims
  <2>2. QED
    BY <1>2, <1>6, <2>1 DEF Seen
<1>18. PlaceOK(t)'
  BY <1>1, <1>3, <1>11, <1>17 DEF PlaceOK, Placed
<1>19. \A u \in Threads \ {t} : victim[u] # None => victim[u] \notin Inst'
  <2>1. \A u \in Threads : victim[u] \in Seen
    BY DEF Seen, Victims
  <2>2. \A u \in Threads : victim[u] # None => victim[u] \notin Inst
    BY Its DEF PlaceOK
  <2>3. QED
    BY <1>1, <1>6, <2>1, <2>2 DEF Fresh
<1>20. (Inst \ upset)' \subseteq archives
  BY <1>1, <1>2, <1>6 DEF IInv0, ArchivesOK
<1>21. PlacesOK' /\ ArchivesOK'
  <2>1. upset' = upset /\ upset \subseteq upset' /\ upset' \subseteq upset \cup Mine(t) /\ UNCHANGED storage
    BY <1>2
  <2>2. QED
    BY <1>3, <1>6, <1>17, <1>18, <1>19, <1>20, <2>1, SeenGrows
<1>22. QED
  BY <1>3, <1>4, <1>9, <1>10, <1>14, <1>15, <1>16, <1>21 DEF IInv0

LEMMA InstalledEventKeeps ==
    ASSUME IInv0, NEW t \in Threads, InstalledEvent(t)
    PROVE  IInv0'
<1>1. pc[t] = "event" /\ Placed(t) /\ victim[t] = None
  BY Its DEF InstalledEvent, At, PlaceOK, LocalsOK
<1>2. UNCHANGED <<storage, bundles, ref, leaks, waitFlag, uninstalled, removals>>
  BY DEF InstalledEvent, entry
<1>3. CASE Done(t) /\ UNCHANGED <<upset, throws>>
  <2>1. CountsType' /\ leaks <= throws' /\ leaks' <= throws'
    BY <1>2, <1>3, CountsSame DEF IInv0
  <2>2. CASE kind[t] = "fast"
    <3>1. Leave(t)
      BY <1>3, <2>2, DoneFrame DEF IInv0
    <3>2. QED
      BY <1>1, <1>2, <1>3, <2>1, <2>2, <3>1, FastCount, ReturnStep
  <2>3. CASE kind[t] # "fast"
    <3>1. PICK l \in {"notify", "decrement"} : l = (IF kind[t] = "first" THEN "notify" ELSE "decrement")
      OBVIOUS
    <3>2. LocalsType' /\ OthersKeep(t) /\ pc'[t] = l /\ UNCHANGED locals
      BY <1>3, <2>3, <3>1, DoneFrame DEF IInv0
    <3>3. UNCHANGED <<kind, from, have, mine, built, victim>>
      BY <3>2 DEF locals
    <3>4. KindOK(t)'
      BY <2>3, <3>1, <3>2, <3>3 DEF KindOK
    <3>5. LocalsOK(t)'
      BY <1>1, <1>2, <1>3, <3>1, <3>2, <3>3, Its, SamePlace DEF LocalsOK, EarlyPCs
    <3>6. PlaceOK(t)'
      BY <1>1, <1>2, <1>3, <3>1, <3>2, <3>3, SamePlace DEF PlaceOK
    <3>7. QED
      BY <1>2, <1>3, <2>1, <3>1, <3>2, <3>3, <3>4, <3>5, <3>6, QuietStep DEF EarlyPCs
  <2>4. QED
    BY <2>2, <2>3
<1>4. CASE Throw /\ Goto(t, "purge") /\ upset' = upset \cup ToSet(mine[t]) /\ UNCHANGED locals
  <2>1. /\ LocalsType' /\ OthersKeep(t)
        /\ pc'[t] = "purge" /\ kind'[t] = kind[t] /\ from'[t] = from[t] /\ have'[t] = have[t]
        /\ mine'[t] = mine[t] /\ built'[t] = built[t] /\ victim'[t] = victim[t]
    <3>1. "purge" \in PCs
      BY DEF PCs, InstallPCs
    <3>2. QED
      BY <1>4, <3>1, GotoFrame DEF IInv0
  <2>2. CountsType' /\ leaks' <= throws'
    BY <1>2, <1>4, CountsThrow DEF IInv0
  <2>3. Known' = Known /\ StorageType' /\ BundlesType' /\ Inst' = Inst
    BY <1>2 DEF storage, Known, Inst, IInv0, StorageType, BundlesType
  <2>4. Mine(t)' = Mine(t) /\ upset' = upset \cup Mine(t)
    BY <1>4, <2>1 DEF Mine
  <2>5. KindOK(t)'
    BY <2>1 DEF KindOK
  <2>6. LocalsOK(t)'
    BY <1>1, <2>1, <2>3, <2>4, Its DEF LocalsOK, EarlyPCs
  <2>7. ThreadsOK'
    <3>1. \A u \in Threads \ {t} : Mine(t)' \cap Mine(u) = {}
      BY <2>4 DEF IInv0, ThreadsOK
    <3>2. \A u \in Threads \ {t} : kind'[t] = "first" => kind[u] # "first"
      BY <2>1 DEF IInv0, ThreadsOK
    <3>3. QED
      BY <2>1, <2>3, <2>5, <2>6, <3>1, <3>2, ThreadsKeep DEF IInv0
  <2>8. EntryIsCounted'
    BY <1>2, <2>1, CountKeep DEF IInv0
  <2>9. RoomLeft'
    BY <1>2, <2>1, <2>2, RoomKeep DEF IInv0, storage, EarlyPCs
  <2>10. Seen' = Seen \cup Mine(t)
    <3>1. Victims' = Victims
      BY <1>4 DEF locals, Victims
    <3>2. QED
      BY <2>3, <2>4, <3>1 DEF Seen
  <2>11. PlaceOK(t)'
    BY <1>1, <2>1, <2>4 DEF PlaceOK
  <2>12. \A u \in Threads \ {t} : victim[u] # None => victim[u] \notin Inst'
    BY <2>3, Its DEF PlaceOK
  <2>13. (Inst \ upset)' \subseteq archives
    BY <2>3, <2>4 DEF IInv0, ArchivesOK
  <2>14. PlacesOK' /\ ArchivesOK'
    <3>1. UNCHANGED storage
      BY <1>2
    <3>2. QED
      BY <2>1, <2>3, <2>4, <2>10, <2>11, <2>12, <2>13, <3>1, SeenGrows
  <2>15. QED
    BY <2>1, <2>2, <2>3, <2>7, <2>8, <2>9, <2>14 DEF IInv0
<1>5. QED
  BY <1>3, <1>4 DEF InstalledEvent

LEMMA PurgeKeeps ==
    ASSUME IInv0, NEW t \in Threads, Purge(t)
    PROVE  IInv0'
<1>1. pc[t] = "purge" /\ (Fresh(t) \/ Mine(t) \subseteq upset) /\ victim[t] = None
  BY Its DEF Purge, At, PlaceOK, LocalsOK
<1>2. UNCHANGED <<nextFreeId, name, bundles, upset, ref, leaks, waitFlag, uninstalled, throws, removals>>
  BY DEF Purge, entry, histVars
<1>3. archives' = archives \ Mine(t) /\ Done(t)
  BY DEF Purge, Mine
<1>4. LocalsType' /\ OthersKeep(t)
  BY <1>3, DoneFrame DEF IInv0
<1>5. CountsType' /\ leaks <= throws' /\ leaks' <= throws'
  BY <1>2, CountsSame DEF IInv0
<1>6. Known' = Known /\ StorageType' /\ BundlesType' /\ Inst' = Inst
  BY <1>2, <1>3 DEF Known, Inst, IInv0, StorageType, BundlesType
<1>7. /\ KindOK(t)' /\ LocalsOK(t)' /\ Mine(t)' \subseteq Mine(t) /\ victim'[t] = None
      /\ (kind'[t] \in {"first", "waiter"} <=> kind[t] \in {"first", "waiter"})
      /\ kind'[t] = "first" => kind[t] = "first"
      /\ pc'[t] \in {"idle", "notify", "decrement"}
  <2>1. CASE kind[t] = "fast"
    <3>1. Leave(t)
      BY <1>3, <2>1, DoneFrame DEF IInv0
    <3>2. /\ pc'[t] = "idle" /\ kind'[t] = "fast" /\ from'[t] = None /\ have'[t] = {}
          /\ mine'[t] = <<>> /\ built'[t] = 0 /\ victim'[t] = None
      BY <3>1, LeaveFrame DEF IInv0
    <3>3. QED
      BY <1>4, <2>1, <3>2, OutsideOK
  <2>2. CASE kind[t] # "fast"
    <3>1. PICK l \in {"notify", "decrement"} : l = (IF kind[t] = "first" THEN "notify" ELSE "decrement")
      OBVIOUS
    <3>2. pc'[t] = l /\ UNCHANGED locals
      BY <1>3, <2>2, <3>1, DoneFrame DEF IInv0
    <3>3. UNCHANGED <<kind, from, have, mine, built, victim>>
      BY <3>2 DEF locals
    <3>4. Mine(t)' = Mine(t)
      BY <3>3 DEF Mine
    <3>5. KindOK(t)'
      BY <2>2, <3>1, <3>2, <3>3 DEF KindOK
    <3>6. LocalsOK(t)'
      BY <1>1, <1>6, <3>1, <3>2, <3>3, <3>4, Its DEF LocalsOK, EarlyPCs
    <3>7. QED
      BY <1>1, <3>1, <3>2, <3>3, <3>4, <3>5, <3>6
  <2>3. QED
    BY <2>1, <2>2
<1>8. ThreadsOK'
  <2>1. \A u \in Threads \ {t} : Mine(t)' \cap Mine(u) = {}
    BY <1>7 DEF IInv0, ThreadsOK
  <2>2. \A u \in Threads \ {t} : kind'[t] = "first" => kind[u] # "first"
    BY <1>7 DEF IInv0, ThreadsOK
  <2>3. QED
    BY <1>4, <1>6, <1>7, <2>1, <2>2, ThreadsKeep DEF IInv0
<1>9. EntryIsCounted'
  BY <1>2, <1>4, <1>7, CountKeep DEF IInv0
<1>10. RoomLeft'
  BY <1>2, <1>4, <1>5, <1>7, RoomKeep DEF IInv0, EarlyPCs
<1>11. Seen' = Seen
  BY <1>1, <1>2, <1>4, <1>7, QuietSeen DEF IInv0
<1>12. ASSUME NEW u \in Threads \ {t} PROVE PlaceOK(u)' /\ Mine(u)' = Mine(u)
  <2>1. Mine(u)' = Mine(u)
    BY <1>4 DEF OthersKeep, Mine
  <2>2. Mine(u) \cap Mine(t) = {}
    BY DEF IInv0, ThreadsOK
  <2>3. PlaceOK(u)'
    BY <1>2, <1>3, <1>4, <1>6, <1>11, <2>1, <2>2, Its DEF OthersKeep, PlaceOK, Fresh, Placed
  <2>4. QED
    BY <2>1, <2>3
<1>13. PlaceOK(t)'
  <2>1. Placed(t)'
    BY <1>3, <1>7 DEF Placed
  <2>2. QED
    BY <1>7, <2>1 DEF PlaceOK
<1>14. PlacesOK'
  BY <1>2, <1>6, <1>12, <1>13 DEF IInv0, PlacesOK
<1>15. ArchivesOK'
  <2>1. (Inst \ upset)' \subseteq archives'
    BY <1>1, <1>2, <1>3, <1>6 DEF IInv0, ArchivesOK, Fresh, Seen
  <2>2. ASSUME NEW i \in archives' PROVE i \in Seen' \/ \E u \in Threads : i \in Mine(u)'
    BY <1>3, <1>11, <1>12 DEF IInv0, ArchivesOK
  <2>3. QED
    BY <2>1, <2>2 DEF ArchivesOK
<1>16. QED
  BY <1>4, <1>5, <1>6, <1>8, <1>9, <1>10, <1>14, <1>15 DEF IInv0

\* Consecutive ids.
Consecutive(n, k) == [i \in 1 .. k |-> n + i - 1]

LEMMA ConsecutiveIds ==
    ASSUME NEW n \in Nat, NEW k \in Nat, n .. n + k - 1 \subseteq Ids
    PROVE  /\ Consecutive(n, k) \in Seq(Ids) /\ Len(Consecutive(n, k)) = k
           /\ ToSet(Consecutive(n, k)) = n .. n + k - 1 /\ IsInjective(Consecutive(n, k))
<1> DEFINE s == Consecutive(n, k)
<1>1. \A i \in 1 .. k : n + i - 1 \in n .. n + k - 1
  OBVIOUS
<1>2. s \in [1 .. k -> Ids]
  BY <1>1 DEF Consecutive
<1>3. s \in Seq(Ids) /\ Len(s) = k
  BY <1>2
<1>4. ASSUME NEW j \in n .. n + k - 1 PROVE \E i \in 1 .. k : n + i - 1 = j
  <2>1. j - n + 1 \in 1 .. k /\ n + (j - n + 1) - 1 = j
    OBVIOUS
  <2>2. QED
    BY <2>1
<1>5. ToSet(s) = n .. n + k - 1
  BY <1>1, <1>4 DEF ToSet, Consecutive
<1>6. IsInjective(s)
  BY DEF IsInjective, Consecutive
<1>7. QED
  BY <1>3, <1>5, <1>6

\* What the storage gives a thread.
LEMMA NewArchives ==
    ASSUME IInv0, NEW t \in Threads, CreateArchives(t)
    PROVE  \E ms \in Seq(Names \ have[t]), new \in Seq(Ids) :
             /\ ms = SetToSeq(Names \ have[t])
             /\ IsFiniteSet(Names \ have[t]) /\ IsInjective(ms) /\ Len(ms) \in Nat
             /\ new = [i \in 1 .. Len(ms) |-> nextFreeId + i - 1]
             /\ nextFreeId' = nextFreeId + Len(ms) /\ nextFreeId' \in 1 .. MaxArchives + 1
             /\ Len(ms) <= Cardinality(Names) /\ Len(new) = Len(ms)
             /\ ToSet(new) = nextFreeId .. nextFreeId + Len(ms) - 1
             /\ IsInjective(new)
             /\ mine' = [mine EXCEPT ![t] = new] /\ archives' = archives \cup ToSet(new)
             /\ name' = [i \in Ids |-> IF i \in ToSet(new) THEN ms[i - nextFreeId + 1] ELSE name[i]]
             /\ nextFreeId' + Cardinality(Names) * Cardinality(Early \ {t}) <= MaxArchives + 1
<1> DEFINE M == Names \ have[t]
           N == Cardinality(Names)
<1>1. IsFiniteSet(M) /\ Cardinality(M) <= N /\ N \in Nat /\ Cardinality(M) \in Nat
  BY InstallAssumption, FS_Subset, FS_CardinalityType
<1>2. PICK ms \in Seq(M) : ms = SetToSeq(M) /\ Len(ms) = Cardinality(M) /\ IsInjective(ms)
  BY <1>1, SetToSeqProps
<1>3. DOMAIN ms = 1 .. Len(ms)
  OBVIOUS
<1>4. PICK new : new = [i \in 1 .. Len(ms) |-> nextFreeId + i - 1]
  OBVIOUS
<1>5. /\ nextFreeId' = nextFreeId + Len(ms) /\ mine' = [mine EXCEPT ![t] = new]
      /\ archives' = archives \cup ToSet(new)
      /\ name' = [i \in Ids |-> IF i \in ToSet(new) THEN ms[i - nextFreeId + 1] ELSE name[i]]
  BY <1>2, <1>3, <1>4 DEF CreateArchives
<1>6. nextFreeId' + N * Cardinality(Early \ {t}) <= MaxArchives + 1 /\ N * Cardinality(Early \ {t}) \in Nat
  <2>1. t \in Early
    BY DEF CreateArchives, At, Early, EarlyPCs
  <2>2. IsFiniteSet(Early) /\ Cardinality(Early) \in Nat /\ Cardinality(Early \ {t}) \in Nat
    BY EarlyFinite DEF Early
  <2>3. Cardinality(Early) = Cardinality(Early \ {t}) + 1
    <3>1. Cardinality(Early \ {t}) = Cardinality(Early) - 1
      BY <2>1, <2>2, FS_RemoveElement, Zenon
    <3>2. QED
      BY <2>2, <3>1
  <2>4. N * Cardinality(Early) = N * Cardinality(Early \ {t}) + N /\ N * Cardinality(Early \ {t}) \in Nat
    BY <1>1, <2>2, <2>3, TimesNext
  <2>5. nextFreeId + N * Cardinality(Early) <= MaxArchives + 1
    BY DEF IInv0, RoomLeft
  <2>6. nextFreeId \in Nat /\ Len(ms) <= N /\ Len(ms) \in Nat /\ MaxArchives \in Nat
    BY <1>1, <1>2, InstallAssumption DEF IInv0, StorageType
  <2> HIDE DEF N
  <2>7. QED
    BY <1>1, <1>5, <2>4, <2>5, <2>6
<1>7. nextFreeId' \in 1 .. MaxArchives + 1 /\ nextFreeId \in Nat /\ nextFreeId >= 1 /\ Len(ms) \in Nat
  <2>1. nextFreeId \in Nat /\ Len(ms) \in Nat /\ nextFreeId >= 1 /\ MaxArchives \in Nat
    BY InstallAssumption DEF IInv0, StorageType
  <2> HIDE DEF N
  <2>2. QED
    BY <1>5, <1>6, <2>1
<1>8. nextFreeId .. nextFreeId + Len(ms) - 1 \subseteq Ids
  BY <1>5, <1>7, InstallAssumption DEF Ids
<1>9. new \in Seq(Ids) /\ Len(new) = Len(ms) /\ ToSet(new) = nextFreeId .. nextFreeId + Len(ms) - 1 /\ IsInjective(new)
  <2>1. PICK n \in Nat, k \in Nat : n = nextFreeId /\ k = Len(ms)
    BY <1>7
  <2>2. new = Consecutive(n, k) /\ n .. n + k - 1 \subseteq Ids
    BY <1>4, <1>8, <2>1 DEF Consecutive
  <2>3. new \in Seq(Ids) /\ Len(new) = k /\ ToSet(new) = n .. n + k - 1 /\ IsInjective(new)
    BY <2>2, ConsecutiveIds, Zenon
  <2>4. QED
    BY <2>1, <2>3
<1>10. QED
  BY <1>1, <1>2, <1>4, <1>5, <1>6, <1>7, <1>9

LEMMA CreateArchivesKeeps ==
    ASSUME IInv0, NEW t \in Threads, CreateArchives(t)
    PROVE  IInv0'
<1>1. pc[t] = "archives" /\ built[t] = 0 /\ victim[t] = None
  BY Its DEF CreateArchives, At, LocalsOK, EarlyPCs
<1>2. PICK ms \in Seq(Names \ have[t]), new \in Seq(Ids) :
         /\ Len(ms) \in Nat /\ Len(new) = Len(ms) /\ IsInjective(new)
         /\ nextFreeId' = nextFreeId + Len(ms) /\ nextFreeId' \in 1 .. MaxArchives + 1
         /\ Len(ms) <= Cardinality(Names)
         /\ ToSet(new) = nextFreeId .. nextFreeId + Len(ms) - 1
         /\ mine' = [mine EXCEPT ![t] = new] /\ archives' = archives \cup ToSet(new)
         /\ name' = [i \in Ids |-> IF i \in ToSet(new) THEN ms[i - nextFreeId + 1] ELSE name[i]]
         /\ nextFreeId' + Cardinality(Names) * Cardinality(Early \ {t}) <= MaxArchives + 1
  BY NewArchives
<1>3. /\ UNCHANGED <<bundles, upset, ref, leaks, waitFlag, uninstalled, throws, removals>>
      /\ UNCHANGED <<kind, from, have, built, victim>> /\ pc' = [pc EXCEPT ![t] = "construct"]
  BY DEF CreateArchives, entry, histVars, Goto
<1>4. /\ LocalsType' /\ OthersKeep(t) /\ pc'[t] = "construct" /\ mine'[t] = new
  <2>1. "construct" \in PCs
    BY DEF PCs, InstallPCs
  <2>2. mine' \in [Threads -> Seq(Ids)]
    BY <1>2 DEF IInv0, LocalsType
  <2>3. LocalsType'
    BY <1>3, <2>1, <2>2 DEF LocalsType, IInv0
  <2>4. QED
    BY <1>2, <1>3, <2>3 DEF LocalsType, OthersKeep, IInv0
<1>5. CountsType' /\ leaks' <= throws'
  BY <1>3, CountsSame DEF IInv0
<1>6. nextFreeId \in Nat /\ nextFreeId >= 1
  BY DEF IInv0, StorageType
<1>7. /\ Known \subseteq Known' /\ ToSet(new) \subseteq Known' /\ ToSet(new) \cap Known = {}
      /\ None \notin ToSet(new)
  BY <1>2, <1>6 DEF Known, None
<1>8. name' \in [Ids -> Names]
  <2>1. ASSUME NEW i \in ToSet(new) PROVE ms[i - nextFreeId + 1] \in Names
    <3>1. i - nextFreeId + 1 \in 1 .. Len(ms)
      BY <1>2, <1>6
    <3>2. QED
      BY <3>1
  <2>2. \A i \in Ids : name[i] \in Names
    BY DEF IInv0, StorageType
  <2>3. QED
    BY <1>2, <2>1, <2>2
<1>9. StorageType' /\ BundlesType' /\ Inst' = Inst
  <2>1. Inst' = Inst
    BY <1>3 DEF Inst
  <2>2. QED
    BY <1>2, <1>3, <1>7, <1>8, <2>1 DEF IInv0, StorageType, BundlesType
<1>10. Mine(t)' = ToSet(new)
  BY <1>4 DEF Mine
<1>11. KindOK(t)'
  BY <1>4 DEF KindOK
<1>12. LocalsOK(t)'
  BY <1>1, <1>2, <1>3, <1>4, <1>7, <1>10, Its DEF LocalsOK, EarlyPCs
<1>13. \A u \in Threads : Mine(u) \subseteq Known
  BY Its DEF LocalsOK
<1>14. ThreadsOK'
  <2>1. \A u \in Threads \ {t} : Mine(t)' \cap Mine(u) = {}
    BY <1>7, <1>10, <1>13
  <2>2. \A u \in Threads \ {t} : kind'[t] = "first" => kind[u] # "first"
    BY <1>3 DEF IInv0, ThreadsOK
  <2>3. QED
    BY <1>4, <1>7, <1>11, <1>12, <2>1, <2>2, ThreadsKeep DEF IInv0
<1>15. EntryIsCounted'
  BY <1>3, <1>4, CountKeep DEF IInv0
<1>16. RoomLeft'
  <2>1. Early' = Early \ {t}
    BY <1>4 DEF OthersKeep, Early, EarlyPCs
  <2>2. QED
    BY <1>2, <1>5, <2>1 DEF RoomLeft
<1>17. Seen' = Seen
  BY <1>3, <1>4, QuietSeen DEF IInv0
<1>18. Seen \subseteq Known \cup {None}
  <2>1. \A u \in Threads : victim[u] \in Known \cup {None}
    BY Its DEF PlaceOK
  <2>2. QED
    BY <2>1 DEF Seen, Victims, IInv0, BundlesType, PlacesOK
<1>19. ASSUME NEW u \in Threads \ {t} PROVE PlaceOK(u)' /\ Mine(u)' = Mine(u)
  <2>1. Mine(u)' = Mine(u)
    BY <1>4 DEF OthersKeep, Mine
  <2>2. Mine(u)' \cap archives' = Mine(u) \cap archives
    BY <1>2, <1>7, <1>13, <2>1
  <2>3. PlaceOK(u)'
    BY <1>2, <1>3, <1>4, <1>7, <1>9, <1>17, <2>1, <2>2, Its DEF OthersKeep, PlaceOK, Fresh, Placed
  <2>4. QED
    BY <2>1, <2>3
<1>20. PlaceOK(t)'
  <2>1. Fresh(t)'
    BY <1>7, <1>10, <1>17, <1>18 DEF Fresh
  <2>2. QED
    BY <1>1, <1>2, <1>3, <1>4, <1>10, <2>1 DEF PlaceOK
<1>21. PlacesOK'
  BY <1>3, <1>7, <1>19, <1>20 DEF IInv0, PlacesOK
<1>22. ArchivesOK'
  <2>1. (Inst \ upset)' \subseteq archives'
    BY <1>2, <1>3, <1>9 DEF IInv0, ArchivesOK
  <2>2. Mine(t) = {}
    BY <1>1, Its DEF LocalsOK, EarlyPCs, Mine, ToSet
  <2>3. ASSUME NEW i \in archives' PROVE i \in Seen' \/ \E u \in Threads : i \in Mine(u)'
    BY <1>2, <1>10, <1>17, <1>19, <2>2 DEF IInv0, ArchivesOK
  <2>4. QED
    BY <2>1, <2>3 DEF ArchivesOK
<1>23. QED
  BY <1>4, <1>5, <1>9, <1>14, <1>15, <1>16, <1>21, <1>22 DEF IInv0

LEMMA UninstallKeeps ==
    ASSUME IInv0, NEW t \in Threads, NEW b \in Ids, Uninstall(t, b)
    PROVE  IInv0'
<1>1. /\ pc[t] = "idle" /\ kind[t] = "fast" /\ mine[t] = <<>> /\ built[t] = 0 /\ victim[t] = None
      /\ have[t] = {}
  BY Its DEF Uninstall, At, KindOK, LocalsOK
<1>2. /\ UNCHANGED <<storage, upset, ref, leaks, waitFlag, uninstalled, throws>>
      /\ UNCHANGED <<kind, from, have, mine, built>>
      /\ pc' = [pc EXCEPT ![t] = "unresolved"] /\ victim' = [victim EXCEPT ![t] = b]
      /\ removals < MaxRemovals /\ removals' = removals + 1 /\ bundles' = RemoveFirst(bundles, b)
  BY DEF Uninstall, Goto, entry
<1>3. /\ LocalsType' /\ OthersKeep(t) /\ pc'[t] = "unresolved" /\ victim'[t] = b
  <2>1. "unresolved" \in PCs
    BY DEF PCs
  <2>2. LocalsType'
    BY <1>2, <2>1 DEF LocalsType, IInv0
  <2>3. QED
    BY <1>2, <2>2 DEF LocalsType, OthersKeep, IInv0
<1>4. CountsType' /\ leaks' <= throws'
  BY <1>2, InstallAssumption DEF IInv0, CountsType, RoomLeft
<1>5. Known' = Known /\ archives' = archives /\ nextFreeId' = nextFreeId /\ StorageType'
  BY <1>2 DEF storage, Known, IInv0, StorageType
<1>6. bundles' \in Seq(Ids) /\ Inst' = Inst \ {b} /\ IsInjective(bundles')
  BY <1>2, RemoveFirstProps DEF IInv0, BundlesType, Inst
<1>7. BundlesType'
  BY <1>5, <1>6 DEF IInv0, BundlesType
<1>8. b \in Inst \cup upset
  BY DEF Uninstall, Contains, Inst, ToSet
<1>9. b # None /\ b \in Known
  BY <1>8 DEF Ids, None, IInv0, BundlesType, PlacesOK
<1>10. Mine(t)' = {} /\ Mine(t) = {}
  BY <1>1, <1>2 DEF Mine, ToSet
<1>11. KindOK(t)'
  BY <1>1, <1>2, <1>3 DEF KindOK
<1>12. LocalsOK(t)'
  BY <1>1, <1>2, <1>3, <1>5, <1>9, <1>10, Its DEF LocalsOK, EarlyPCs
<1>13. ThreadsOK'
  <2>1. \A u \in Threads \ {t} : kind'[t] = "first" => kind[u] # "first"
    BY <1>1, <1>2
  <2>2. QED
    BY <1>3, <1>5, <1>10, <1>11, <1>12, <2>1, ThreadsKeep DEF IInv0
<1>14. EntryIsCounted'
  BY <1>2, <1>3, CountKeep DEF IInv0
<1>15. RoomLeft'
  BY <1>3, <1>4, <1>5, RoomKeep DEF IInv0, EarlyPCs
<1>16. Victims' \subseteq Victims \cup {b} /\ Victims \subseteq Victims' \cup {None} /\ b \in Victims'
  BY <1>1, <1>3 DEF Victims, OthersKeep
<1>17. ASSUME NEW i \in Known PROVE i \in Seen' <=> i \in Seen
  <2>1. i # None
    BY DEF Known, None
  <2>2. upset' = upset
    BY <1>2
  <2>3. QED
    BY <1>6, <1>8, <1>16, <2>1, <2>2 DEF Seen
<1>18. ASSUME NEW u \in Threads \ {t} PROVE PlaceOK(u)' /\ Mine(u)' = Mine(u)
  <2>1. Mine(u)' = Mine(u)
    BY <1>3 DEF OthersKeep, Mine
  <2>2. Mine(u) \subseteq Known
    BY Its DEF LocalsOK
  <2>3. (Fresh(u)' <=> Fresh(u)) /\ (Placed(u)' <=> Placed(u))
    BY <1>5, <1>17, <2>1, <2>2 DEF Fresh, Placed
  <2>4. PlaceOK(u)'
    BY <1>2, <1>3, <1>5, <1>6, <2>1, <2>3, Its DEF OthersKeep, PlaceOK
  <2>5. QED
    BY <2>1, <2>4
<1>19. PlaceOK(t)'
  BY <1>3, <1>5, <1>6, <1>9 DEF PlaceOK
<1>20. PlacesOK'
  BY <1>2, <1>5, <1>18, <1>19 DEF IInv0, PlacesOK
<1>21. ArchivesOK'
  <2>1. (Inst \ upset)' \subseteq archives'
    BY <1>2, <1>5, <1>6 DEF IInv0, ArchivesOK
  <2>2. ASSUME NEW i \in archives' PROVE i \in Seen' \/ \E u \in Threads : i \in Mine(u)'
    BY <1>5, <1>10, <1>17, <1>18 DEF IInv0, ArchivesOK, StorageType
  <2>3. QED
    BY <2>1, <2>2 DEF ArchivesOK
<1>22. QED
  BY <1>3, <1>4, <1>5, <1>7, <1>13, <1>14, <1>15, <1>20, <1>21 DEF IInv0

LEMMA UnresolvedKeeps ==
    ASSUME IInv0, NEW t \in Threads, Unresolved(t)
    PROVE  IInv0'
<1>1. pc[t] = "unresolved" /\ kind[t] = "fast" /\ mine[t] = <<>> /\ victim[t] # None
  BY Its DEF Unresolved, At, KindOK, LocalsOK
<1>2. PICK b \in Ids : b = victim[t]
  BY <1>1, Its
<1>3. b \in Known \ Inst /\ b \in Seen
  BY <1>1, <1>2, Its DEF PlaceOK, Seen, Victims
<1>4. UNCHANGED <<nextFreeId, name, bundles, ref, leaks, waitFlag, removals>> /\ Leave(t)
  BY DEF Unresolved, entry
<1>5. /\ archives' \subseteq archives /\ archives \ {b} \subseteq archives'
      /\ upset \subseteq upset' /\ upset' \subseteq upset \cup {b}
      /\ b \in archives' => b \in upset'
  BY <1>2 DEF Unresolved
<1>6. /\ LocalsType' /\ OthersKeep(t)
      /\ pc'[t] = "idle" /\ kind'[t] = "fast" /\ from'[t] = None /\ have'[t] = {}
      /\ mine'[t] = <<>> /\ built'[t] = 0 /\ victim'[t] = None
  BY <1>4, LeaveFrame DEF IInv0
<1>7. CountsType' /\ leaks' <= throws'
  <2>1. uninstalled' \subseteq Ids
    BY <1>2 DEF Unresolved, IInv0, CountsType
  <2>2. UNCHANGED throws \/ Throw
    BY DEF Unresolved
  <2>3. throws' \in 0 .. MaxThrows /\ leaks' <= throws'
    BY <1>4, <2>2, InstallAssumption DEF IInv0, CountsType, RoomLeft, Throw
  <2>4. QED
    BY <1>4, <2>1, <2>3 DEF IInv0, CountsType
<1>8. Known' = Known /\ StorageType' /\ BundlesType' /\ Inst' = Inst
  BY <1>4, <1>5 DEF Known, Inst, IInv0, StorageType, BundlesType
<1>9. KindOK(t)' /\ LocalsOK(t)' /\ PlaceOK(t)' /\ Mine(t)' = {}
  BY <1>6, OutsideOK
<1>10. Mine(t) = {}
  BY <1>1 DEF Mine, ToSet
<1>11. ThreadsOK'
  BY <1>6, <1>8, <1>9, ThreadsKeep DEF IInv0
<1>12. EntryIsCounted'
  BY <1>1, <1>4, FastCount
<1>13. RoomLeft'
  BY <1>4, <1>6, <1>7, RoomKeep DEF IInv0, EarlyPCs
<1>14. Victims' \subseteq Victims \cup {None} /\ Victims \subseteq Victims' \cup {b}
  BY <1>2, <1>6 DEF Victims, OthersKeep
<1>15. ASSUME NEW i \in Known PROVE (i \in Seen' => i \in Seen) /\ (i \in Seen => i \in Seen' \/ i = b)
  <2>1. i # None
    BY DEF Known, None
  <2>2. QED
    BY <1>3, <1>5, <1>8, <1>14, <2>1 DEF Seen
<1>16. b \in archives' => b \in Seen'
  BY <1>5 DEF Seen
<1>17. ASSUME NEW u \in Threads \ {t} PROVE PlaceOK(u)' /\ Mine(u)' = Mine(u)
  <2>1. Mine(u)' = Mine(u)
    BY <1>6 DEF OthersKeep, Mine
  <2>2. Mine(u) \subseteq Known
    BY Its DEF LocalsOK
  <2>3. Fresh(u) => Fresh(u)' /\ b \notin Mine(u)
    BY <1>3, <1>15, <2>1, <2>2 DEF Fresh
  <2>4. Placed(u) => Placed(u)'
    BY <1>5, <1>15, <1>16, <2>1, <2>2 DEF Placed
  <2>5. PlaceOK(u)'
    BY <1>5, <1>6, <1>8, <2>1, <2>3, <2>4, Its DEF OthersKeep, PlaceOK
  <2>6. QED
    BY <2>1, <2>5
<1>18. PlacesOK'
  BY <1>3, <1>5, <1>8, <1>9, <1>17 DEF IInv0, PlacesOK
<1>19. ArchivesOK'
  <2>1. (Inst \ upset)' \subseteq archives'
    BY <1>3, <1>5, <1>8 DEF IInv0, ArchivesOK
  <2>2. ASSUME NEW i \in archives' PROVE i \in Seen' \/ \E u \in Threads : i \in Mine(u)'
    BY <1>5, <1>10, <1>15, <1>16, <1>17 DEF IInv0, ArchivesOK, StorageType
  <2>3. QED
    BY <2>1, <2>2 DEF ArchivesOK
<1>20. QED
  BY <1>6, <1>7, <1>8, <1>11, <1>12, <1>13, <1>18, <1>19 DEF IInv0

-----------------------------------------------------------------------------
(* What holds whatever fails is inductive. *)

LEMMA InitIInv0 == Init => IInv0
<1> SUFFICES ASSUME Init PROVE IInv0
  OBVIOUS
<1>1. /\ IsInjective(<<>>) /\ Len(<<>>) = 0 /\ ToSet(<<>>) = {} /\ <<>> \in Seq(Ids)
      /\ Cardinality(Names) \in Nat /\ 0 \in 0 .. Cardinality(Names)
  BY InstallAssumption, FS_CardinalityType DEF ToSet, IsInjective
<1>2. Inst = {} /\ \A t \in Threads : Mine(t) = {}
  BY <1>1 DEF Init, Inst, Mine
<1>3. Known = {}
  BY DEF Init, Known
<1>4. StorageType
  <2>1. (CHOOSE n \in Names : TRUE) \in Names
    BY InstallAssumption
  <2>2. 1 \in 1 .. MaxArchives + 1
    BY InstallAssumption
  <2>3. QED
    BY <2>1, <2>2 DEF Init, StorageType
<1>5. BundlesType
  BY <1>1, <1>2 DEF Init, BundlesType
<1>6. LocalsType
  <2>1. mine \in [Threads -> Seq(Ids)]
    BY <1>1 DEF Init
  <2>2. built \in [Threads -> 0 .. Cardinality(Names)]
    BY <1>1 DEF Init
  <2>3. have \in [Threads -> SUBSET Names]
    BY DEF Init
  <2>4. pc \in [Threads -> PCs] /\ kind \in [Threads -> Kinds]
    BY DEF Init, PCs, Kinds
  <2>5. from \in [Threads -> Ids \cup {None}] /\ victim \in [Threads -> Ids \cup {None}]
    BY DEF Init
  <2>6. QED
    BY <2>1, <2>2, <2>3, <2>4, <2>5 DEF LocalsType
<1>7. CountsType
  <2>1. ref = 0 /\ leaks = 0 /\ throws = 0 /\ removals = 0 /\ uninstalled = {}
    BY DEF Init
  <2>2. waitFlag = FALSE
    BY DEF Init
  <2>3. 0 \in 0 .. MaxThrows /\ 0 \in 0 .. MaxRemovals
    BY InstallAssumption
  <2>4. QED
    BY <2>1, <2>2, <2>3 DEF CountsType
<1>8. RoomLeft
  <2>1. Early = {}
    BY DEF Init, Early, EarlyPCs
  <2>2. Cardinality(Early) = 0
    BY <2>1, FS_EmptySet
  <2>3. Cardinality(Names) * 0 = 0
    BY <1>1
  <2>4. QED
    BY <2>2, <2>3, InstallAssumption DEF Init, RoomLeft
<1>9. ThreadsOK
  <2>1. ASSUME NEW t \in Threads PROVE KindOK(t) /\ LocalsOK(t)
    <3>1. /\ pc[t] = "idle" /\ kind[t] = "fast" /\ have[t] = {} /\ mine[t] = <<>> /\ built[t] = 0
          /\ victim[t] = None
      BY DEF Init
    <3>2. KindOK(t)
      BY <3>1 DEF KindOK
    <3>3. LocalsOK(t)
      BY <1>1, <1>2, <3>1 DEF LocalsOK
    <3>4. QED
      BY <3>2, <3>3
  <2>2. QED
    BY <1>2, <2>1 DEF Init, ThreadsOK
<1>10. EntryIsCounted
  <2>1. {t \in Threads : kind[t] \in {"first", "waiter"}} = {}
    BY DEF Init
  <2>2. ref = 0 /\ leaks = 0
    BY DEF Init
  <2>3. Cardinality({t \in Threads : kind[t] \in {"first", "waiter"}}) = 0
    BY <2>1, FS_EmptySet
  <2>4. QED
    BY <2>2, <2>3 DEF EntryIsCounted
<1>11. PlacesOK
  BY <1>2 DEF Init, PlacesOK, PlaceOK
<1>12. ArchivesOK
  BY <1>2 DEF Init, ArchivesOK
<1>13. QED
  BY <1>4, <1>5, <1>6, <1>7, <1>8, <1>9, <1>10, <1>11, <1>12 DEF IInv0

LEMMA NextIInv0 == IInv0 /\ [Next]_vars => IInv0'
<1> SUFFICES ASSUME IInv0, [Next]_vars PROVE IInv0'
  OBVIOUS
<1>1. ASSUME NEW t \in Threads, Step(t) PROVE IInv0'
  BY <1>1, WaitDoneKeeps, RequeryKeeps, AlreadyInstalledKeeps, WaiterContainerKeeps,
     FirstContainerKeeps, CreateArchivesKeeps, ConstructKeeps, InsertKeeps, InstalledEventKeeps,
     PurgeKeeps, NotifyKeeps, DecrementKeeps, UnresolvedKeeps DEF Step
<1>2. CASE UNCHANGED vars
  <2>1. UNCHANGED <<nextFreeId, archives, name, bundles, ref, waitFlag, pc, kind, from, have, mine,
                    built, victim, uninstalled, leaks, upset, throws, removals>>
    BY <1>2 DEF vars, storage, entry, locals, histVars
  <2>2. Known' = Known /\ Inst' = Inst /\ Victims' = Victims /\ Seen' = Seen /\ Early' = Early
    BY <2>1 DEF Known, Inst, Victims, Seen, Early
  <2>3. \A t \in Threads : Mine(t)' = Mine(t)
    BY <2>1 DEF Mine
  <2>4. StorageType' /\ BundlesType' /\ LocalsType' /\ CountsType'
    BY <2>1, <2>2 DEF IInv0, StorageType, BundlesType, LocalsType, CountsType
  <2>5. RoomLeft' /\ EntryIsCounted'
    BY <2>1, <2>2 DEF IInv0, RoomLeft, EntryIsCounted
  <2>6. ThreadsOK'
    BY <2>1, <2>2, <2>3 DEF IInv0, ThreadsOK, KindOK, LocalsOK
  <2>7. PlacesOK' /\ ArchivesOK'
    BY <2>1, <2>2, <2>3 DEF IInv0, PlacesOK, PlaceOK, ArchivesOK, Fresh, Placed
  <2>8. QED
    BY <2>4, <2>5, <2>6, <2>7 DEF IInv0
<1>3. QED
  BY <1>1, <1>2, InstallCallKeeps, UninstallKeeps DEF Next, Ended

\* The counts of the storage, the places of the bundles and the positions of the installing
\* threads agree in every state that Install and Uninstall reach.
THEOREM AlwaysIInv0 == Spec => []IInv0
BY InitIInv0, NextIInv0, PTL DEF Spec

\* The values of the registry, the storage and the installing threads stay in range, however
\* many threads, names and archives there are.
THEOREM TypeCorrect == Spec => []TypeOK
<1>1. IInv0 => TypeOK
  <2> SUFFICES ASSUME IInv0 PROVE TypeOK
    OBVIOUS
  <2>1. upset \subseteq Ids
    BY InstallAssumption DEF IInv0, PlacesOK, Known, StorageType, Ids
  <2>2. /\ nextFreeId \in 1 .. MaxArchives + 1
        /\ archives \subseteq 1 .. nextFreeId - 1
        /\ name \in [Ids -> Names]
    BY DEF IInv0, StorageType, Known
  <2>3. /\ bundles \in Seq(Ids) /\ ToSet(bundles) \subseteq 1 .. nextFreeId - 1
        /\ IsInjective(bundles)
    BY DEF IInv0, BundlesType, Known, Inst
  <2>4. QED
    BY <2>1, <2>2, <2>3 DEF IInv0, LocalsType, CountsType, TypeOK
<1>2. QED
  BY <1>1, AlwaysIInv0, PTL

\* initialBundleInstallMap: the count of a location's entry is the number of the threads that
\* still use it and of the references that waiters lost when the container could not be opened.
THEOREM EntryAlwaysCounted == Spec => []EntryIsCounted
<1>1. IInv0 => EntryIsCounted
  BY DEF IInv0
<1>2. QED
  BY <1>1, AlwaysIInv0, PTL

\* BundleRegistry and BundleStorage: whoever installs, uninstalls or fails, an installed bundle
\* has its archive, and the storage keeps no archive without an owner.
THEOREM ArchivesAlwaysOfBundles == Spec => []ArchivesOfBundles
<1>1. IInv0 => ArchivesOfBundles
  <2> SUFFICES ASSUME IInv0 PROVE ArchivesOfBundles
    OBVIOUS
  <2>1. ToSet(bundles) \ upset \subseteq archives
    BY DEF IInv0, ArchivesOK, Inst
  <2>2. ASSUME NEW i \in archives \ (ToSet(bundles) \cup upset)
        PROVE  \E t \in Threads : i \in ToSet(mine[t]) \cup {victim[t]}
    BY DEF IInv0, ArchivesOK, Inst, Seen, Victims, Mine
  <2>3. archives \ (ToSet(bundles) \cup upset)
           \subseteq UNION {ToSet(mine[t]) \cup {victim[t]} : t \in Threads}
    BY <2>2
  <2>4. QED
    BY <2>1, <2>3 DEF ArchivesOfBundles
<1>2. QED
  BY <1>1, AlwaysIInv0, PTL

-----------------------------------------------------------------------------
(* A location is installed once, as long as nothing fails and nothing is removed. *)

\* Bundles and entry stay as they are, names may be added.
LEMMA OnceKeep ==
    ASSUME IInv0, Once, NEW t \in Threads, OthersKeep(t), UNCHANGED bundles,
           \A i \in Known : name'[i] = name[i], FlagSet', OnceThread(t)'
    PROVE  Once'
<1>1. bundles \in Seq(Ids) /\ \A i \in DOMAIN bundles : bundles[i] \in Known
  BY DEF IInv0, BundlesType, Inst, ToSet
<1>2. \A i \in DOMAIN bundles : name'[bundles'[i]] = name[bundles[i]]
  BY <1>1
<1>3. Complete'
  BY <1>2 DEF Once, Complete, Installed
<1>4. NamesOnce'
  BY <1>2 DEF Once, NamesOnce
<1>5. ASSUME NEW u \in Threads \ {t} PROVE OnceThread(u)'
  <2>1. OnceThread(u) /\ LocalsOK(u) /\ mine[u] \in Seq(Ids)
    BY Its DEF Once
  <2>2. \A i \in DOMAIN mine[u] : mine[u][i] \in Known
    BY <2>1 DEF LocalsOK, Mine, ToSet
  <2>3. /\ pc'[u] = pc[u] /\ kind'[u] = kind[u] /\ from'[u] = from[u] /\ have'[u] = have[u]
        /\ mine'[u] = mine[u]
    BY DEF OthersKeep
  <2>4. \A i \in DOMAIN mine[u] : name'[mine'[u][i]] = name[mine[u][i]]
    BY <2>2, <2>3
  <2>5. FirstOK(u) => FirstOK(u)'
    BY <2>3, <2>4 DEF FirstOK
  <2>6. OtherOK(u) => OtherOK(u)'
    BY <2>3 DEF OtherOK
  <2>7. QED
    BY <2>1, <2>3, <2>5, <2>6 DEF OnceThread
<1>6. QED
  BY <1>3, <1>4, <1>5 DEF Once

\* The entry stays too.
LEMMA FlagKeep ==
    ASSUME FlagSet, UNCHANGED <<bundles, ref, waitFlag>>
    PROVE  FlagSet'
BY DEF FlagSet

LEMMA InstallCallOnce ==
    ASSUME IInv0, IInv0', Once, NEW t \in Threads, InstallCall(t)
    PROVE  Once'
<1>1. UNCHANGED <<bundles, storage, have, mine>> /\ pc[t] = "idle" /\ kind[t] = "fast"
  BY Its DEF InstallCall, At, KindOK
<1>2. \A i \in Known : name'[i] = name[i]
  BY <1>1 DEF storage
<1>3. OthersKeep(t)
  BY DEF InstallCall, Goto, OthersKeep, IInv0, LocalsType
<1>4. CASE bundles # <<>>
  <2>1. pc'[t] = "already" /\ kind'[t] = "fast" /\ from'[t] = Head(bundles) /\ UNCHANGED entry
    BY <1>1, <1>4 DEF InstallCall, Goto, RangeFirst, IInv0, LocalsType
  <2>2. Head(bundles) \in Ids
    BY <1>4 DEF IInv0, BundlesType
  <2>3. OnceThread(t)'
    BY <1>1, <1>4, <2>1, <2>2 DEF OnceThread, OtherOK, Ids, None
  <2>4. FlagSet'
    BY <1>1, <1>4 DEF FlagSet
  <2>5. QED
    BY <1>1, <1>2, <1>3, <2>3, <2>4, OnceKeep
<1>5. CASE bundles = <<>> /\ ref = 0
  <2>1. pc'[t] = "container" /\ kind'[t] = "first"
    BY <1>5 DEF InstallCall, Goto, IInv0, LocalsType
  <2>2. waitFlag' = TRUE
    BY <1>5 DEF InstallCall
  <2>3. OnceThread(t)'
    BY <1>1, <1>5, <2>1 DEF OnceThread, FirstOK
  <2>4. FlagSet'
    BY <2>2 DEF FlagSet
  <2>5. QED
    BY <1>1, <1>2, <1>3, <2>3, <2>4, OnceKeep
<1>6. CASE bundles = <<>> /\ ref # 0
  <2>1. pc'[t] = "wait" /\ kind'[t] = "waiter"
    BY <1>6 DEF InstallCall, Goto, IInv0, LocalsType
  <2>2. waitFlag' = waitFlag
    BY <1>6 DEF InstallCall
  <2>3. OnceThread(t)'
    BY <1>1, <2>1 DEF OnceThread, OtherOK
  <2>4. FlagSet'
    BY <1>6, <2>2 DEF FlagSet, Once
  <2>5. QED
    BY <1>1, <1>2, <1>3, <2>3, <2>4, OnceKeep
<1>7. QED
  BY <1>4, <1>5, <1>6

LEMMA WaitDoneOnce ==
    ASSUME IInv0, Once, NEW t \in Threads, WaitDone(t)
    PROVE  Once'
<1>1. kind[t] = "waiter"
  BY Its DEF WaitDone, At, KindOK
<1>2. ref # 0
  <2>1. IsFiniteSet(Users) /\ Cardinality(Users) \in Nat /\ t \in Users
    BY <1>1, EarlyFinite DEF Users
  <2>2. Cardinality(Users) # 0
    BY <2>1, FS_EmptySet
  <2>3. ref = leaks + Cardinality(Users) /\ leaks \in Nat
    BY DEF IInv0, EntryIsCounted, Users, CountsType
  <2>4. QED
    BY <2>1, <2>2, <2>3
<1>3. bundles # <<>>
  BY <1>2 DEF WaitDone, Once, FlagSet
<1>4. UNCHANGED <<bundles, storage, locals, ref, waitFlag>> /\ Goto(t, "requery")
  BY DEF WaitDone, entry
<1>5. OthersKeep(t) /\ pc'[t] = "requery" /\ kind'[t] = kind[t]
  <2>1. "requery" \in PCs
    BY DEF PCs, InstallPCs
  <2>2. QED
    BY <1>4, <2>1, GotoFrame DEF IInv0
<1>6. OnceThread(t)'
  BY <1>1, <1>3, <1>4, <1>5 DEF OnceThread, OtherOK
<1>7. FlagSet' /\ \A i \in Known : name'[i] = name[i]
  BY <1>4, FlagKeep DEF Once, storage
<1>8. QED
  BY <1>4, <1>5, <1>6, <1>7, OnceKeep

LEMMA RequeryOnce ==
    ASSUME IInv0, Once, NEW t \in Threads, Requery(t)
    PROVE  Once'
<1>1. kind[t] = "waiter" /\ pc[t] = "requery"
  BY Its DEF Requery, At, KindOK
<1>2. bundles # <<>>
  BY <1>1 DEF Once, OnceThread
<1>3. Head(bundles) \in Ids
  BY <1>2 DEF IInv0, BundlesType
<1>4. UNCHANGED <<bundles, storage, kind, have, mine, ref, waitFlag>>
  BY DEF Requery, entry
<1>5. OthersKeep(t) /\ pc'[t] = "already" /\ from'[t] = Head(bundles)
  BY <1>2 DEF Requery, Goto, OthersKeep, RangeFirst, IInv0, LocalsType
<1>6. OnceThread(t)'
  BY <1>1, <1>2, <1>3, <1>4, <1>5 DEF OnceThread, OtherOK, Ids, None
<1>7. FlagSet' /\ \A i \in Known : name'[i] = name[i]
  BY <1>4, FlagKeep DEF Once, storage
<1>8. QED
  BY <1>4, <1>5, <1>6, <1>7, OnceKeep

LEMMA AlreadyInstalledOnce ==
    ASSUME IInv0, Once, NEW t \in Threads, AlreadyInstalled(t)
    PROVE  Once'
<1>1. kind[t] # "first" /\ pc[t] = "already"
  BY Its DEF AlreadyInstalled, At, KindOK
<1>2. bundles # <<>>
  BY <1>1 DEF Once, OnceThread
<1>3. {name[bundles[i]] : i \in DOMAIN bundles} = Names
  <2>1. \A n \in Names : \E i \in DOMAIN bundles : name[bundles[i]] = n
    BY <1>2 DEF Once, Complete, Installed
  <2>2. \A i \in DOMAIN bundles : name[bundles[i]] \in Names
    BY DEF IInv0, BundlesType, StorageType
  <2>3. QED
    BY <2>1, <2>2
<1>4. UNCHANGED <<bundles, storage, kind, from, mine, ref, waitFlag>>
  BY DEF AlreadyInstalled, entry
<1>5. OthersKeep(t)
  BY DEF AlreadyInstalled, Goto, OthersKeep, IInv0, LocalsType
<1>6. (pc'[t] = "archives" /\ have'[t] = Names) \/ pc'[t] = "fault"
  BY <1>3 DEF AlreadyInstalled, Goto, IInv0, LocalsType
<1>7. OnceThread(t)'
  BY <1>1, <1>2, <1>4, <1>6 DEF OnceThread, OtherOK
<1>8. FlagSet' /\ \A i \in Known : name'[i] = name[i]
  BY <1>4, FlagKeep DEF Once, storage
<1>9. QED
  BY <1>4, <1>5, <1>7, <1>8, OnceKeep

\* A waiter never has to open the container.
LEMMA WaiterContainerOnce ==
    ASSUME IInv0, Once, NEW t \in Threads
    PROVE  ~WaiterContainer(t)
<1> SUFFICES ASSUME WaiterContainer(t) PROVE FALSE
  OBVIOUS
<1>1. kind[t] # "first" /\ pc[t] = "already" /\ from[t] = None
  BY Its DEF WaiterContainer, At, KindOK
<1>2. QED
  BY <1>1 DEF Once, OnceThread, OtherOK

LEMMA FirstContainerOnce ==
    ASSUME IInv0, Once, NEW t \in Threads, FirstContainer(t), ~Throw
    PROVE  Once'
<1>1. kind[t] = "first" /\ pc[t] = "container"
  BY Its DEF FirstContainer, At, KindOK
<1>2. bundles = <<>>
  BY <1>1 DEF Once, OnceThread, FirstOK
<1>3. UNCHANGED <<bundles, storage, locals, ref, waitFlag>> /\ Goto(t, "archives")
  BY DEF FirstContainer, entry
<1>4. OthersKeep(t) /\ pc'[t] = "archives" /\ kind'[t] = kind[t]
  <2>1. "archives" \in PCs
    BY DEF PCs, InstallPCs
  <2>2. QED
    BY <1>3, <2>1, GotoFrame DEF IInv0
<1>5. OnceThread(t)'
  BY <1>1, <1>2, <1>3, <1>4 DEF OnceThread, FirstOK
<1>6. FlagSet' /\ \A i \in Known : name'[i] = name[i]
  BY <1>3, FlagKeep DEF Once, storage
<1>7. QED
  BY <1>3, <1>4, <1>5, <1>6, OnceKeep

LEMMA CreateArchivesOnce ==
    ASSUME IInv0, Once, NEW t \in Threads, CreateArchives(t)
    PROVE  Once'
<1>1. pc[t] = "archives"
  BY DEF CreateArchives, At
<1>2. PICK ms \in Seq(Names \ have[t]), new \in Seq(Ids) :
         /\ ms = SetToSeq(Names \ have[t])
         /\ IsFiniteSet(Names \ have[t]) /\ IsInjective(ms) /\ Len(ms) \in Nat
         /\ new = [i \in 1 .. Len(ms) |-> nextFreeId + i - 1]
         /\ nextFreeId' = nextFreeId + Len(ms) /\ nextFreeId' \in 1 .. MaxArchives + 1
         /\ Len(ms) <= Cardinality(Names) /\ Len(new) = Len(ms)
         /\ ToSet(new) = nextFreeId .. nextFreeId + Len(ms) - 1
         /\ IsInjective(new)
         /\ mine' = [mine EXCEPT ![t] = new] /\ archives' = archives \cup ToSet(new)
         /\ name' = [i \in Ids |-> IF i \in ToSet(new) THEN ms[i - nextFreeId + 1] ELSE name[i]]
         /\ nextFreeId' + Cardinality(Names) * Cardinality(Early \ {t}) <= MaxArchives + 1
  BY NewArchives, Zenon
<1>3. UNCHANGED <<bundles, kind, from, have, built, victim, ref, waitFlag>> /\ pc' = [pc EXCEPT ![t] = "construct"]
  BY DEF CreateArchives, entry, Goto
<1>4. OthersKeep(t) /\ pc'[t] = "construct" /\ mine'[t] = new
  BY <1>2, <1>3 DEF LocalsType, OthersKeep, IInv0
<1>5. nextFreeId \in Nat /\ nextFreeId >= 1 /\ nextFreeId <= MaxArchives + 1
  BY DEF IInv0, StorageType
<1>6. \A i \in Known : name'[i] = name[i]
  <2>1. ASSUME NEW i \in Known PROVE i \in Ids /\ i \notin ToSet(new)
    BY <1>2, <1>5, InstallAssumption DEF Known, Ids
  <2>2. QED
    BY <1>2, <2>1
<1>7. ASSUME kind[t] # "first" PROVE OnceThread(t)'
  <2>1. OtherOK(t)
    BY <1>7 DEF Once, OnceThread
  <2>2. Names \ have[t] = {} /\ bundles # <<>>
    BY <1>1, <2>1 DEF OtherOK
  <2>3. Len(ms) = 0
    BY <1>2, <2>2, SetToSeqProps, FS_EmptySet
  <2>4. new = <<>>
    <3>1. Len(new) = 0
      BY <1>2, <2>3
    <3>2. QED
      BY <3>1
  <2>5. QED
    BY <1>3, <1>4, <1>7, <2>2, <2>4 DEF OnceThread, OtherOK
<1>8. ASSUME kind[t] = "first" PROVE OnceThread(t)'
  <2>1. bundles = <<>> /\ have[t] = {}
    BY <1>1, <1>8, Its DEF Once, OnceThread, FirstOK, LocalsOK
  <2>2. DOMAIN new = 1 .. Len(ms) /\ DOMAIN ms = 1 .. Len(ms)
    BY <1>2
  <2>3. ASSUME NEW i \in 1 .. Len(ms) PROVE name'[new[i]] = ms[i]
    <3>1. new[i] = nextFreeId + i - 1 /\ new[i] \in ToSet(new) /\ new[i] \in Ids
      <4>1. new = [k \in 1 .. Len(ms) |-> nextFreeId + k - 1]
        BY <1>2, Zenon
      <4>2. new[i] = nextFreeId + i - 1
        BY <4>1
      <4>3. new[i] \in ToSet(new)
        BY <2>2 DEF ToSet
      <4>4. QED
        BY <2>2, <4>2, <4>3
    <3>2. name'[new[i]] = ms[new[i] - nextFreeId + 1]
      BY <1>2, <3>1
    <3>3. new[i] - nextFreeId + 1 = i
      BY <1>5, <3>1
    <3>4. QED
      BY <3>2, <3>3
  <2>4. ASSUME NEW n \in Names PROVE \E i \in DOMAIN new : name'[new[i]] = n
    <3>1. n \in Names \ have[t]
      BY <2>1
    <3>2. \E i \in DOMAIN ms : ms[i] = n
      BY <1>2, <3>1, SetToSeqAll
    <3>3. QED
      BY <2>2, <2>3, <3>2
  <2>5. ASSUME NEW i \in DOMAIN new, NEW j \in DOMAIN new, name'[new[i]] = name'[new[j]] PROVE i = j
    <3>1. ms[i] = ms[j]
      BY <2>2, <2>3, <2>5
    <3>2. QED
      BY <1>2, <2>2, <3>1 DEF IsInjective
  <2>6. FirstOK(t)'
    <3>1. pc'[t] = "construct" /\ mine'[t] = new /\ bundles' = <<>>
      BY <1>3, <1>4, <2>1
    <3>2. \A n \in Names : \E i \in DOMAIN mine'[t] : name'[mine'[t][i]] = n
      BY <2>4, <3>1
    <3>3. \A i, j \in DOMAIN mine'[t] : name'[mine'[t][i]] = name'[mine'[t][j]] => i = j
      BY <2>5, <3>1
    <3>4. QED
      BY <3>1, <3>2, <3>3 DEF FirstOK
  <2>7. QED
    BY <1>3, <1>4, <1>8, <2>6 DEF OnceThread
<1>9. FlagSet'
  BY <1>3, FlagKeep DEF Once
<1>10. QED
  BY <1>3, <1>4, <1>6, <1>7, <1>8, <1>9, OnceKeep

LEMMA ConstructOnce ==
    ASSUME IInv0, Once, NEW t \in Threads, Construct(t), ~Throw
    PROVE  Once'
<1>1. pc[t] = "construct" /\ built[t] < Len(mine[t]) /\ built[t] \in Nat
  BY Its DEF Construct, At
<1>2. kind[t] = "first"
  <2>1. ASSUME kind[t] # "first" PROVE FALSE
    <3>1. mine[t] = <<>>
      BY <1>1, <2>1 DEF Once, OnceThread, OtherOK
    <3>2. QED
      BY <1>1, <3>1
  <2>2. QED
    BY <2>1
<1>3. OnceThread(t) /\ bundles = <<>>
  BY <1>1, <1>2 DEF Once, OnceThread, FirstOK
<1>4. \A n : ~Installed(n)
  BY <1>3 DEF Installed
<1>5. UNCHANGED <<pc, kind, from, have, mine, victim, bundles, storage, ref, waitFlag>>
      /\ built' = [built EXCEPT ![t] = @ + 1]
  BY <1>4 DEF Construct, entry
<1>6. OthersKeep(t)
  BY <1>5 DEF OthersKeep, IInv0, LocalsType
<1>7. OnceThread(t)'
  <2>1. name' = name
    BY <1>5 DEF storage
  <2>2. FirstOK(t)'
    BY <1>2, <1>3, <1>5, <2>1 DEF OnceThread, FirstOK
  <2>3. QED
    BY <1>2, <1>3, <1>5, <2>2 DEF OnceThread
<1>8. FlagSet' /\ \A i \in Known : name'[i] = name[i]
  BY <1>5, FlagKeep DEF Once, storage
<1>9. QED
  BY <1>5, <1>6, <1>7, <1>8, OnceKeep

LEMMA InsertOnce ==
    ASSUME IInv0, Once, NEW t \in Threads, Insert(t)
    PROVE  Once'
<1>1. pc[t] = "construct" /\ mine[t] \in Seq(Ids) /\ bundles \in Seq(Ids)
  BY Its DEF Insert, At, IInv0, BundlesType
<1>2. UNCHANGED <<storage, locals, ref, waitFlag>> /\ Goto(t, "event") /\ bundles' = bundles \o mine[t]
  BY DEF Insert, entry
<1>3. /\ OthersKeep(t) /\ pc'[t] = "event" /\ kind'[t] = kind[t]
  <2>1. "event" \in PCs
    BY DEF PCs, InstallPCs
  <2>2. QED
    BY <1>2, <2>1, GotoFrame DEF IInv0
<1>4. CASE kind[t] # "first"
  <2>1. mine[t] = <<>> /\ bundles # <<>>
    BY <1>1, <1>4 DEF Once, OnceThread, OtherOK
  <2>2. bundles' = bundles
    BY <1>1, <1>2, <2>1
  <2>3. OnceThread(t)'
    BY <1>3, <1>4, <2>1, <2>2 DEF OnceThread, OtherOK
  <2>4. FlagSet' /\ \A i \in Known : name'[i] = name[i]
    BY <1>2, <2>2, FlagKeep DEF Once, storage
  <2>5. QED
    BY <1>3, <2>2, <2>3, <2>4, OnceKeep
<1>5. CASE kind[t] = "first"
  <2>1. FirstOK(t)
    BY <1>5 DEF Once, OnceThread
  <2>2. bundles = <<>>
    BY <1>1, <2>1 DEF FirstOK
  <2>3. bundles' = mine[t] /\ name' = name
    BY <1>1, <1>2, <2>2 DEF storage
  <2>4. \A n \in Names : \E i \in DOMAIN mine[t] : name[mine[t][i]] = n
    BY <1>1, <2>1 DEF FirstOK
  <2>5. Complete'
    BY <2>3, <2>4 DEF Complete, Installed
  <2>6. NamesOnce'
    BY <1>1, <2>1, <2>3 DEF NamesOnce, FirstOK
  <2>7. bundles' # <<>>
    <3>1. PICK n \in Names : TRUE
      BY InstallAssumption
    <3>2. \E i \in DOMAIN mine[t] : name[mine[t][i]] = n
      BY <2>4
    <3>3. mine[t] # <<>>
      BY <3>2
    <3>4. QED
      BY <2>3, <3>3
  <2>8. FlagSet'
    BY <2>7 DEF FlagSet
  <2>9. ASSUME NEW u \in Threads \ {t} PROVE OnceThread(u)'
    <3>1. OnceThread(u) /\ kind[u] # "first"
      BY <1>5 DEF Once, IInv0, ThreadsOK
    <3>2. /\ pc'[u] = pc[u] /\ kind'[u] = kind[u] /\ from'[u] = from[u] /\ have'[u] = have[u]
          /\ mine'[u] = mine[u]
      BY <1>3 DEF OthersKeep
    <3>3. QED
      BY <2>7, <3>1, <3>2 DEF OnceThread, OtherOK
  <2>10. OnceThread(t)'
    BY <1>3, <1>5, <2>7 DEF OnceThread, FirstOK
  <2>11. QED
    BY <2>5, <2>6, <2>8, <2>9, <2>10 DEF Once
<1>6. QED
  BY <1>4, <1>5

\* Where a call ends or is about to: pc says nothing about bundles there.
LEMMA RestOnce ==
    ASSUME IInv0, Once, NEW t \in Threads, OthersKeep(t), UNCHANGED <<bundles, name>>,
           pc'[t] \in {"idle", "notify", "decrement"}, pc'[t] # "idle" => bundles # <<>>, FlagSet'
    PROVE  Once'
<1>1. OnceThread(t)'
  BY DEF OnceThread, FirstOK, OtherOK
<1>2. QED
  BY <1>1, OnceKeep

LEMMA InstalledEventOnce ==
    ASSUME IInv0, Once, NEW t \in Threads, InstalledEvent(t), ~Throw
    PROVE  Once'
<1>1. pc[t] = "event" /\ bundles # <<>>
  BY DEF InstalledEvent, At, Once, OnceThread
<1>2. Done(t) /\ UNCHANGED <<storage, bundles, ref, waitFlag>>
  BY DEF InstalledEvent, entry
<1>3. OthersKeep(t) /\ pc'[t] \in {"idle", "notify", "decrement"}
  BY <1>2, DoneFrame, LeaveFrame DEF IInv0
<1>4. FlagSet'
  BY <1>2, FlagKeep DEF Once
<1>5. QED
  BY <1>1, <1>2, <1>3, <1>4, RestOnce DEF storage

LEMMA NotifyOnce ==
    ASSUME IInv0, Once, NEW t \in Threads, Notify(t)
    PROVE  Once'
<1>1. pc[t] = "notify" /\ bundles # <<>>
  BY DEF Notify, At, Once, OnceThread
<1>2. Goto(t, "decrement") /\ UNCHANGED <<storage, bundles, locals>>
  BY DEF Notify
<1>3. OthersKeep(t) /\ pc'[t] = "decrement"
  <2>1. "decrement" \in PCs
    BY DEF PCs, InstallPCs
  <2>2. QED
    BY <1>2, <2>1, GotoFrame DEF IInv0
<1>4. FlagSet'
  BY <1>1, <1>2 DEF FlagSet
<1>5. QED
  BY <1>1, <1>2, <1>3, <1>4, RestOnce DEF storage

LEMMA DecrementOnce ==
    ASSUME IInv0, Once, NEW t \in Threads, Decrement(t)
    PROVE  Once'
<1>1. pc[t] = "decrement" /\ bundles # <<>>
  BY DEF Decrement, At, Once, OnceThread
<1>2. Leave(t) /\ UNCHANGED <<storage, bundles>>
  BY DEF Decrement
<1>3. OthersKeep(t) /\ pc'[t] = "idle"
  BY <1>2, LeaveFrame DEF IInv0
<1>4. FlagSet'
  BY <1>1, <1>2 DEF FlagSet
<1>5. QED
  BY <1>1, <1>2, <1>3, <1>4, RestOnce DEF storage

LEMMA UnresolvedOnce ==
    ASSUME IInv0, Once, NEW t \in Threads, Unresolved(t)
    PROVE  Once'
<1>1. Leave(t) /\ UNCHANGED <<name, bundles, ref, waitFlag>>
  BY DEF Unresolved, entry
<1>2. OthersKeep(t) /\ pc'[t] = "idle"
  BY <1>1, LeaveFrame DEF IInv0
<1>3. FlagSet'
  BY <1>1, FlagKeep DEF Once
<1>4. QED
  BY <1>1, <1>2, <1>3, RestOnce

LEMMA NextOnce ==
    ASSUME IInv0, OnceOK, IInv0', [Next]_vars
    PROVE  OnceOK'
<1> SUFFICES ASSUME throws' = 0, removals' = 0 PROVE Once'
  BY DEF OnceOK
<1>1. throws \in Nat /\ removals \in Nat
  BY DEF IInv0, CountsType
<1>2. ~Throw
  BY <1>1 DEF Throw
<1>3. ASSUME NEW t \in Threads, Step(t) PROVE UNCHANGED <<throws, removals>>
  <2>1. removals' = removals
    BY <1>3 DEF Step, WaitDone, Requery, AlreadyInstalled, WaiterContainer, FirstContainer,
         CreateArchives, Construct, Insert, InstalledEvent, Purge, Notify, Decrement, Unresolved, histVars
  <2>2. throws' = throws
    BY <1>2, <1>3 DEF Step, WaitDone, Requery, AlreadyInstalled, WaiterContainer, FirstContainer,
         CreateArchives, Construct, Insert, InstalledEvent, Purge, Notify, Decrement, Unresolved, histVars
  <2>3. QED
    BY <2>1, <2>2
<1>4. ASSUME NEW t \in Threads, Step(t) PROVE Once'
  <2>1. Once
    BY <1>3, <1>4 DEF OnceOK
  <2>2. ~Purge(t)
    BY <2>1 DEF Once, OnceThread, Purge, At
  <2>3. QED
    BY <1>2, <1>4, <2>1, <2>2, WaitDoneOnce, RequeryOnce, AlreadyInstalledOnce, WaiterContainerOnce,
       FirstContainerOnce, CreateArchivesOnce, ConstructOnce, InsertOnce, InstalledEventOnce,
       NotifyOnce, DecrementOnce, UnresolvedOnce DEF Step
<1>5. ASSUME NEW t \in Threads, InstallCall(t) PROVE Once'
  <2>1. Once
    BY <1>5 DEF InstallCall, histVars, OnceOK
  <2>2. QED
    BY <1>5, <2>1, InstallCallOnce
<1>6. ASSUME NEW t \in Threads, NEW b \in Ids, Uninstall(t, b) PROVE FALSE
  BY <1>1, <1>6 DEF Uninstall
<1>7. CASE UNCHANGED vars
  <2>1. UNCHANGED <<name, bundles, ref, waitFlag, pc, kind, from, have, mine, throws, removals>>
    BY <1>7 DEF vars, storage, entry, locals, histVars
  <2>2. Once
    BY <2>1 DEF OnceOK
  <2>3. Complete' /\ NamesOnce' /\ FlagSet'
    BY <2>1, <2>2 DEF Once, Complete, NamesOnce, FlagSet, Installed
  <2>4. \A t \in Threads : OnceThread(t)'
    BY <2>1, <2>2 DEF Once, OnceThread, FirstOK, OtherOK
  <2>5. QED
    BY <2>3, <2>4 DEF Once
<1>8. QED
  BY <1>4, <1>5, <1>6, <1>7 DEF Next, Ended

LEMMA InitOnce == Init => OnceOK
<1> SUFFICES ASSUME Init PROVE Once
  BY DEF OnceOK
<1>1. bundles = <<>> /\ ref = 0
  BY DEF Init
<1>2. \A t \in Threads : pc[t] = "idle"
  BY DEF Init
<1>3. Complete /\ NamesOnce /\ FlagSet
  BY <1>1 DEF Complete, NamesOnce, FlagSet
<1>4. \A t \in Threads : OnceThread(t)
  BY <1>2 DEF OnceThread, FirstOK, OtherOK
<1>5. QED
  BY <1>3, <1>4 DEF Once

\* BundleRegistry::Install: as long as no install fails and nothing is uninstalled, a name of a
\* location is installed once, however many threads install it at the same time.
THEOREM AlwaysInstalledOnce == Spec => []InstalledOnce
<1>1. Init => IInv
  BY InitIInv0, InitOnce DEF IInv
<1>2. IInv /\ [Next]_vars => IInv'
  BY NextIInv0, NextOnce DEF IInv
<1>3. IInv => InstalledOnce
  BY DEF IInv, OnceOK, Once, NamesOnce, InstalledOnce
<1>4. QED
  BY <1>1, <1>2, <1>3, PTL DEF Spec
=============================================================================
