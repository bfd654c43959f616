--------------------------- MODULE BundleInstall ---------------------------
(***************************************************************************)
(* BundleRegistry: threads that install the bundles of ONE location and    *)
(* uninstall them again.                                                   *)
(*                                                                         *)
(* A location holds several bundles, one for each symbolic name in its     *)
(* resource container. The first thread that finds nothing installed there *)
(* puts an entry into initialBundleInstallMap, and threads that come while *)
(* it installs wait on that entry; "ref" counts the threads that use it.   *)
(* Whoever finds something installed goes ahead without the entry.         *)
(*                                                                         *)
(* A step is what runs under one acquisition of the registry's mutex, of   *)
(* the mutex of "bundles" or of the storage's, or one call of listeners.   *)
(* Archives and bundles of several names are made one after the other;     *)
(* making the archives is one step because no one looks at a part of them. *)
(***************************************************************************)
EXTENDS Integers, FiniteSets, Sequences, SequencesExt

CONSTANTS Threads,
          Names,        \* the top-level directories of the container: symbolic names
          MaxArchives,  \* bound on the archives made: bundle ids are 1 .. MaxArchives
          MaxRemovals,  \* bound on the calls of Uninstall
          MaxThrows     \* bound on the failures: containers, manifests, listeners

ASSUME InstallAssumption ==
    /\ IsFiniteSet(Threads)
    /\ IsFiniteSet(Names) /\ Names # {}
    /\ MaxArchives \in Nat /\ MaxRemovals \in Nat /\ MaxThrows \in Nat

Ids  == 1 .. MaxArchives
None == 0

VARIABLES
    nextFreeId,    \* of the storage
    archives,      \* the ids of the archives it keeps
    name,          \* the symbolic name of an id
    bundles,       \* the installed bundles of the location, in the order of the multimap
    ref,           \* the count of the location's entry of initialBundleInstallMap, 0 without one
    waitFlag,      \* the flag of the entry
    pc,
    kind,          \* how a thread installs: "fast", "first" or "waiter"
    from,          \* the first iterator of equal_range, or None when the range was empty
    have,          \* alreadyInstalled: the names found in the range
    mine,          \* the archives this Install0 made
    built,         \* how many of them have their BundlePrivate
    victim,        \* the bundle a thread uninstalls
    uninstalled,   \* bundles in the state UNINSTALLED
    leaks,         \* history: references that a waiter never gave back
    upset,         \* history: bundles for which a listener threw a SharedLibraryException or a
                   \* SecurityException, which alone get out of BundleChanged
    throws,        \* failures so far
    removals       \* calls of Uninstall so far

entry    == <<ref, waitFlag>>
storage  == <<nextFreeId, archives, name>>
locals   == <<kind, from, have, mine, built, victim>>
histVars == <<leaks, upset, throws, removals>>
vars     == <<storage, bundles, entry, pc, locals, uninstalled, histVars>>

InstallPCs == {"wait", "requery", "already", "container", "archives", "construct",
               "event", "purge", "notify", "decrement"}
PCs        == InstallPCs \cup {"idle", "unresolved", "fault"}
Kinds      == {"fast", "first", "waiter"}

TypeOK ==
    /\ nextFreeId \in 1 .. MaxArchives + 1
    /\ archives \subseteq 1 .. nextFreeId - 1
    /\ name \in [Ids -> Names]
    /\ bundles \in Seq(Ids) /\ ToSet(bundles) \subseteq 1 .. nextFreeId - 1
    /\ IsInjective(bundles)
    /\ ref \in Nat /\ waitFlag \in BOOLEAN
    /\ pc \in [Threads -> PCs] /\ kind \in [Threads -> Kinds]
    /\ from \in [Threads -> Ids \cup {None}] /\ have \in [Threads -> SUBSET Names]
    /\ mine \in [Threads -> Seq(Ids)] /\ built \in [Threads -> 0 .. Cardinality(Names)]
    /\ victim \in [Threads -> Ids \cup {None}]
    /\ uninstalled \subseteq Ids
    /\ leaks \in 0 .. MaxThrows /\ upset \subseteq Ids
    /\ throws \in 0 .. MaxThrows /\ removals \in 0 .. MaxRemovals

Init ==
    /\ nextFreeId = 1 /\ archives = {}
    /\ name = [i \in Ids |-> CHOOSE n \in Names : TRUE]
    /\ bundles = <<>>
    /\ ref = 0 /\ waitFlag = FALSE
    /\ pc = [t \in Threads |-> "idle"] /\ kind = [t \in Threads |-> "fast"]
    /\ from = [t \in Threads |-> None] /\ have = [t \in Threads |-> {}]
    /\ mine = [t \in Threads |-> <<>>] /\ built = [t \in Threads |-> 0]
    /\ victim = [t \in Threads |-> None]
    /\ uninstalled = {}
    /\ leaks = 0 /\ upset = {} /\ throws = 0 /\ removals = 0

Faulted    == \E t \in Threads : pc[t] = "fault"
At(t, l)   == pc[t] = l /\ ~Faulted
Goto(t, l) == pc' = [pc EXCEPT ![t] = l]

Installing(t) == pc[t] \in InstallPCs

\* The call is over, and its local variables.
Leave(t) == /\ Goto(t, "idle")
            /\ kind' = [kind EXCEPT ![t] = "fast"]
            /\ from' = [from EXCEPT ![t] = None]
            /\ have' = [have EXCEPT ![t] = {}]
            /\ mine' = [mine EXCEPT ![t] = <<>>]
            /\ built' = [built EXCEPT ![t] = 0]
            /\ victim' = [victim EXCEPT ![t] = None]

\* A call into code that is not the registry's throws.
Throw == throws < MaxThrows /\ throws' = throws + 1

\* equal_range(location).first
RangeFirst == IF bundles = <<>> THEN None ELSE Head(bundles)

-----------------------------------------------------------------------------
(* Install *)

\* The bound: every install that runs can still make its archives.
Room == nextFreeId + Cardinality(Names) * (1 + Cardinality({t \in Threads : Installing(t)}))
            <= MaxArchives + 1

\* The location is looked up, and the entry made or shared, under the registry's mutex.
InstallCall(t) ==
    /\ At(t, "idle") /\ Room
    /\ \/ /\ bundles # <<>>
          /\ Goto(t, "already")
          /\ from' = [from EXCEPT ![t] = RangeFirst]
          /\ UNCHANGED <<entry, kind>>
       \/ /\ bundles = <<>> /\ ref = 0
          /\ ref' = 1 /\ waitFlag' = TRUE
          /\ Goto(t, "container")
          /\ kind' = [kind EXCEPT ![t] = "first"]
          /\ UNCHANGED from
       \/ /\ bundles = <<>> /\ ref # 0
          /\ ref' = ref + 1
          /\ Goto(t, "wait")
          /\ kind' = [kind EXCEPT ![t] = "waiter"]
          /\ UNCHANGED <<waitFlag, from>>
    /\ UNCHANGED <<storage, bundles, have, mine, built, victim, uninstalled, histVars>>

\* Mutant of WaitDone: a time-out of wait_for is taken for the notification.
WaitDoneEarly(t) ==
    /\ At(t, "wait")
    /\ Goto(t, "requery")
    /\ UNCHANGED <<storage, bundles, entry, locals, uninstalled, histVars>>

\* wait_for with a short timeout, in a loop until the flag is cleared.
WaitDone(t) ==
    /\ At(t, "wait") /\ ~waitFlag
    /\ Goto(t, "requery")
    /\ UNCHANGED <<storage, bundles, entry, locals, uninstalled, histVars>>

Requery(t) ==
    /\ At(t, "requery")
    /\ from' = [from EXCEPT ![t] = RangeFirst]
    /\ Goto(t, "already")
    /\ UNCHANGED <<storage, bundles, entry, kind, have, mine, built, victim, uninstalled, histVars>>

\* GetAlreadyInstalledBundlesAtLocation with iterators that were taken before. The range grows
\* at its end, and stays empty if it was. An iterator to a bundle that was erased meanwhile is
\* dereferenced all the same.
AlreadyInstalled(t) ==
    /\ At(t, "already") /\ from[t] # None
    /\ IF Contains(bundles, from[t])
       THEN /\ have' = [have EXCEPT ![t] = {name[bundles[i]] : i \in DOMAIN bundles}]
            /\ Goto(t, "archives")
       ELSE Goto(t, "fault") /\ UNCHANGED have
    /\ UNCHANGED <<storage, bundles, entry, kind, from, mine, built, victim, uninstalled, histVars>>

\* Nothing is installed: the container is opened, which may throw. The clean-up object of a
\* waiter is made later, and its reference to the entry stays.
WaiterContainer(t) ==
    /\ At(t, "already") /\ from[t] = None
    /\ \/ /\ Goto(t, "archives")
          /\ UNCHANGED <<locals, leaks, throws>>
       \/ /\ Throw
          /\ Leave(t)
          /\ leaks' = leaks + 1
    /\ UNCHANGED <<storage, bundles, entry, uninstalled, upset, removals>>

FirstContainer(t) ==
    /\ At(t, "container")
    /\ \/ Goto(t, "archives") /\ UNCHANGED throws
       \/ Throw /\ Goto(t, "notify")
    /\ UNCHANGED <<storage, bundles, entry, locals, uninstalled, leaks, upset, removals>>

-----------------------------------------------------------------------------
(* Install0 *)

\* An archive for every name that is not excluded.
CreateArchives(t) ==
    LET missing == SetToSeq(Names \ have[t])
        new     == [i \in DOMAIN missing |-> nextFreeId + i - 1]
    IN  /\ At(t, "archives")
        /\ nextFreeId' = nextFreeId + Len(missing)
        /\ archives' = archives \cup ToSet(new)
        /\ name' = [i \in Ids |-> IF i \in ToSet(new) THEN missing[i - nextFreeId + 1] ELSE name[i]]
        /\ mine' = [mine EXCEPT ![t] = new]
        /\ Goto(t, "construct")
        /\ UNCHANGED <<bundles, entry, kind, from, have, built, victim, uninstalled, histVars>>

\* The check at the end of the constructor of BundlePrivate.
Installed(n) == \E i \in DOMAIN bundles : name[bundles[i]] = n

\* One BundlePrivate; it throws for a bad manifest and for a name that is installed.
Construct(t) ==
    LET n == name[mine[t][built[t] + 1]]
    IN  /\ At(t, "construct") /\ built[t] < Len(mine[t])
        /\ \/ /\ ~Installed(n)
              /\ built' = [built EXCEPT ![t] = @ + 1]
              /\ UNCHANGED <<pc, throws>>
           \/ /\ ~Installed(n) /\ Throw
              /\ Goto(t, "purge") /\ UNCHANGED built
           \/ /\ Installed(n)
              /\ Goto(t, "purge") /\ UNCHANGED <<built, throws>>
        /\ UNCHANGED <<storage, bundles, entry, kind, from, have, mine, victim, uninstalled,
                       leaks, upset, removals>>

\* Equal keys are inserted behind each other.
Insert(t) ==
    /\ At(t, "construct") /\ built[t] = Len(mine[t])
    /\ bundles' = bundles \o mine[t]
    /\ Goto(t, "event")
    /\ UNCHANGED <<storage, entry, locals, uninstalled, histVars>>

\* Mutant of AfterInstall0: a waiter that is done forgets its reference.
AfterInstall0Forgets(k) == IF k = "first" THEN "notify" ELSE "return"

\* The destructor of the clean-up object, which only threads that use the entry have.
AfterInstall0(k) == CASE k = "first" -> "notify" [] k = "waiter" -> "decrement" [] k = "fast" -> "return"

Done(t) == IF AfterInstall0(kind[t]) = "return"
           THEN Leave(t)
           ELSE Goto(t, AfterInstall0(kind[t])) /\ UNCHANGED locals

\* BUNDLE_INSTALLED for every new bundle.
InstalledEvent(t) ==
    /\ At(t, "event")
    /\ \/ Done(t) /\ UNCHANGED <<upset, throws>>
       \/ /\ mine[t] # <<>> /\ Throw
          /\ Goto(t, "purge") /\ upset' = upset \cup ToSet(mine[t])
          /\ UNCHANGED locals
    /\ UNCHANGED <<storage, bundles, entry, uninstalled, leaks, removals>>

\* Mutant of Purge: only the archives whose bundle was made are given up.
PurgeBuilt(t) ==
    /\ At(t, "purge")
    /\ archives' = archives \ {mine[t][i] : i \in 1 .. built[t]}
    /\ Done(t)
    /\ UNCHANGED <<nextFreeId, name, bundles, entry, uninstalled, histVars>>

\* The exception is handled by giving up the archives, also those of bundles that are installed.
Purge(t) ==
    /\ At(t, "purge")
    /\ archives' = archives \ ToSet(mine[t])
    /\ Done(t)
    /\ UNCHANGED <<nextFreeId, name, bundles, entry, uninstalled, histVars>>

-----------------------------------------------------------------------------
(* The clean-up object *)

\* Mutant of Notify: the flag is left.
NotifyNobody(t) ==
    /\ At(t, "notify")
    /\ Goto(t, "decrement")
    /\ UNCHANGED <<storage, bundles, entry, locals, uninstalled, histVars>>

Notify(t) ==
    /\ At(t, "notify")
    /\ waitFlag' = FALSE
    /\ Goto(t, "decrement")
    /\ UNCHANGED <<storage, bundles, ref, locals, uninstalled, histVars>>

\* DecrementInitialBundleMapRef: the entry is erased with its last reference.
Decrement(t) ==
    /\ At(t, "decrement")
    /\ ref' = ref - 1
    /\ waitFlag' = (waitFlag /\ ref' # 0)
    /\ Leave(t)
    /\ UNCHANGED <<storage, bundles, uninstalled, histVars>>

-----------------------------------------------------------------------------
(* BundlePrivate::Uninstall of a bundle that is not running *)

\* A bundle that was inserted is known from then on, and its mutex is held to the end. An
\* uninstall that failed may be tried again.
Uninstall(t, b) ==
    /\ At(t, "idle") /\ removals < MaxRemovals
    /\ b < nextFreeId /\ b \notin uninstalled
    /\ Contains(bundles, b) \/ b \in upset
    /\ \A u \in Threads : victim[u] # b
    /\ bundles' = RemoveFirst(bundles, b)
    /\ removals' = removals + 1
    /\ victim' = [victim EXCEPT ![t] = b]
    /\ Goto(t, "unresolved")
    /\ UNCHANGED <<storage, entry, kind, from, have, mine, built, uninstalled, leaks, upset, throws>>

\* BUNDLE_UNRESOLVED; then the archive is given up, unless a listener threw.
Unresolved(t) ==
    LET b == victim[t]
    IN  /\ At(t, "unresolved")
        /\ \/ /\ archives' = archives \ {b}
              /\ uninstalled' = uninstalled \cup {b}
              /\ UNCHANGED <<upset, throws>>
           \/ /\ Throw
              /\ upset' = upset \cup {b}
              /\ UNCHANGED <<archives, uninstalled>>
        /\ Leave(t)
        /\ UNCHANGED <<nextFreeId, name, bundles, entry, leaks, removals>>

-----------------------------------------------------------------------------
\* The process ended, or the bound on archives is reached.
Ended == (Faulted \/ \A t \in Threads : pc[t] = "idle") /\ UNCHANGED vars

Step(t) ==
    \/ WaitDone(t) \/ Requery(t) \/ AlreadyInstalled(t) \/ WaiterContainer(t) \/ FirstContainer(t)
    \/ CreateArchives(t) \/ Construct(t) \/ Insert(t) \/ InstalledEvent(t) \/ Purge(t)
    \/ Notify(t) \/ Decrement(t)
    \/ Unresolved(t)

Next ==
    \/ \E t \in Threads : Step(t) \/ InstallCall(t) \/ \E b \in Ids : Uninstall(t, b)
    \/ Ended

\* A thread that is inside Install or Uninstall goes on: listeners return.
Spec == Init /\ [][Next]_vars /\ \A t \in Threads : WF_vars(Step(t))
-----------------------------------------------------------------------------
(* Properties *)

\* The count of the entry is the number of threads that still use it, and of the references
\* that were lost when the container could not be opened. So the entry a thread waits on is
\* never erased under it, no thread decrements the (unsigned) count of an entry that is gone,
\* and without a loss the entry is erased with the last install.
EntryIsCounted ==
    ref = leaks + Cardinality({t \in Threads : kind[t] \in {"first", "waiter"}})

\* A name is installed once, however many threads install the location at the same time: those
\* that come first wait for the one that installs. It needs that no install failed and nothing
\* was uninstalled: after that several threads install the missing names at once.
InstalledOnce ==
    throws = 0 /\ removals = 0 => \A i, j \in DOMAIN bundles : name[bundles[i]] = name[bundles[j]] => i = j

\* An installed bundle has its archive in the storage, and the storage keeps no archive of
\* an install that failed or of a bundle that is gone, unless a listener threw an exception
\* that stops the installation or the removal in its middle.
ArchivesOfBundles ==
    /\ ToSet(bundles) \ upset \subseteq archives
    /\ archives \ (ToSet(bundles) \cup upset)
         \subseteq UNION {ToSet(mine[t]) \cup {victim[t]} : t \in Threads}

\* A thread that waits for another one's installation returns from Install, also when that
\* installation fails. (A crash ends everything.)
WaiterReturns == \A t \in Threads : pc[t] = "wait" ~> pc[t] = "idle" \/ Faulted

(* What the documentation says and the code does not keep; refuted by TLC. *)

\* If a bundle of the location is already installed, InstallBundles returns it (BundleContext.h),
\* and does not install it a second time.
NeverInstalledTwice ==
    \A i, j \in DOMAIN bundles : name[bundles[i]] = name[bundles[j]] => i = j
=============================================================================
