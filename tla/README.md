# CppMicroServices: models, checks and proofs

CppMicroServices is an OSGi-like framework in C++. Bundles (shared libraries with a manifest) are
installed, started and stopped; while they run they register services, look them up, use them and
listen to events. All of this may happen on any thread, and user code (activators, listeners,
service factories, hooks) runs inside the framework's calls, usually without its mutexes.

On top of it, in `src/compendium`, Declarative Services and the Configuration Admin run components
and configurations with threads of their own. The modules here model the framework's core and these
two, where that concurrency is.
`X.tla` is a component, `MCX.tla` with its `.cfg` files gives it small constants for TLC, and
`XProofs.tla` has theorems about it that TLAPS checks for every value of the constants.
`PROJECT.json` maps every definition to the lines it models and lists runs, mutants, hazards,
findings and theorems.

## Inventory

| Component | State | Operations | What is hard | What makes it correct |
|---|---|---|---|---|
| Use of a service (`ServiceReferenceBasePrivate`, `ServiceRegistrationBasePrivate`, `ServiceObjects`, `BundleContext::GetService`) | `dependents` (use counts), `bundleServiceInstance`, `prototypeServiceInstances`, `available`, `unregistering`, thread-local recursion marks | get and unget in three scopes, holders that unget in their destructor, `Unregister`, a stopping user | the factory runs between two critical sections and may call back; unregister and stop race with both | a held object is the cached one, counted, not given back; nothing is given back twice or forgotten |
| Service registry (`ServiceRegistry`, `ServiceRegistrationBase`) | `serviceRegistrations`, `classServices` in order of ranking, properties of each service | `RegisterService`, `SetProperties`, `Unregister`, lookups, `Clear` | rankings and lists have different mutexes; a search or a sort reads rankings that change | lists complete, ordered, free of services that are gone; one UNREGISTERING event |
| Framework life cycle (`FrameworkPrivate`) | `state`, `stopEvent`, `shutdownThread`, the core context | `Init`, `Start`, `Stop`, `WaitForStop`, the shutdown thread | a join with the mutex held, one event shared by all waiters, `Start` in two parts | waits end and tell the truth, shutdowns end, stops are carried out |
| Bundle installation (`BundleRegistry`, `BundleStorageMemory`) | `bundles`, `initialBundleInstallMap` with its counts and flags, archives | `Install`, `Install0`, `Remove`, archives made and purged | waiting for the first install, failures in the middle, several bundles at a location | counts exact, waiters return, one bundle for a name, archives match bundles |
| Bundle life cycle (`BundlePrivate`) | `state`, `operation`, context, activator | `Start`, `Stop`, `Uninstall` | activators and listeners run with the bundle's mutex held and call back | no resources left behind; every START has its STOP |
| Listeners, events, hooks (`ServiceListeners`, `*Hooks`) | listener sets and caches | add, remove, deliver, hooks that filter | listeners removed while an event is delivered | a matching listener hears each event once |
| Trackers (`ServiceTracker`) | `initial`, `adding`, `tracked`, cached reference and service | `Open`, `Close`, events, `WaitForService` | events during the initial scan and during customizer calls | every tracked item is added once and removed once |
| Declarative services (`compendium/DeclarativeServices`) | state objects exchanged by compare-and-swap, latches, futures | enable, disable, satisfy, activate, deactivate, rebind | lock-free transitions, activation during deactivation | no instance survives a deactivation |
| Configuration admin (`compendium/ConfigurationAdmin`) | configurations with change counts, queued notifications | update, remove, notify | notifications are queued and may run late or out of order | the last notification shows the last update |
| Filters, versions, values | none | parse, compare, match | sequential | agree with their definitions |
| Resources, libraries, log, http, console, shell, tools | files and sockets | I/O | | |

All but the last two rows have modules (filters, as far as the listeners and lookups use them);
`PROJECT.json` says for each component what is left out and why. The hazards there carry, line by line, what is hard to test.

Components interact by calls. The registry calls listeners, which may call back; a use of a service
calls factories; a stop of a bundle unregisters its services and drops its uses; the shutdown of the
framework stops all bundles and clears the registry. Each module has the calls of its neighbours as
steps of its own: `CustomizerContract` is what `ServiceTracker` gives its customizers and what
`ReferenceManager`, a customizer, takes from it; `ComponentConfiguration` details what
`ReferenceManager` and `ComponentRuntime` treat as one step of a configuration; `StopUser` of `ServiceUse` is what `RemoveBundleResources` does to one service,
`UnregisterStart` of `ServiceRegistry` includes the call for a bundle that stops, `Shutdown0Bundles`
of `Framework` stands for stopping all bundles, and so on.

## Modules

A step of a model is what one thread does under one acquisition of a mutex, one access of an atomic
flag, or one call of user code. Where the code writes without the mutex that readers take, the value
read is a choice. A null pointer that is dereferenced, or an iterator that is used after its element
was erased, takes the thread to `"fault"`, after which nothing happens; a property about what comes
after a crash would mean nothing.

### ServiceUse

One service of any scope, the bundles that use it, and threads. User code may call back, so a thread
is a stack of frames: `Frames` is a set of pairs of a thread and a depth, and a frame may begin a
call when every busy frame of its thread is below it and is in user code (`MayCall`). A frame in
`"holding"` has the `shared_ptr` its get returned.

| Model | Code |
|---|---|
| `GetStart`, `GetUnavailable`, `GetReady`, `GetRecursive`, `GetEnterFactory`, `FactoryGetReturns`, `FactoryGetThrows`, `GetStore` | `GetServiceInterfaceMap`, with `GetServiceFromFactory` between its two critical sections |
| `Return` | what `BundleContext::GetService` and `ServiceObjects` make of the result: a `ServiceHolder` always, an `UngetHelper` for an object only |
| `Unget`, `DropUse`, `UngetCall` | `UngetService` |
| `StopUser` | `RemoveBundleResources`, the part for services the bundle uses |
| `Proto...` | `GetPrototypeService`, `UngetPrototypeService` |
| `Unregister...` | `ServiceRegistrationBase::Unregister` |
| `Crash` | null pointers the code dereferences |

What an exception of the factory does is modelled by its effect: most become a null result, two
kinds leave the call.

### ServiceRegistry

Threads that register services of several classes, change their ranking and unregister them. The
registry's mutex is `owner`; while it is held, `seen` collects every ranking each service had, and
a binary search (`LowerBound`, the algorithm of `std::lower_bound`) works on one choice among them. A sort
under which a ranking changed leaves any order. The order is `ServiceReferenceBase::operator<`: by
ranking, then the higher id is less.

### Framework

Clients call `Init`, `Start`, `Stop`, and some of them `WaitForStop`, on a framework whose shutdown
runs on a thread of its own. `holder` is the waiter that keeps the mutex while it joins that thread.
`core` is what became of the core context: `DoInit` sets STARTING before it initialises the core, and
when that throws (`"partial"` instead of `"ready"`) the framework stays in STARTING, and the next
`Start` goes on with the core as it is.

### BundleInstall

Threads install the bundles of one location, one for each symbolic name its container has, and
uninstall them. The entry of `initialBundleInstallMap` is `ref` and `waitFlag`; `kind` says how a
thread installs: as the first, as one that waited, or past the entry because something is installed
already. Containers, manifests and listeners may throw (`Throw`, at most `MaxThrows` times). Only a
`SharedLibraryException` or a `SecurityException` of a listener leaves `BundleChanged`; the bundles
concerned are collected in `upset`.

### BundleLifecycle

Threads start, stop and uninstall bundles; activators and bundle listeners, called in the middle,
throw or make such calls themselves (a thread is a stack of calls, at most `MaxDepth`). The calls
hold the mutex of their bundle throughout. It is not recursive: a call back for the same bundle
never returns, and neither does its caller. Other threads register services through the context
meanwhile (`CheckValid` and the registration are two steps); what is registered after the bundle's
resources were removed is counted apart (`late`), since nothing unregisters it. The validation
function of a bundle has three ends: `Validated`, `ValidationRefuses`, and `ValidationThrows`, which
leaves the start past the line that sets the operation back (`rejected`). `escaped` marks bundles for
which an exception of a listener left a call half way.

### LDAPExpr and ServiceListeners

`LDAPExpr` has filters as trees, with their meaning (`Evaluate`) and the two shortcuts: the index
for simple filters (`IsSimple`) and the classes a filter names (`GetMatchedObjectClasses`).
`ServiceListeners` has the listeners, their index, the delivery of an event in three critical
sections (copy, filter by hooks, match) and then outside any, and the listener hook that is told of
listeners. Services are registered, modified and unregistered by other threads.

### CustomizerContract and ServiceTracker

`CustomizerContract` is the abstract specification: an object that `AddingService` returned is
tracked or withdrawn, a service has one tracked object at most, and a withdrawn object is reported to
`RemovedService` exactly once. `ServiceTracker` has a generation (`TrackedService`) for each `Open`, its
initial, adding and tracked items, the counter latch of `Close`, the caches, `WaitForService`, and
services that come, change, stop matching and go on other threads, with customizers that throw or
return nothing. An exception of `AddingService` leaves an `Open`, one of `RemovedService` an `Open` or a
`Close` (`CustomizerRemovedThrows`): the references that come after are not looked at any more. In an
event the framework catches it. `KeepsContract` is the refinement: `life` of an object is computed from where the
object is (`LifeOf`), its `key` is the generation and service it was made for.

### ComponentConfiguration

The state machine of one configuration of singleton scope. State objects are numbered, `state` is
the atomic pointer; a transition exchanges it, waits for the future or the latch of the object it
replaced, does its work and fulfils its own future. Clients get the service (which activates the
component), references are satisfied, lost and rebound, properties modified, the component disabled;
registering and activating may fail (`MaxFailures`).

### ReferenceManager

One reference with any of the four policies and four cardinalities (chosen in `Init`). The tracker's
callbacks run on several threads; a step is one access to the matched or to the bound services, so
"look at what is bound", "clear" and "bind again" interleave as in the code. The configuration is
told by notifications, and has an instance with the services it was given. Other threads may
unregister a service while a callback has it in hand (`Unregister`, `gone`): from then on its references are
invalid and less than all others, whatever they were when they were put into the sets. In such a set a
search or an erase by key may miss what is there (`Finds`, `Erased`, `First`), the policies return at once
for such a reference, and it cannot be bound (`There`).

### ComponentRuntime

`SCRActivator` and its extensions, the component registry, the managers whose state is exchanged and
whose tasks create and delete configurations on the two threads of the work service, clients that
enable and disable a component, and a bundle that starts and stops. Loading a component fails with
a library or a security exception (`MaxFailures`).

### ConfigurationAdmin

One PID: clients get, update and remove its configuration, a bundle brings its own and takes it away
by change count and address, services come and go, and queued tasks, run by workers in any order,
read the configuration and tell the services; in the end the admin is destroyed while clients still
have configurations. Configuration listeners may throw, which ends the task; what a service throws from
`Updated` the code catches, so that it changes nothing. A configuration that was removed and that
nobody has any more is freed (`Freed`), and the next one may be made at its address: `ext`, which keeps
an address and nothing alive, is then about the new one (`reused`).

## Runs

| Run | Result | States | Question |
|---|---|---|---|
| `service_use` | pass | 1.1 million | Do counts, caches and holders agree, and is every object given back once? |
| `service_registry` | pass | 794 thousand | Are the lists complete, and ordered when no sort is pending or was skipped? |
| `framework` | pass | 14 thousand | Do waits tell the truth and end, do shutdowns end, with one waiter? |
| `bundle_install` | pass | 431 thousand | Are the shared entries counted, do waiters return, do archives match? |
| `bundle_lifecycle` | pass | 152 thousand | Do state, context, activator and services of a bundle agree between calls, whatever user code throws? Is the mutex always released? |
| `service_listeners` | pass | 720 thousand | Does a listener learn of every start and end of a match, the hook of every listener, and does a lookup find what matches? |
| `service_tracker` | pass | 2.3 million | Is no service lost or kept, does `Close` wait for customizers, is the contract kept? |
| `wait_missed` | refuted | | Does `WaitForService` return when the tracker is closed? |
| `component_configuration` | pass | 530 thousand | Do activations and deactivations exclude each other, does everything settle, do calls end? |
| `component_runtime` | pass | 245 thousand | Does an active bundle have its components, leaves a stopped one nothing, do calls end? |
| `reference_manager` | pass | 3.6 million | Are the right services bound, and does the component know? |
| `configuration_admin` | pass | 6.7 million | Is the last thing a service is told the last update? Does nothing outlive the admin? |

The refuted property states what a header says; the finding in `PROJECT.json` quotes it.

Further definitions state what the documentation says and the code does not keep; TLC refutes each
when it is put into a configuration of its module as INVARIANT or PROPERTY. They are listed with their
findings: `UnregisterFindsService`, `CountsUnbalancedGets` and `FactoryNotConcurrent` (`ServiceUse`),
`QuietMeansBestFirst` (`ServiceRegistry`), `StopIsCarriedOut`, `ActiveIsReady` and, with two waiters,
`JoinsFinishedThread` (`Framework`), `NeverInstalledTwice` (`BundleInstall`), `FoundIffMatches` with the filters
`WithTwo` and `LookupFindsMatching` with the expressions `WithBoth` (`MCServiceListeners`),
`StoppedLeavesNoService` (`BundleLifecycle`), `ClosedTracksNothing` (`ServiceTracker`), `GoneIsUnbound`
(`ReferenceManager`), `RecreatedIsTold` and the action property `UninstallKeepsRecreated` (`ConfigurationAdmin`). Every module also has a `TypeOK` for such runs.

### What the properties except

A property that holds names, in history variables, what it makes an exception of. These are the
races the code loses and the exceptions of user code it does not recover from. Those that contradict
what the documentation says are findings; the others are behaviour nobody promised, which the property
has to step around (`torn`, `blurred`, `mixed` and the tracker's `raced`, for instance):

* `HolderKeepsService` excepts bundles for which a holder was made around null,
  `BestFirstWhenSettled` classes whose sort was skipped, `InstalledOnce` installs after a failure or
  an uninstall, `EntryIsCounted` counts the references that waiters lose (`leaks`), and
  `UpMeansInitialised` excepts a shutdown that began during a `Start`; it counts a core whose
  initialisation threw as initialised, which `ActiveIsReady` does not.
* `BundleLifecycle`: `escaped`, an exception of a listener (a `SharedLibraryException` or
  `SecurityException`, which are not caught) left a call half way; `rejected`, the operation stays
  ACTIVATING in a RESOLVED bundle after its validation function threw; `late`, services registered
  after the resources of their bundle were removed, which `StoppedLeavesNoService` counts (refuted)
  and `StoppedOwnsNothing` does not.
* `ServiceListeners`: `mixed`, events of one service on two threads, which may arrive in either
  order; `hidden`, an event a hook removed; `blurred`, listeners that came or went while the hook
  was becoming tracked, or with their bundle.
* `ServiceTracker`: `raced`, two changes of a service at a time; `during`, a change during an `Open`, or
  an initial reference that an `Open` did not get to because a customizer threw; `left`, a service that
  a `Close` did not get to for the same reason (`ClosedTracksNothing` counts it, refuted);
  `overlap`, an `Open` and a `Close` at a time; `refused`, the customizer did not want it (a null or
  an exception on one thread also drops the service another thread has begun to add again meanwhile)
  or a client removed it.
* `ComponentConfiguration`: `crossed`, two notifications at a time; `early`, a state replaced before
  the registration was stored; `refused`, a registration that failed.
* `ReferenceManager`: `crossed`, callbacks that overlapped each other or the registration of the
  listener (only `ComponentKnows` excepts them, `BindsBest` does not); `gone`, a service unregistered while
  a callback for it was under way, which both except (`GoneIsUnbound` does not, refuted); `own`, a service
  of the component's own name; and dynamic references with several services, which the policies treat like
  unary ones: the greedy one unbinds a service that stays bound.
* `ComponentRuntime`: `raced`, two loads or a stop during a load; `library`, a library that could not
  be loaded.
* `ConfigurationAdmin`: `recreated`, made again before the removal was told; `overlap`, two tasks
  telling a service at a time; `torn`, a count read after another update; `uncounted`, a bundle's
  configuration that starts at count 0; `thrown`, a configuration listener that threw; `erased`, `Remove`
  past the erasure while the admin is destroyed. `UninstallKeepsChanges` excepts `reused`, an address
  that was used again (`UninstallKeepsRecreated` does not, refuted).

### Bounds

* `service_use`: one bundle, two threads, one of which may nest a call in a callback, three objects:
  the registered one and two that the factory makes. Two objects are what it takes for one to be
  stored second, or to be made after the other was given back. The properties speak of one bundle's
  uses, and bundles share nothing but the flags.
* `service_registry`: two threads, one class, two rankings, three services, two changes. Three
  services are the least for a binary search to go astray between two others; `Clear` happens once.
* `framework`: three clients of which one waits; nothing else is bounded. An `Init` may throw any time.
* `bundle_install`: three threads (the first, one that waits and one that uninstalls), two names at
  the location so that a part can be missing, six archives, two uninstalls, one failure.
* `bundle_lifecycle`: two bundles, so that a call back can be for another bundle and two threads can
  wait for each other; three calls, nesting of two, one exception, one service.
* `service_listeners`: one service, two classes, two listeners of two bundles, three filters (none, one
  the index takes, one it does not) and thirteen expressions for lookups; four calls are enough for a
  registration, a modification, a listener and a hook.
* `service_tracker`: two services, two opens, two objects and three calls or exceptions on two threads:
  a close and a second open while an event of the first generation is still under way, or a `Close` that
  leaves one of two services behind. `wait_missed`: one of each.
* `component_configuration`: two references (one alone would never leave a notification half
  satisfied), four calls, one failure.
* `component_runtime`: two components, so that the first is enabled when the second fails; two
  workers, as in the code; four calls, one failure.
* `reference_manager`: three ranked services, one of them of the component's own name; six calls: three
  arrivals, the registration, and two departures or a departure and the end of a service in the middle of
  a callback.
* `configuration_admin`: two clients, two workers, one service, two values, one throw; five calls: a bundle
  starts, its configuration is removed, made again and updated, and the bundle stops.

Symmetry is used for threads, workers and services where no property is a liveness property.
Deadlock is checked in the first four runs, where `Ended` says where a system may stop. In the others
the bound on calls ends every behaviour; that nobody waits for ever is stated as a property
(`CallsEnd`) where it holds.

### Fairness

Weak fairness of every step of a call under way (and of the workers), never of the beginning of a
call: the operating system schedules threads, and user code is assumed to return. `Framework`: the
shutdown thread, a `Start` under way and a notified waiter go on; nobody has to call anything, and a
wait need not have a timeout, so no property rests on `TimeOut`. `BundleInstall`: the wait polls with a
short timeout, so it needs no notification. `BundleLifecycle`: a call that got the mutex goes on;
`CallsEnd` excepts calls nested in user code, which may wait for a mutex their own thread holds.
`ServiceTracker`: a waiter that was woken goes on; a waiter nobody wakes does not.

## Proofs

The proof modules are checked to the last leaf. They use no assumption but the ones the component
modules make on their constants: the bounds are natural numbers, and where a proof counts threads
(`AdminAssumption`, `TrackerAssumption`, `ConfigurationAssumption`) the set of threads is finite. Each proves an inductive
invariant `IInv` (`AlwaysIInv`, checked with TLC on the run's instance first), the type invariant
(`TypeCorrect`) and what follows from `IInv`. The proof of a step has one lemma per action.

`ServiceUseProofs`, for any set of bundles and threads, any depth of callbacks and any number
of objects: `CachedAlwaysCounted`, `NeverReleasedTwice`, `HoldersKeepService` and
`UnregisterAlwaysReturnsObjects`. None of the last three is inductive. The invariant adds

* `FramesOK`: what the position of a frame says about its object (an object it is about to store is
  there, a frame that enters the factory has none yet);
* `SingletonOK`: without a factory nothing is cached or given back;
* `OnePlace`: an object is in the cache of one bundle, or is owned by one frame, never both. This is
  why an object cannot be given back twice: whoever gives it back took it from its only place;
* `ReleasedIsGone`: what was given back is in no place;
* `UsesOK`: the count is the number of holders and they all hold the cached object. The steps that
  matter add or remove one holder (`UsesAdd`, `UsesRemove`, on cardinalities); all others leave the
  set of holders alone (`UsesQuiet`);
* `UnregInv`: one `Unregister` at a time is past the flag, and the service is there until it is done;
* `ReturnInv`: an object that is owed to the factory was given back, is being given back, is still stored for a
  bundle while the service is available, or is on the list `Unregister` works through. There is no
  moment between "marked unavailable" and "listed" at which a get or an unget could lose it.

`FrameworkProofs`, for any clients and waiters: `WaitAlwaysTellsTruth` and `UpAlwaysInitialised`, and
in its types that at most one waiter holds the mutex in its join; for any clients of which one waits,
`SingleWaiterJoinsFinished`.
The invariant adds `WaitInv` (whoever waits while a stop event is valid, or joins, has seen the
framework down since its call) and `UpInv` (without a race, a framework whose bundles are being
started is up and one whose shutdown is under way is STOPPING). `UpAlwaysInitialised` counts a core whose
initialisation threw as initialised; that it is ready is refuted (`ActiveIsReady`). `SingleWaiterJoinsFinished` assumes `OneWaiter`,
since with two waiters the property is refuted (see the findings); `JoinInv` says that a shutdown thread at work means a
framework that is not down, and that a waiter that finds a stop event, or the framework down, finds the thread
done, which it does as long as nobody else joined that thread and a new one was started before the waiter woke.

`ServiceRegistryProofs`, for any threads, classes, rankings and services: `AlwaysBestFirst`,
`ListedAlwaysAvailable`, `ClassListsAlwaysComplete` and `UnregisteringAlwaysOnce`. The binary search is proved
correct for lists of any length, by the principle that a non-empty set of numbers has a least one
(`NatSet`): if the rankings that were read order the list, the place it finds keeps it ordered. `SeenInv` says
that while the registry's mutex is held a listed service has had one ranking only, unless the thread that changed it
has yet to get the mutex and sort; so whatever a search or a sort read, a list is ordered but for services whose
sort is to come. `ListedInv` and `ClassInv` say which services are listed, `CompleteInv` that the lists of the
classes have all of them unless a service the registry was cleared of is unregistered, and `UnregInv` that at most
one thread is past the flag of a service, and what it has done by then.

`BundleInstallProofs`, for any threads, names and numbers of archives, uninstalls and failures:
`EntryAlwaysCounted`, `ArchivesAlwaysOfBundles` and `AlwaysInstalledOnce`. The invariant adds that every install
under way still finds room for its archives (`RoomLeft`), that no two threads have an archive in common and one
thread at most is the first (`ThreadsOK`), what the place of a thread says of its archives (`PlacesOK`), that an
archive belongs to a bundle that was installed or is still its maker's (`ArchivesOK`), and that without failures and
removals the location is empty or complete, and nobody but the first installs anything (`OnceOK`).

`BundleLifecycleProofs`, for any bundles, threads, depth of callbacks and number of services:
`AlwaysSettledBetweenCalls`, `StoppedAlwaysOwnsNothing` and `ActivatorsAlwaysStopped`. `MutexInv` (a call
past the mutex has it, and is the only one of its thread for that bundle) lets the proof look at one call at a time.
`FramesInv` says what a call knows of its bundle at each place, `BundlesInv` that a bundle no call is at work on is
settled (with an operation that is ACTIVATING if its validation function threw, and idle otherwise) and one without a
context owns nothing but registrations that come late, which `StoppedAlwaysOwnsNothing` does not count. `ServicesPaid`
bounds the counts.

`ServiceTrackerProofs`, for any threads, services, generations and objects: `CloseAlwaysWaits` and the refinement
`ContractKept`: every step of the tracker is a step of `CustomizerContract` or leaves life and keys
alone (`StepOK`). `CountInv` says that a generation's latch is the number of events between its
`CountUp` and `CountDown`, and that an unusable latch belongs to a closed generation with no event past
its check: an event that was counted in later finds the generation closed. `LifeInv` is the counterpart of `OnePlace`: an object is
tracked for the service it was made for, or one call has it, or it was reported as removed; and a service that is being added is not
tracked, which is why accepting the object does not replace another.

The properties of a tracker when no call is in progress, `NoServiceIsLost`, `ClosedTrackerIsEmpty` and
`NoServiceIsStale`, are proved for any number of threads, services, generations and calls as well. They need an
account of every call under way. A call that only reads has no part in it (`role`), so every action
becomes a statement about the role of one thread before and after (`Turn`, `Acts`, `StepTurn`), and each
part of the invariant is looked at once per kind of step.

* `EventInv`: who is reporting a change of a service, and what the change leaves it as; a service that is not in
  `raced` has one such thread at most. `OpenInv`: the owner of the tracker's mutex is the `Open` that looks references
  up, a `Close` works on the current generation unless they overlapped, and the listener is that of the open
  generation or a `Close` has begun. `FreshInv`: later generations are untouched.
* `LostInv`: a service an open generation must have is tracked, being added, an initial reference, or some thread
  brings it: an `Open` that has yet to look up, or an event on its way. `RetractInv` says that an event that takes a
  service out is never on its way to an open generation while the service matches, and `AddersInv` that what is being added has a
  thread that adds it.
* `MeanwhileInv`, `LookingInv` and `InitialInv`: what events bring while an `Open` is in progress is in `during`, so that the other initial references
  are neither tracked nor being added, and their `Open` goes on. `ClosedInv`: what a closed generation still has, a
  `Close` is going to take out, unless one left it behind.
* `ListedInv`: initial references and services being added are registered and match. `StaleInv`: so is what an open
  generation tracks, or an event that takes it out is on its way; and `SetProperties` on such a service has remembered
  the listener, so that the end of the match will be told.

`NoServiceLost` excepts what is in `refused` from the step at which a refusal takes effect (`CustomizerAddingFinal`),
not from the customizer's decision: in between, another thread may have begun to add the service again, and the
refusal drops it. TLC needs larger constants than those of the run to get there; the failed proof showed it.

`ConfigurationAdminProofs`, for any clients, workers, services, values and calls:
`LatestAlwaysTold`, `AlwaysUsesLiveAdmin` and the action property `UninstallAlwaysKeepsChanges`. The first
rests on `TellInv`: while the admin is open and none of the lapses happened, news of the current change count is on its way to
every tracked service that does not know it, as a queued task, as a worker between reading and
telling, or as a client that has not queued its task yet (`LiveOK`; `ZeroOK` for a configuration that was
removed). `TellerInv` and `SayInv` say what a worker may tell, `FirstInv` where the first call of a service is in the
queue, `ObjsInv` and `AddingInv` what threads know of the current configuration. `AdminInv` (a configuration that points to the
admin is the current one, or a thread is about to reset the pointer), `SwappedInv`, `CloseInv` and `GoneInv` carry the second.
`ExtInv` carries the third: what the extension remembers has its count only if the bundle wrote it last, unless
the address it keeps was used again.

`ComponentConfigurationProofs`, for any threads, references, calls and failures: `LatchAlwaysExcludes` and
`AlwaysSettledWhenQuiet`. `FramesInv` says what a call knows of the state objects it replaced and installed, and that
an object has one registration at most. `LatchInv` says that the latch of an active state is the number of threads at
work on it, that a closed latch has none, and that whoever takes the service and the instance away has closed it.
The second theorem has four parts, each with an invariant of the form "what is left undone has a thread that will do
it": `ReadyInv` for a future that is not ready, `InstanceInv` for an instance (or one being made) of a configuration that is unsatisfied
or whose registration is not finished, and may be taken back; `RegistryInv` for the service, unless the state was replaced
before its registration was stored; and `NotifyInv`, for notifications that come one at a time, a table of what is true at each place
of the only one under way (`PlaceInv`), which no step of a client changes.

Only model-checked:

* all liveness properties (`CallsEnd` and the others): the prover has no support for fairness and ENABLED;
* the modules without a proof module: `ServiceListeners`, `ComponentRuntime` and `ReferenceManager`. The
  first is about the index of filters, whose expressions are recursive data, the others need, like the
  tracker, an account of all callbacks under way;
* `JoinsFinishedThread` of `Framework` for more than one waiter, which is refuted (see the findings);
* what recursive definitions compute (`LDAPExpr`): induction over data is out of the provers' reach,
  except, as for the binary search, where it can be put as the least element of a set of numbers.

## Not modelled

* Lookups change nothing and have no action; the invariants are about what they read. Find hooks and
  bundle hooks, which filter their results, are left out with them.
* Parsing of filters, versions, manifests and metadata, and the comparison of values of all types:
  sequential code on text, without state.
* Properties of services other than the ranking, the class and one more; contents of events; logging.
* Bundle and framework listeners have no index and no filter: their calls are steps of
  `BundleLifecycle`, their lists are left out. Start options and autostart are left out too.
* Declarative Services: configurations of bundle and prototype scope, factory components,
  `ConfigurationManager` and `ConfigurationNotifier` (the link to the Configuration Admin), DTOs.
* Configuration Admin: random PIDs, listing, configuration listeners; nothing is persisted.
* `Framework`: `operation` (never read there), restarts (`Shutdown(true)` has no caller) and the
  build without threads.
* `BundleInstall`: installs at other locations, which share only the mutexes; hooks that hide
  installed bundles; file storage, which is a stub in the code.
* Reading of archives, libraries and manifests, the log service, http service, web console, shell
  and tools: I/O and third-party code.

Seen while reading, without a run: `RemoveServiceRegistration_unlocked` erases a class whose list has
one element without looking at it (`ClassListsComplete` says when that is safe); a `Stop` of a
framework that is STARTING does not stop the bundles that are started already
(`FrameworkPrivate.cpp:285`); the iterators of `BundleRegistry::Install` are used after the mutex is
released (`BundleRegistry.cpp:185`, modelled as a fault); a listener that throws a
`SharedLibraryException` during an installation purges the archives of bundles that are installed
(`BundleRegistry.cpp:373`); an object of `ServiceObjects<void>` is given back but not erased from the
list of prototypes (`ServiceReferenceBasePrivate.cpp:344`).

Found with the newer modules, also without a run: the extension of a bundle is destroyed with
`bundleRegMutex` held while it waits for the tasks of its components, whose user code may start or
stop another bundle (`SCRActivator.cpp:213`); a factory component adds to the vector of managers
without a lock while the extension walks over it (`ConfigurationNotifier.cpp:199`); the ranking of a
service may change while its reference is in a `std::set` ordered by it, since `ModifiedService` does
nothing (`ReferenceManagerImpl.cpp:204`); a `BECAME_SATISFIED` on its way when the component is
disabled registers it again (`CMEnabledState.cpp:106`); `GetService` of a tracker fills its cache
after another thread emptied it (`ServiceTracker.tpp:383`); two tasks of one component may be at work
on the two threads of the fallback work service (`SCRAsyncWorkService.cpp:54`); the
unbinding of a service that is unavailable while its reference is still valid dereferences a null map
(`ComponentContextImpl.cpp:403`).

## Plan

1. Proofs: `BindsBest` of `ReferenceManager`, and the properties of `ComponentRuntime`.
2. Abstract specification of a use count (an object per bundle with its number of holders) and the
   proof that `ServiceUse` implements it for bundles that stay.
3. `ConfigurationManager` and `ConfigurationNotifier`, composed with `ConfigurationAdmin` and
   `ComponentConfiguration`: a component that waits for a configuration and is modified by it.
4. Configurations of bundle and prototype scope, factory components.
