# Pulp: a TLA+ verification project

Pulp is a host for applications made of WASM *cells*. A host process loads cells
from a manifest, feeds them events from extensions, lets them call each other,
replaces running applications transactionally, and fetches and publishes modules
and products. This directory models the parts of it in which several goroutines,
a failure in the middle of a sequence, or a crash decide the outcome.

Every module is written from the Go source. `PROJECT.json` maps each definition to
the lines it models, lists every run with its properties, one faulty variant of
the code per property (operators marked "Faulty variant", unused by the
specifications), the hazards of the code, and the theorems.

## Inventory

| Component | State | Operations | What is hard, and what makes it correct |
|---|---|---|---|
| Compiled-module cache, `internal/host/modulecache.go`, `modulecache_loader.go` | map from (scope, digest, fingerprint) to entries; per entry: compiled code, error, refs, evicted, ready channel | Acquire, Instantiate, Close of a lease and of an instance, Evict, Close | entries outlive the map; code is compiled outside the lock. Leased code is never closed, unused retired code is closed once, waiters are woken |
| Dependency plan and scheduler, `internal/dependency` | graph with levels; queue, counters, running workers | Build, Execute | completions in any order, failure and cancellation with workers running. Dependencies first, all workers joined, no worker blocked |
| Deployment reconciler, `internal/reconcile/reconciler.go` | current deployment, one transaction | Prepare, Quiesce, Snapshot, Migrate, Swap, Health, Commit, Rollback, each recorded | any phase may fail or be cancelled. The current deployment is the one that serves |
| Deployment journal, `internal/reconcile/file_journal.go` | hash-chained file, entries in memory | Record, open with torn-tail repair, RecoveryState | crashes inside a write and between a phase and its record. Acknowledged records survive; recovery finds the deployment that served |
| Live runtime and router, `run/live_application_runtime.go`, `live_reconciliation.go`, `application_snapshot.go` | target, in-flight count, drain channel, accepting flag | Acquire, Release, Quiesce, Activate and the lifecycle phases | calls race with draining and switching. A commit loses no call, retirement waits for calls |
| Operator commands, `run/operator_command.go` | registered, staged and active commands; provider access | register, bind, activate, unbind, invoke, revoke | they bypass the router. A command goes to the current runtime and ends before its cells stop |
| Step loops and pollsters, `run/run.go` | per cell: event channel, module, failed flag, step context, step-done channel; per pollster: event at hand | poll, deliver, receive, step, restart, idle, push back, finalize | bounded channels, broadcast, traps. Every event is finalized as often as it was handed out, event-only cells see events in order |
| Runtime operations and control socket, `run/ops.go`, `control.go` | stopped set, reload mutex, connections | status, shutdown, reload, shutdown_all, stop | run against live step loops and against process exit. A module is torn down only after its loop, waits are answered |
| Cell and snapshot, `internal/host/cell.go`, `snapshot.go` | module lock, call waiters, exported functions | Init, Step, Call, CallTyped, Snapshot, Restore, Shutdown, Close | closing while calling, budgets, idle steps against calls. One user per module, no use after close |
| Cell supervisor, `internal/host/supervisor.go` | supervision state; not used by the runtime | Start, Stop, Guard, MonitorLiveness | stop against start |
| Sibling calls, `run/sibling.go` | execution lock per cell | resolve, permit, call, re-instantiate after a trap | lock order with snapshots and the step loop's own restart. A dead module is replaced once, nobody deadlocks |
| Application runtime, `run/application_runtime.go` | cells, capabilities set up, links | Start, stop, placement, automatic fusion | failure in the middle of a start. What a failed start set up is undone, a stop joins everybody who is inside |
| Multi-application host, `run/multihost*.go`, `internal/manifest/host.go` | hosted instances, start order, how far each is | load, start in order, unwind, activate, shut down in reverse | any step of a boot fails. A dependency is published as long as a dependent is loaded; the host ends and leaves nothing behind |
| Cross-application calls, `run/cross_application.go` | published applications, leases | publish, call, withdraw and join | calls across applications while several stop. Nobody is in a closed guest, the join ends |
| Endpoints and gateway, `run/endpoint_registry.go`, `host_gateway.go` | visible listener per capability and instance; routes, server | ready, gone, remove, route, drain, close | late notifications of an old listener; requests that outlive the drain |
| Module registry, `registry`, `cmd/pulp-registry` | content-addressed blobs, version directories, manifests, release status; a project's roots and lock | publish, cache, resolve, verify, sync, set status | concurrent publishers and readers, death between two writes. Releases are complete and immutable, resolution is exact, a lock moves only when it must |
| Fusion, `internal/fusion`, placement in `run` | recipes, artifacts, physical layout | group, resolve sources, build, publish, select, materialize, fall back | hosts with different cells share a registry and a cache. What is started was built from this host's cells, each once and in order |
| Products, `product`, `internal/productcli`, digest gate | checkout, assembly, bootstrap file, release store, `current.json` | refresh pins, assemble, package, install, activate, roll back | commands overlap without a lock, fail and are killed. The active release is intact, a failed refresh restores, a package embeds itself |
| AI control plane, `aicontrol` | proposals, approvals, records | assess, deploy, roll back | the base revision moves after it was checked |
| ABI, extension API, composition, egress guard | none, or read-only | validate, encode | pure functions |

How they interact: `run.Main` boots cells (scheduled by the dependency plan), then
pollsters deliver extension events to cell channels, step loops execute cells, and
cells call siblings or other applications. The control socket works on the same
cell runtimes. A live deployment builds a second application runtime, drains the
router, snapshots the old cells, restores the new ones, switches the router and
retires the old runtime; the journal records each phase. All cells of a process
take their compiled code from the module cache. A host of several applications starts
such a runtime per instance, publishes it to the others and puts a gateway in front; a
start may replace cells by a fused artifact that the coordinator finds in, or builds for,
the module registry. What a host is given to start comes from a product release, assembled
from a checkout whose manifests pin their artifacts.

## Modules

| Module | Models | Used by |
|---|---|---|
| `ModuleCache` | the cache and the goroutines that load cells from it. Each critical section of `ModuleCache.mu` is one action; entries are heap objects numbered by allocation, since goroutines hold them after the map forgot them | run `module_cache` |
| `CodeLifetime` | the abstract promise to users of compiled code: live, retired, freed once after the last user left | instantiated by `ModuleCache` (`KeepsPromise`) |
| `ModuleCacheProofs` | theorems about the two | |
| `DependencyPlan` | `Build`: which graphs it accepts, levels and order | `Scheduler`, `AppManifest`, `Fusion` |
| `Scheduler` | `Execute`: the loop, its workers, its result channel, cancellation | run `scheduler` |
| `SchedulerProofs` | theorems about it | |
| `RuntimeRouter` | `AtomicRuntimeRouter`: admission, leases, draining | `LiveDeployment` |
| `OperatorCommands` | the command registry and provider access of each runtime | `LiveDeployment` |
| `DeploymentJournal` | file and memory of the journal, torn writes, `RecoveryState` | `LiveDeployment` |
| `LiveDeployment` | the transaction of `ReconcileWithEvidence` driving `ApplicationRuntimeLiveLifecycle`, with clients, operators, faults and crashes; composes the three above | runs `live_deployment`, `deployment_*` |
| `LiveDeploymentProofs` | theorems about `LiveDeployment` | |
| `CellEvents` | pollster, event channels, step loops, restart after a trap | `CellHost` |
| `CellHost` | control operations and the end of `run.Main` over `CellEvents` | runs `cell_host`, `control_connections` |
| `CellHostProofs` | theorems about it | |
| `CellCalls` | steps, provider calls, snapshots and shutdown in the cells of one application, down to `Cell.mu` and `rt.execution`; a goroutine is a stack of frames, one per module it has entered | `MCCellCalls` |
| `CellCallsProofs` | theorems about it | |
| `MCCellCalls` | two cells, `front` calling `store` | runs `cell_calls`, `cell_calls_end` |
| `HostManifest` | `LoadHost`, the canonical order of instances, ownership of providers, route bindings: operators over a host manifest | `Hosting`, `Product` |
| `Hosting` | boot, activation and shutdown of the multi-application host, with the step loops and operators of every instance as stacks of guest frames, cross-application calls, listeners, pollsters and the gateway | `MCHosting` |
| `HostingProofs` | theorems about `Hosting` | |
| `MCHosting` | 491 host manifests: a chain, ambiguous providers, nested routes, two instances, all dense dependency graphs, and invalid ones; one application whose listener moves | run `hosting` |
| `Registry` | versions, requirements, manifests, the views of local, cached and hosted stores, `Resolve` and `Verify`, as operators | `AppManifest`, `Fusion`, `Publication` |
| `AppManifest` | `Load`, `LoadApp`, `buildSet`, placements and execution units | `Fusion`, `Product` |
| `Fusion` | groups, recipes, attestations, execution placements and the physical dependency plan | `Publication` |
| `Publication` | uploads, a project's sync, other clients of the same cache, hosts that prepare fused artifacts, write by write, and a registry that may not answer | `MCPublication` |
| `PublicationProofs` | theorems about the solver of `Registry` and about `Publication` | |
| `MCPublication` | instances with racing uploads and a project, and instances with two hosts | run `publication` |
| `Product` | descriptors, resolution, the files of an assembly, what can be launched: operators over directories | `ProductReleases` |
| `ProductReleases` | digest gate, assemble, package, install, activate and rollback as processes, with edits, failing writes and kills | `MCProductReleases` |
| `ProductReleasesProofs` | theorems about it | |
| `MCProductReleases` | a checkout with two applications that share a cell, one of them with a stale pin | run `releases` |

Correspondence of state. Variables carry the names of the fields they stand for (`entries`,
`refs`, `evicted`; `remaining`, `queue`, `done`; `current`, `previous`; `queue` for `rt.events`,
`stopped`, `stepDone`). Positions such as `pc`, `at`, `loop`, `op[k].at` and `main` lie between
two effects other goroutines can observe, so everything a goroutine does under one lock, or with
state nobody else reads, is one action. Payloads are reduced to what the properties compare: a
graph is a value, the state of a runtime is the set of callers whose writes it holds, an event is
its number in polling order, a cell's module is nil, open, dead (it trapped) or closed. `CellHost`
and `CellCalls` look at the same cells from two sides: `CellHost` has the channels and the control
socket of `run.Main` and takes a step as one action; `CellCalls` has the locks a step takes and
takes an event as given. In `CellCalls` the locks are not variables: who holds `Cell.mu`, the read
and the write side of `rt.execution`, and what `callWaiters` counts, follows from where the frames
are. Init and Load of a new module are one step (`LoadOk`), so calls a guest makes from its init
export while it is replaced are left out, as are `CallTyped` (no caller in the repository) and
`Restore` (on a runtime nobody uses yet); calls that a guest makes while it is snapshotted are in
the model. `rt.ctx`, the parent of all contexts, does not end while an application runs.
`lockForCall` tries the lock before it waits; that first attempt is not told apart from the later
ones, so a caller whose context has ended may give up although the lock is free. Three variables
are history only: `accused` in `CellCalls` (the modules whose own guest has reported an error that
reads closed), `revived` in `CellHost` (the stopped cells that a reload has brought up again) and
`failed` in `DeploymentJournal` (a Record of this process has failed). In `ModuleCache` a lease
belongs to the goroutine that acquired it: a Close of a lease while another goroutine instantiates
from it is left out, since the loader (`modulecache_loader.go:62-70`) keeps a lease to itself.

## Runs

| Run | Instance | Result |
|---|---|---|
| `module_cache` | two workers, two keys, three entries | passes, 173,958 states |
| `scheduler` | every accepted graph of four nodes; limits none and two | passes, 158,266 states |
| `live_deployment` | two transactions, two clients, one operator, three runtimes | passes, 248,104 states |
| `deployment_recovery` | three journalled transactions, one failed write, two crashes | passes, 727,996 states |
| `deployment_retire_failure` | two transactions | finding: an error of Retire rolls back to a runtime that is already stopped |
| `cell_host` | a self-scheduling and an event-only cell, channels of two, three events, one failing step, one control connection, one reload | passes, 2.6 million states |
| `control_connections` | the same cells, one of which failed while booting; two control connections, two reloads, one event, one failing step | passes, 2.3 million states |
| `cell_calls` | two cells, one caller from another application, one from the host; one event, two calls, one context that ends, one snapshot, three modules per cell | passes, 3.2 million states |
| `cell_calls_end` | the same without ended contexts; `store` steps itself and is called | passes, 224,366 states |
| `hosting` | 491 manifests, of at most three applications; one address per instance, three in one manifest; one request | passes, 119,136 states |
| `publication` | three uploads, a project with or without a lock, and clients that fetch; or two hosts, in eighteen configurations, and one death of a host; a registry that answers, or fails for three modules | passes, 73,402 states |
| `releases` | two shells, three commands (two if one packages), one edit, one failing write or kill | passes, 556,372 states |

Some properties of these runs name an exception, because without it the code breaks them. For each
there is a configuration that checks what the code or its documentation says without the
exception; TLC finds the counterexample in every one (`tlc -config <cfg> <module>`). They are
described below under the disagreements.

| Configuration, module | Property | Exception in |
|---|---|---|
| `JournalFailedWrite.cfg`, `LiveDeployment` | `FileIsChained` | `AcknowledgedSurvives` |
| `ControlTeardown.cfg`, `CellHost` | `TearsDownOnce` | `TeardownJoinsLoop` |
| `ControlShutdownAll.cfg`, `CellHost` | `ShutdownAllExits` | `JoinIsAnswered` |
| `CellCallsDiagnostic.cfg`, `MCCellCalls` | `OrdinaryErrorsKeepModule` | `OnlyDeadReplaced` |
| `ListenerReplaced.cfg`, `MCHosting` | `ReplacementStays` | `VisibleListenerStays` |
| `LockOffline.cfg`, `MCPublication` | `ValidLockIsReused` | `LockIsStable` |
| `UnitNames.cfg`, `MCPublication` | `EveryCellRuns` | `LayoutIsSound` |
| `PartialPublish.cfg`, `MCPublication` | `MissingIsBuilt` | none |
| `LinkedHost.cfg`, `MCProductReleases` | `ActiveStandsAlone` | `ActiveIsIntact` |

Why the bounds are enough to be interesting. Three cache entries let a key be evicted
and recompiled while its first entry is in use. Four nodes give chains, forks, joins and
diamonds, and a limit of two lets the queue wait. Two transactions let one replacement
follow a commit or a rollback of another while a call admitted before the first is still
running; three runtimes are what two transactions create. Two crashes and three
transactions let a host recover from a recovery. Three events with channels of two fill a
channel while a loop holds an event it is about to put back; one broadcast can then reach
one cell and be dropped at the other. A restart limit of one (five in the code) is reached
by a second failing step. Two calls are what it takes for two callers to find the same dead
module, and three modules let both replace it; one of the two cells is restarted by its step
loop, the other only by failed calls. Three applications are what it takes for a call to pass
through one into another while either stops, and for a dependency order to differ from the
order of names. Three addresses let a listener leave one, use another and come back while
notifications about both are under way. Two connections are what it takes for a reload and a
shutdown to overlap, and a second reload follows the first. Two uploads of one version with
different bytes, and a third of another, make every pair of writes meet; two hosts that fuse
differently make a cached release the wrong one for one of them. Two shells and three
commands let an install overlap a build and an activation or rollback follow.

What `live_deployment` does not say. Calls that the router admits to a candidate after the swap
are cut off when the transaction is rolled back: `Rollback` shuts the candidate down without a
drain. `WorkIsJoined` names this exception. `CommitKeepsCalls` is about calls through the router;
what step loops and commands write after the snapshot is lost.

What `cell_host` and `control_connections` do not say. `reloadMu` keeps reloads apart but not a
reload and a shutdown. A shutdown that another connection makes during a reload of the same cell
finds it brought up again, and then tears a module down under the new loop or waits for a loop
nobody told to stop. `TeardownJoinsLoop` and `JoinIsAnswered` except exactly these shutdowns
(`Overtaken`), and `JoinIsAnswered` also the wait for a cell that failed while booting. A signal
that arrives during a reload cancels the old step context only, so run.Main can wait for ever; and
run.Main's final loop can meet a module a reload has just set to nil (the model's `panicked`).
`QuietExit` is therefore about hosts that do exit. These are listed as hazards.

What `cell_calls` does not say. `superviseTrap` replaces a module without the execution lock
that failed calls and snapshots use. So `OnlyDeadReplaced` and `NoModuleLost` are about cells
whose step loop does not restart them; for the others TLC finds a module that is neither
closed nor current after both have replaced it. For the same reason a snapshot can look up a
module that is closed before it gets `Cell.mu`; `Close` does not clear `snapshotFn`, and
`Snapshot` then dereferences a nil module (`SnapshotPanics`). `cell_calls_end` has links
without a cycle. Manifests are checked for cycles of depends_on only, and with a cycle of
consumed providers TLC finds a deadlock: a call that comes back to a cell it is already in
takes `execution.RLock` again and waits for a snapshot that waits for the first one, where no
context is looked at. A dead module is recognised by the text of an error, which includes the
diagnostic of the guest, so a guest can accuse its own healthy module; `OnlyDeadReplaced` allows
that one to be replaced, and none of its successors. These are listed as hazards.

What `hosting` does not say. `LoadHost` and `LoadApp` are one step: a manifest does not change
under a boot. One request at a time passes the gateway, and one event per instance waits in its
channel. Replacement of a hosted application by a live deployment is in `LiveDeployment` only, for
one application. Only one manifest has listeners that change their address (`Moving`), since
endpoints of different instances do not meet in the registry. An open listener whose address was
closed before can be erased by the late notification of its predecessor, which
`VisibleListenerStays` excepts. An instance whose `setupCapabilities` fails half-way is excepted
from `ExitLeavesNothing` (`unfinished`), as the code leaves what it had set up.

What `publication` does not say. A resolution reads all stores in one step, although the code
reads one file after the other, and what it fetches into the cache is one step too; other clients
of the cache (`Fetches`) fetch write by write. An outage holds for the whole of a resolution and
is about modules: the registry answers for a module or not (`Outages`). `HostedRegistry.Mirrors`
is set nowhere in the repository, so the branches that ask a mirror are left out. `LockIsStable`
lets a lock move when a locked release is not cached and out of reach, and `LayoutIsSound` excepts
the members of units where two have one name. The keys of `config_env` that lead into a nested
table are plain keys. A release that requires itself is selected by the solver, and refused by the
search for cycles that follows; the reference selections leave such requirements out. A lock for
another target or other roots than the project's is replaced, which `LockIsStable` allows. Equal
digests are equal bytes. Signatures, search and `pulp-registry publish` into a local directory
(the same `LocalStore.Publish`) are left out.

What `releases` does not say. `LoadApp`, `LoadHost`, `treeDigest` and the archive of a package
read their files in one step, and so do the plan of a refresh for one application and each reading
of its originals. What `LoadApp` asks of the cells as a set (`AppManifest`) holds of every
application here. A linked host manifest is told from a frozen one by where its paths lead
(`Root`): out of the assembly, to the checkout, and from a release to the checkout too if
`PathsLeadBack`, as with `-output .pulp/products/x -store .pulp`; otherwise to nothing.
`ActiveIsIntact` excepts releases with a linked host manifest where the paths lead back. Nobody
but the commands writes to the release store. Commands that fail before they change anything are
left out, since they leave no trace. The tree digest is taken to be injective, although
`treeDigest` does not delimit the contents it hashes. Packaged hosts are not run. Execution units
are in the operators and not in the instance.

Properties and what they are about:

* `LeasedCodeIsOpen`, `KeepsPromise`: code in use is not closed, and the cache implements
  `CodeLifetime`: nothing is closed twice or leased once retired. `AcquireReturns`,
  `EvictedCodeIsFreed`: nobody waits for ever for somebody else's compilation; retired code is
  closed.
* `PlanIsOrdered`: Build against a definition without levels. `DependenciesFirst`,
  `SuccessMeansAll`, `Terminates`: what Execute promises with failing nodes.
* `RouterFollowsReconciler`, `OnlyCurrentRuns`: after any outcome, routing and running runtimes
  agree with the reconciler. `CommitKeepsCalls`, `WorkIsJoined`: no call is lost by a commit, no
  command is cut off, and a call only by a rollback after the swap. `TransactionEnds`: no drain or
  revocation hangs.
* `AcknowledgedSurvives`, `RecoveryFindsAuthority`: crash recovery. The first is an action
  property: no crash, restart or failed write makes an acknowledged record unreadable; only a
  Record behind the remains of a failed one can. `FileIsChained` is what that case breaks.
* `SlotsAccounted`: each event needs as many further calls of Finalize as it has owners;
  `EventOnlyCellsInOrder`, `TeardownJoinsLoop`, `JoinIsAnswered`, `QuietExit`. The code breaks
  `TearsDownOnce` and `ShutdownAllExits`.
* `GuestOwnsModule`, `SnapshotIsQuiet`: who executes in a module is alone in it and it is not
  closed under him; what is snapshotted is the current module of a cell nobody is in.
  `OnlyDeadReplaced`, `NoModuleLost`: failed calls replace a dead or accused module, once, and
  never its successor; `OrdinaryErrorsKeepModule` is what the accused ones break. `StopsQuietly`,
  `WorkEnds`: shutdown finds the application empty, in dependency order, and gets there.
* `DependencyOutlivesDependent`, `CallsStayInside`: start, unwinding and shutdown order keep what
  an application depends on, and no goroutine in closed guests, whatever fails.
  `VisibleListenerStays`, `ExitLeavesNothing`, `HostExits`: listeners that move, and the end.
  `ReplacementStays` fails where a listener comes back to an address.
* `ReleaseIsComplete`, `ReleasesAreImmutable`: stores under concurrent, interrupted publication.
  `ResolutionIsExact`: the backtracking solver against all selections. `LockIsStable`: when a sync
  may move a lock. `FusedMatchesRecipe`, `LayoutIsSound`: what a host starts in place of its
  cells. The code breaks `MissingIsBuilt`, `ValidLockIsReused` and `EveryCellRuns`.
* `ActiveIsIntact`, `FailedRefreshRestores`, `PackageEmbedsItself`: the product commands against
  each other, failures and kills. `ActiveStandsAlone` is what a linked host manifest breaks.

`TypeOK` is not among the properties of the runs: `ModuleCache`, `Scheduler`, `LiveDeployment`,
`CellHost`, `CellCalls` and `Hosting` have a proof of it, and the inductive invariants of
`PublicationProofs` and `ProductReleasesProofs` say of the types what their proofs need.

Deadlock checking is off except in `hosting`, where a host that has exited stutters
explicitly: every other system may come to rest (Execute has
returned, the bound on transactions is reached, the process has exited). What must not
come to rest too early is stated as a liveness property, or by `JoinIsAnswered`.

Fairness is weak fairness of goroutines that can go on: compilation and instantiation end, a cell
is closed by its owner some day, and closing of code that was picked is carried out
(`ModuleCache`); a worker's function returns and Execute goes on (`Scheduler`); the reconciler
goes on and an admitted call or command ends, since a cell is interrupted after its call budget
(`LiveDeployment`); the pollster finishes the event at hand and sees the stop request, step loops,
control operations, the watchdog and run.Main go on (`CellHost`); a goroutine that may take its
next lock does, and a guest comes back, since every cell is loaded Interruptible and called with a
timeout (`CellCalls`; a call polls `Cell.mu`, so weak fairness does not promise it the lock); the
main goroutine of a host that stops goes on, and a guest that the stop waits for returns at every
depth of its calls (`Hosting`, strong fairness: a guest that keeps calling others is ended by the
budget of its entry). `Publication` and `ProductReleases` state safety only. Nothing is assumed of
requests, events, signals, faults, cancellation and crashes. Calls of extensions are taken to
return.

## Proofs

`ModuleCacheProofs` proves for any finite set of workers, any keys and any number of entries:
`TypeCorrect` (`TypeOK`), `RefsCountLeases` (`LeasesCounted`), `NoUseAfterClose`
(`LeasedCodeIsOpen`), `NoDoubleClose` (`ClosedOnce`) and `Refinement` (the cache implements
`CodeLifetime`). None of them is inductive. `IInv` adds what a worker's position says of its entry
(`Positions`: whoever is past compilation holds a compiled entry), that unallocated entries are
untouched (`Fresh`), that the map lists only allocated entries, under their own key and not
evicted, and nothing once closed (`MapLive`), and when an entry may have been picked for closing:
once, evicted or refused by a closed cache, with no reference left (`Picked`). Counting is reduced
to one lemma on what happens to the set of holders when one worker moves. The refinement maps
phase and users of each piece of code to these variables, one lemma per kind of step. Assumptions:
`WorkerAssumption`, `KeyAssumption`, `MaxEntriesAssumption`.

`SchedulerProofs` proves for any number of nodes, any graph `Build` accepts and any limit:
`TypeCorrect` (`TypeOK`), `DependenciesCompleteFirst` (`DependenciesFirst`), `WorkersNeverBlock`
(`ChannelHasRoom`), `WorkersAreJoined` (`NoWorkerLeft`) and `SuccessIsComplete`
(`SuccessMeansAll`). `LeasesCounted`, `ClosedOnce`, `ChannelHasRoom` and
`NoWorkerLeft` have no run of their own, since the proofs cover every instance. The inductive
invariant says that a node is in one place only
(`Places`), that `running` counts workers and unread results (`Running`), that a counter is
the number of dependencies that have not completed (`Counters`), that the queue holds
exactly the nodes that are due (`QueueExact`), and what the phases of the loop imply
(`Control`). Success is complete because a node of least level among those that did not run
would have been queued. `PlansAreOrdered` (`PlanIsOrdered`) is about `Build` itself, for graphs
of every size: it refuses exactly the cyclic ones, and what it orders is in dependency order.
`Placed` is a recursive function on the naturals; `IterationExists` shows that such a function
exists (so that its equation may be used), and every induction takes a least counterexample
(`LeastNumber`). If a graph has no cycle, each round places a node as long as one is left
(`PlacedGrows`): otherwise the nodes that are left would have a cycle, since each has a
dependency among them. Assumptions: `NAssumption`, `MaxParallelAssumption`.

`LiveDeploymentProofs` proves, for any number of clients, operators, graphs, runtimes,
transactions, faults and crashes: `DeploymentTypes` (`TypeOK`), `RouterAgrees`
(`RouterFollowsReconciler`), `NothingLeftRunning` (`OnlyCurrentRuns`), `StopsJoinWork`
(`WorkIsJoined`), `CommitKeepsWrites` (`CommitKeepsCalls`), `JournalKeepsAcknowledged`
(`AcknowledgedSurvives`) and `RecoveryIsAuthoritative` (`RecoveryFindsAuthority`, for a host with
a recorder: without one there is no file to recover from). The properties say something about the
end of a transaction or about one of its steps, so none is inductive; the invariant cuts a
transaction into the stretch before the drain has ended, the quiet one in which no call is in
flight, and the one after the swap, and says for each which runtimes live (`Lives`), who may use
them (`Access`, `Counts`), where the router sends calls (`Routes`) and where the writes of the
drained calls are (`Carries`). `Leased` says which runtime an admitted call is in, so that a
runtime that stops has none unless it is the candidate of a late rollback. For the journal,
`Fresh` says that as long as no Record has failed the file holds what was acknowledged, which is
all that `AcknowledgedSurvives` needs; for `RecoveryFindsAuthority`, `Kept` says that the entries
acknowledged are a hash chain and what the file holds beyond them (one line of a `Record` that
failed or of a crash), and `Authority` which record the recovery would choose at each position.
Both rest on lemmas about files of any length. Assumptions: `ClientAssumption`,
`MaxRuntimesAssumption`, `OperatorAssumption` (a write of a call and a write of a command can be
told apart), `InitialGraphAssumption`, `MaxTxAssumption`, `DurableAssumption`, `BudgetAssumption`.

`CellHostProofs` proves, for any number of cells, events, connections, traps and reloads, and
whichever cells failed while booting: `HostTypesOK` (`TypeOK`), `SlotsAreAccounted`
(`SlotsAccounted`), `EventsInOrder` (`EventOnlyCellsInOrder`) and `ExitIsQuiet` (`QuietExit`). An
event has as many slots as owners only because no cell ever owns it twice (`Once`), because where
a loop is says whether it holds one (`Owned`), and because the pollster never offers a cell what
the cell has got already (`Past`). `Reloading` says what `reloadMu` is worth: of the operations
that start a loop one at most is under way. Order needs that the channel of a cell without inbound
transport is sorted and newer than what was handled (`Sorted`), the quiet exit that the final
drain has passed (`Emptied`). `TeardownIsJoined` (`TeardownJoinsLoop`) and `JoinsAreAnswered`
(`JoinIsAnswered`) hold for any number of connections. They rest on `Joined`: whoever is past its
wait has seen the loop return, unless a reload has overtaken it, and of reloads `reloadMu` lets
one at a time get there; and on `LoopsReturn`: a loop that is off has closed `stepDone`, unless it
was never launched. Assumptions: `CellAssumption` (a host has a cell), `ChanSizeAssumption`,
`EventBoundsAssumption`, `MaxReloadsAssumption`.

`CellCallsProofs` proves, for any cells, any links between them (cyclic ones included), any number
of goroutines, modules, calls, deadlines and snapshots: `CallTypes` (`TypeOK`),
`OneGuestPerModule` (`GuestOwnsModule`), `SnapshotsAreQuiet` (`SnapshotIsQuiet`),
`HealthyModulesStay` (`OnlyDeadReplaced`), `ModulesAreKept` (`NoModuleLost`) and `StopIsQuiet`
(`StopsQuietly`). The invariant says what a frame knows where it is (`Shape`, `Bottoms`, `Quiet`,
`Known`), that `execution.Lock` has one writer per cell and a snapshot that holds it meets no
reader (`OneWriter`, `Undisturbed`), that a module is nobody's before it is installed and the one
being closed is never the installed one (`Unused`, `Replaced`, `Installed`, `Numbered`), that a
call on its way to replace a module has found that one dead or its guest has accused it (`Died`),
and how far a shutdown has got (`ShutAlone`, `ShutDownFor`). Steps are proved by what they do to a
stack (begin, go on, return, replace) in lemmas that every action cites. Assumptions:
`CellsAssumption`, `CallBoundsAssumption`.

`HostingProofs` proves, for any set of manifests with any number of applications, instances,
dependencies, cells and capabilities: `HostingTypes` (`TypeOK`), `DependenciesOutlive`
(`DependencyOutlivesDependent`), `GuestsStayLoaded` (`CallsStayInside`), `NothingIsLeft`
(`ExitLeavesNothing`) and the action property `ListenersStay` (`VisibleListenerStays`). The
foundation is `StartOrder`: what `canonicalHostedApplications` returns for a manifest that
`LoadHost` accepts holds no instance twice and none before an instance of an application it
depends on. It follows round by round from `InOrder`, which takes the least member whose
predecessors have been taken. The invariant then says that a prefix of this order is ready, one
instance is under way and the rest is off (`Progress`), whichever step failed; that the registry
has exactly the published instances (`Published`); where goroutines may be while an instance
stops, first frame and called frames apart (`Entered`, `Called`), since `stopLocked` joins them
at different points; when events may wait (`Polls`) and resources be set up (`Kept`).
`ListenersStay` needs the types only: of the notifications under way none names the address of the
open listener, by its hypothesis. Assumptions:
`ManifestsAssumption` (the fields of a manifest entry are what the loader produces, and a manifest
has finitely many entries), `CapsAssumption`, `MaxAddressesAssumption`.

`PublicationProofs` has two parts. The first is about `solve` as an operator, for every registry
with finitely many releases and any requirements: `SolverIsExact` says that it finds a selection
of versions exactly when there is one, and that no selection has a newer version of the module it
settles first. `Solve` is a recursive function whose argument is a place of the search: what is
chosen, and which versions of the open module have been tried. The function exists because each
place it goes to is smaller (`Size`, `SearchExists`; every induction takes a place of least size),
the version order it maximises is total and transitive (`CompareTotal`, `CompareTransitive`, by
comparing versions as sequences of pairs at the first place where they differ), and what it finds
is consistent (`SearchIsSound`), not missed (`SearchIsComplete`) and newest (`SearchIsNewest`).
The second part is about `Publication` with any uploads, hosts and crashes: `ReleasesAreComplete`
(`ReleaseIsComplete`), `ResolutionsAreExact` (`ResolutionIsExact`), `FusedArtifactsMatch`
(`FusedMatchesRecipe`) and the action properties `ReleasesStayAsTheyAre` (`ReleasesAreImmutable`)
and `LocksAreStable` (`LockIsStable`). `Inv` says of each publication under way which of its
artifacts the store has and that the manifest it will link belongs to its directory; all of it
survives because stores only grow (`Grows`), and what a fetch under way writes is a copy of a
release the registry has. `LockInv` says that the releases of a lock are where they were and say
what they said, so that a lock still verifies unless a release was withdrawn or is out of reach.
`FusedInv` says that what a host prepares is the recipe of a group of its own cells, with the
sources these are bound to, and that attestations tell the truth; the check of the recipe digest
(`ValidateArtifact`) then leaves only artifacts of that recipe, whoever published them.
Assumptions: `ModuleIDsAssumption`, `OutagesAssumption` (there is a time when the registry
answers) and `InstancesAssumption`, which is what the code takes for granted. The registry was
written by `Publish`; the fields of manifests are what the decoder produces. A lock that the
project begins with was made from the registry's releases, and no host that shares the project's
cache publishes one of them: otherwise the cache may hold another release under that version, the
lock does not verify and a sync moves it. Attestations were written by builds (`Attested`): a host
compares an attestation with its recipe and with the digest of the artifact, and nothing in the
code could compare the artifact with the recipe.

`ProductReleasesProofs` proves, for any number of shells, any checkout, edits, commands, failures
and kills: `ActiveReleaseIsIntact` (`ActiveIsIntact`), `RefreshRestoresOnFailure`
(`FailedRefreshRestores`) and `PackageEmbedsOwnFiles` (`PackageEmbedsItself`). Commands take no
lock, so what one has read may be out of date when it writes. The invariant says what is still
true of it: which files a refresh has still to put back, and that they have the contents it holds
(`Restorable`); that the bootstrap file of the module belongs to the one package command between
`O_EXCL` and its clean-up, and holds its stage (`Packaging`, `OneOwner`); and that whatever state
an activation or a rollback is about to write names releases that are good (`Good`), although
`current.json` changed meanwhile (`Activating`): releases are never removed or changed, and one
that launches without the checkout (`Stands`) does so whatever is edited. Assumption:
`LaunchableAssumption`.

Only model-checked: liveness (`AcquireReturns`, `EvictedCodeIsFreed`, `Terminates`,
`TransactionEnds`, `WorkEnds`, `HostExits`), since the prover has no rules for fairness; and
`LayoutIsSound`, whose layout is sorted and flattened from nested sequences by library operators
that are recursive over their arguments: what they compute for every input would need an induction
over data.

## Disagreements between the code and what it says

One is the run `deployment_retire_failure` and is described under `findings`. These have a
configuration of their own:

* `internal/reconcile/file_journal.go:105` (`JournalFailedWrite.cfg`): Record returns the error of
  a failed write and leaves what reached the file; the next Record, of the rollback, continues the
  partial line or repeats sequence and hash behind the whole one. `JournalEntry` is
  "integrity-chained, append-only" and `OpenFileJournal` "repairs only a torn final write" (lines
  18, 27): it refuses the file at every later start, and acknowledged records are out of reach.
* `run/ops.go:251` (`ControlTeardown.cfg`): "Reloads are serialized by reloadMu so two concurrent
  control connections can't tear the same cell down twice" (lines 249-250); a shutdown does not
  take `reloadMu`, and with a reload under way both tear the cell down.
* `run/ops.go:91` (`ControlShutdownAll.cfg`): with a cell that failed while booting,
  `shutdown_all` waits for a step loop that was never launched, and the exit waits for that
  connection; "a control-socket shutdown_all can exit the host cleanly" (lines 163-165).
* `run/sibling.go:260` (`CellCallsDiagnostic.cfg`): `closedModuleCallError` looks for words in the
  text of an error, which the guest's own diagnostic is part of (`internal/host/cell.go:593`): an
  ordinary error can cost a healthy module, against `synchronous_call_recovery_test.go:19`.
* `run/endpoint_registry.go:80` (`ListenerReplaced.cfg`): Gone compares addresses, so a late one
  erases a replacement at the same address, which it "cannot erase" (lines 68-69).
* `registry/project.go:94` (`LockOffline.cfg`): any error of Verify makes a sync resolve again.
  With the registry out of reach and a locked release not cached, the lock moves to what is
  cached; "A valid unchanged lock is reused offline" (`docs/MODULE_WORKFLOW.md:17`).
* `run/application_runtime.go:178` (`UnitNames.cfg`): nothing refuses two execution units of one
  name (`internal/manifest/app.go:287-327`), and the artifact of the second is never placed, while
  "the runtime instantiates Artifact once" (`app.go:48`).
* `registry/store.go:132` (`PartialPublish.cfg`): Publish "atomically adds an immutable release"
  (line 86), but a host that dies between the version directory and the link leaves a version that
  exists, is never built (`internal/fusion/coordinator.go:132`) and never resolves.
* `product/descriptor.go:377` (`LinkedHost.cfg`): a linked build writes its host manifest first.
  Cut off there, or overtaken by an install, it leaves a launch file that says frozen with a host
  manifest whose paths lead to the checkout (line 524); where they fit from the store too, the
  release is activated and changes with the checkout. A frozen host manifest "has no references
  back to the source checkout" (lines 284-286).

The others were met while modelling and are left as the code has
them; the models contain them.

* `internal/host/modulecache.go:170`: an entry evicted while it compiles deletes, by key, the
  entry that replaced it; `Close` "evicts every entry, and closes idle compiled modules" and
  never finds that one.
* `internal/reconcile/file_journal.go:155`: a transaction cut off by a crash stays incomplete
  for ever. A host that follows "Hosts must restore their Previous graph" overrides later
  commits at every restart.
* `run/operator_command.go:57-61`: a command that is registered after its runtime has started goes
  to the next candidate as soon as that is prepared, before the swap.
* `run/application_runtime.go:339`: a failing capability setup leaves the capabilities set up
  before it; `run/multihost.go:218` tears down only runtimes that started.
* `run/application_runtime.go:249`: the artifact of a fused group gets the configuration of its
  first member, since "Planner compatibility proves these values are identical"; the planner
  (`internal/fusion/plan.go`) does not compare the configurations of members with the v2 ABI.
* `run/cross_application.go:181`: members of an execution unit "retain their [...] Lua-visible
  names" (`internal/manifest/app.go:47`), but a call from another application finds the unit's
  artifact only, under the name of the unit.
* `run/host_gateway.go:347`: a second Shutdown returns at once while the first still drains.
* `internal/manifest/host.go:187`: grants that the artifact of an execution unit declares are not
  checked against the owners.
* `internal/manifest/refresh.go:89`: the refresh covers scripts and cells, not the artifacts of
  execution units; `digest_gate.go:20` says "all artifact pins reachable from a host manifest".
* `product/descriptor.go:20`: product identities may have dots, host identifiers
  (`internal/manifest/host.go:88`) not: such a descriptor is valid and fails at assembly.
* `registry/resolve.go:171`: cycles are looked for after the selection; one that is found fails
  the resolution although older versions may have none.
* `registry/hosted.go`: a hosted publication writes the release and then its record; between
  the two the release has no status.
* `product/release.go:105`: a rollback writes the state twice, and commands read it before they
  write: an overlapping activation is lost, a kill in between forgets the release to go back to.
  An install copies after it has hashed; only activation checks the copy.
* `internal/productcli/command.go:121`: a package command that is killed leaves its bootstrap
  file, and every later one refuses to start; killed between its two renames
  (`command.go:173`) it leaves no package, only the backup.

## Not modelled, and why

The envelope and fusion ABI, extension declarations, placement grants, composition contracts
and the egress guard are encoding and validation without state. `internal/safe` wraps single
calls. Diffs between graphs, JSON, TOML and message framing, source generation, archives,
signatures, logging, idle back-off times and heartbeats do not change what the properties
compare. `internal/dependency/collapse.go` and `internal/host/supervisor.go` have no caller in
the runtime. The AI control plane calls a deployer that the repository only declares as an
interface; its policy checks have no concurrency of their own.

## Plan

Done, in order of importance to a running host: the code cells run from (`ModuleCache`),
starting in order (`Scheduler`), replacing a live application (`LiveDeployment`), events and
control of cells (`CellHost`), calls between cells (`CellCalls`), hosts of several applications
(`Hosting`), releases of modules and fused artifacts (`Publication`), releases of products
(`ProductReleases`). Next:

1. Live replacement inside a host of several applications: `LiveDeployment` over `Hosting`.
2. The cell supervisor and the AI control plane, once the runtime uses them.
