--------------------------- MODULE LiveDeployment ---------------------------
(***************************************************************************)
(* The transactional replacement of a live application:                    *)
(* Reconciler.ReconcileWithEvidence (internal/reconcile/reconciler.go)     *)
(* driving ApplicationRuntimeLiveLifecycle (run/live_application_runtime   *)
(* .go) through liveLifecycleAdapter (run/live_reconciliation.go), while   *)
(* clients call the application through the router, operators call it      *)
(* around the router, Record can fail and the process can die.             *)
(*                                                                         *)
(* Reconciler.reconcile serialises transactions, so `at` is the position   *)
(* of the one goroutine inside it.  Each position lies between two calls   *)
(* that other goroutines can observe.  A runtime is configured without     *)
(* CrossApplications and Endpoints; what its Lifecycle observer answers is *)
(* a choice (StartFailure, Retired).                                       *)
(***************************************************************************)
EXTENDS RuntimeRouter, OperatorCommands, DeploymentJournal

CONSTANTS
    Durable,       \* whether the reconciler has a recorder
    MaxFaults,     \* bound: how often Record fails in a live process
    MaxCrashes     \* bound: how often the process dies

ASSUME DurableAssumption == Durable \in BOOLEAN
ASSUME BudgetAssumption == MaxFaults \in Nat /\ MaxCrashes \in Nat

VARIABLES
    at,          \* where the reconciler is
    stage,       \* the phase last entered
    tx,          \* transactions begun so far; the last one's id
    current,     \* Reconciler.current: a graph and the runtime deployed for it
    previous,    \* the deployment the transaction replaces
    desired,     \* the graph the transaction deploys
    candidate,   \* the runtime Prepare returned, or NoRuntime
    snapshot,    \* what Snapshot returned
    created,     \* runtimes created so far
    life,        \* the life of each runtime
    store,       \* whose writes the state of a runtime holds
    wrote,       \* the clients whose admitted call has executed
    faults, crashes

txVars == <<stage, tx, previous, desired>>
runtimeVars == <<created, life, store, wrote>>
budgetVars == <<faults, crashes>>
vars == <<at, current, candidate, snapshot, txVars, runtimeVars, budgetVars,
          routerVars, commandVars, journalVars>>

Deployment == [graph : Graph, rt : Runtime]

\* idle: no transaction; down: no process.  The others are named for what
\* the reconciler does next: record `start`ed, `call` the stage, `wait` for
\* the drain, let the start observer `observe` the candidate, `abandon` one
\* that failed to start, `switch` the router, `record` the stage, finish
\* `retiring` the previous runtime, `publish`, `acknowledge` the commit;
\* `rollback`, `restore` the router, `dispose` of the candidate, finish
\* `disposing`, `conclude` with the rollback record.
At == {"idle", "down", "start", "call", "wait", "observe", "abandon", "switch",
       "record", "retiring", "publish", "acknowledge", "rollback", "restore",
       "dispose", "disposing", "conclude"}

NextStage ==
    [prepare |-> "quiesce", quiesce |-> "snapshot", snapshot |-> "migrate",
     migrate |-> "swap", swap |-> "health", health |-> "commit"]
Stage == DOMAIN NextStage \cup {"commit"}

Init ==
    /\ at = "idle"
    /\ stage = "prepare"
    /\ tx = 0
    /\ current = [graph |-> InitialGraph, rt |-> 1]
    /\ previous = current
    /\ desired = InitialGraph
    /\ candidate = NoRuntime
    /\ snapshot = {}
    /\ created = 1
    /\ life = [r \in Runtime |-> IF r = 1 THEN "running" ELSE "none"]
    /\ store = [r \in Runtime |-> {}]
    /\ wrote = {}
    /\ faults = 0
    /\ crashes = 0
    /\ RouterInit(1)
    /\ CommandsInit(1)
    /\ JournalInit

----------------------------------------------------------------------------
(* records *)

RecordOf(status) ==
    [tx |-> tx, status |-> status, previous |-> previous.graph, desired |-> desired]

\* ReconcileWithEvidence returns: its local variables are gone.
Finish ==
    /\ stage' = "prepare"
    /\ previous' = current
    /\ desired' = InitialGraph
    /\ candidate' = NoRuntime
    /\ snapshot' = {}
    /\ UNCHANGED <<current, tx>>

\* Record returns: without an error (or without a recorder) the reconciler
\* goes on at ok, with one at err.
Recorded(status, ok, err) ==
    \/ /\ ~Durable
       /\ at' = ok
       /\ UNCHANGED <<faults, journalVars>>
    \/ /\ Durable
       /\ RecordOk(RecordOf(status))
       /\ at' = ok
       /\ UNCHANGED faults
    \/ /\ Durable
       /\ faults < MaxFaults
       /\ RecordError(RecordOf(status))
       /\ at' = err
       /\ faults' = faults + 1

\* A transaction begins when the wanted graph differs from the current one;
\* otherwise ReconcileWithEvidence returns without doing anything.
Begin(g) ==
    /\ at = "idle"
    /\ tx < MaxTx
    /\ created < MaxRuntimes
    /\ g # current.graph
    /\ tx' = tx + 1
    /\ previous' = current
    /\ desired' = g
    /\ at' = "start"
    /\ UNCHANGED <<current, stage, candidate, snapshot, runtimeVars, budgetVars, routerVars, commandVars, journalVars>>

\* Without a durable started record nothing is done.
RecordStarted ==
    /\ at = "start"
    /\ Recorded("started", "call", "idle")
    /\ IF at' = "idle" THEN Finish ELSE UNCHANGED <<current, candidate, snapshot, txVars>>
    /\ UNCHANGED <<runtimeVars, crashes, routerVars, commandVars>>

\* A phase is done: record it and enter the next one, or roll back.
RecordCompleted ==
    /\ at = "record"
    /\ Recorded("completed", "call", "rollback")
    /\ stage' = IF at' = "call" THEN NextStage[stage] ELSE stage
    /\ UNCHANGED <<current, candidate, snapshot, tx, previous, desired, runtimeVars,
                   crashes, routerVars, commandVars>>

\* The transaction ends, whether or not its last record could be written.
RecordCommitted ==
    /\ at = "acknowledge"
    /\ Recorded("committed", "idle", "idle")
    /\ Finish
    /\ UNCHANGED <<runtimeVars, crashes, routerVars, commandVars>>

RecordRolledBack ==
    /\ at = "conclude"
    /\ Recorded("rolled_back", "idle", "idle")
    /\ Finish
    /\ UNCHANGED <<runtimeVars, crashes, routerVars, commandVars>>

----------------------------------------------------------------------------
(* starting and stopping a runtime *)

\* The end of applicationRuntime.Start: the runtime runs, its provider access
\* exists and is bound to the operator commands.
StartRuntime(r) ==
    /\ created' = r
    /\ life' = [life EXCEPT ![r] = "running"]
    /\ Bind(r)

\* The beginning of stopLocked: no operator command finds the runtime any
\* more, and its access refuses the ones that already did.
StopBegin(r) ==
    /\ life' = [life EXCEPT ![r] = "stopping"]
    /\ UnbindRevoke(r)

\* stopLocked goes on when the access has no call left: the cells are shut
\* down and closed.
StopEnd(r) ==
    /\ Revoked(r)
    /\ life' = [life EXCEPT ![r] = "stopped"]
    /\ store' = [store EXCEPT ![r] = {}]

----------------------------------------------------------------------------
(* the phases *)

InPhase(s) == at = "call" /\ stage = s

\* The lifecycle returned from the phase, without or with an error.
PhaseOk == at' = "record"
PhaseError == at' = "rollback"

\* A step of the reconciler that begins and records nothing.
Unrecorded == UNCHANGED <<txVars, budgetVars, journalVars>>

\* The factory builds a runtime and starts it.
PrepareStart ==
    /\ InPhase("prepare")
    /\ StartRuntime(created + 1)
    /\ at' = "observe"
    /\ Unrecorded
    /\ UNCHANGED <<current, candidate, snapshot, store, wrote, routerVars>>

\* The factory or Start fails before the runtime is bound.
PrepareError ==
    /\ InPhase("prepare")
    /\ PhaseError
    /\ Unrecorded
    /\ UNCHANGED <<current, candidate, snapshot, runtimeVars, routerVars, commandVars>>

PrepareOk ==
    /\ at = "observe"
    /\ candidate' = created
    /\ PhaseOk
    /\ Unrecorded
    /\ UNCHANGED <<current, snapshot, runtimeVars, routerVars, commandVars>>

\* Start fails after the bind: startFailure stops the runtime again, and
\* Prepare returns no candidate.
StartFailure ==
    /\ at = "observe"
    /\ StopBegin(created)
    /\ at' = "abandon"
    /\ Unrecorded
    /\ UNCHANGED <<current, candidate, snapshot, created, store, wrote, routerVars>>

Abandon ==
    /\ at = "abandon"
    /\ StopEnd(created)
    /\ PhaseError
    /\ Unrecorded
    /\ UNCHANGED <<current, candidate, snapshot, created, wrote, routerVars, commandVars>>

Quiesce ==
    /\ InPhase("quiesce")
    /\ CloseAdmission
    /\ at' = IF inflight = 0 THEN "record" ELSE "wait"
    /\ Unrecorded
    /\ UNCHANGED <<current, candidate, snapshot, runtimeVars, commandVars>>

QuiesceDrained ==
    /\ at = "wait"
    /\ DrainDone
    /\ PhaseOk
    /\ Unrecorded
    /\ UNCHANGED <<current, candidate, snapshot, runtimeVars, routerVars, commandVars>>

\* The context ends while calls are still in flight.
QuiesceCancelled ==
    /\ at = "wait"
    /\ PhaseError
    /\ Unrecorded
    /\ UNCHANGED <<current, candidate, snapshot, runtimeVars, routerVars, commandVars>>

\* SnapshotLive: refused by a runtime that is not started.
Snapshot ==
    /\ InPhase("snapshot")
    /\ \/ /\ life[previous.rt] = "running"
          /\ snapshot' = store[previous.rt]
          /\ PhaseOk
       \/ UNCHANGED snapshot /\ PhaseError
    /\ Unrecorded
    /\ UNCHANGED <<current, candidate, runtimeVars, routerVars, commandVars>>

\* RestoreLive into the candidate; an error leaves it partly restored.
Migrate ==
    /\ InPhase("migrate")
    /\ \/ store' = [store EXCEPT ![candidate] = snapshot] /\ PhaseOk
       \/ \E part \in SUBSET snapshot :
              store' = [store EXCEPT ![candidate] = part] /\ PhaseError
    /\ Unrecorded
    /\ UNCHANGED <<current, candidate, snapshot, created, life, wrote, routerVars, commandVars>>

\* Activate promotes the candidate's operator commands, then the router.
SwapCommands ==
    /\ InPhase("swap")
    /\ Promote(candidate)
    /\ at' = "switch"
    /\ Unrecorded
    /\ UNCHANGED <<current, candidate, snapshot, runtimeVars, routerVars>>

SwapRouter ==
    /\ at = "switch"
    /\ Activate(candidate)
    /\ PhaseOk
    /\ Unrecorded
    /\ UNCHANGED <<current, candidate, snapshot, runtimeVars, commandVars>>

\* LiveHealth; a cell of the candidate may have failed.
Health ==
    /\ InPhase("health")
    /\ PhaseOk \/ PhaseError
    /\ Unrecorded
    /\ UNCHANGED <<current, candidate, snapshot, runtimeVars, routerVars, commandVars>>

\* Commit retires the previous runtime; Shutdown of one that is not started
\* does nothing.
Retire ==
    /\ InPhase("commit")
    /\ \/ /\ life[previous.rt] = "running"
          /\ StopBegin(previous.rt)
          /\ at' = "retiring"
       \/ /\ life[previous.rt] # "running"
          /\ at' = "publish"
          /\ UNCHANGED <<life, commandVars>>
    /\ Unrecorded
    /\ UNCHANGED <<current, candidate, snapshot, created, store, wrote, routerVars>>

\* Shutdown returns; cells that failed to shut down make it an error.
Retired ==
    /\ at = "retiring"
    /\ StopEnd(previous.rt)
    /\ at' \in {"publish", "rollback"}
    /\ Unrecorded
    /\ UNCHANGED <<current, candidate, snapshot, created, wrote, routerVars, commandVars>>

Publish ==
    /\ at = "publish"
    /\ current' = [graph |-> desired, rt |-> candidate]
    /\ at' = "acknowledge"
    /\ Unrecorded
    /\ UNCHANGED <<candidate, snapshot, runtimeVars, routerVars, commandVars>>

----------------------------------------------------------------------------
(* rollback *)

\* Rollback gives the operator commands back when the swap was entered and
\* the previous runtime still has an access, then the router in any case.
RollbackCommands ==
    /\ at = "rollback"
    /\ IF stage \in {"swap", "health", "commit"} /\ life[previous.rt] = "running"
       THEN Promote(previous.rt)
       ELSE UNCHANGED commandVars
    /\ at' = "restore"
    /\ Unrecorded
    /\ UNCHANGED <<current, candidate, snapshot, runtimeVars, routerVars>>

\* Faulty variant: only a rollback after the swap restores the router.
RollbackRouterLate ==
    /\ at = "restore"
    /\ IF stage \in {"swap", "health", "commit"}
       THEN Activate(previous.rt)
       ELSE UNCHANGED routerVars
    /\ at' = IF candidate = NoRuntime THEN "conclude" ELSE "dispose"
    /\ Unrecorded
    /\ UNCHANGED <<current, candidate, snapshot, runtimeVars, commandVars>>

\* Faulty variant: a rollback before the swap leaves the candidate running.
RollbackRouterOnly ==
    /\ at = "restore"
    /\ Activate(previous.rt)
    /\ at' = IF stage \in {"swap", "health", "commit"} THEN "dispose" ELSE "conclude"
    /\ Unrecorded
    /\ UNCHANGED <<current, candidate, snapshot, runtimeVars, commandVars>>

RollbackRouter ==
    /\ at = "restore"
    /\ Activate(previous.rt)
    /\ at' = IF candidate = NoRuntime THEN "conclude" ELSE "dispose"
    /\ Unrecorded
    /\ UNCHANGED <<current, candidate, snapshot, runtimeVars, commandVars>>

\* The candidate is shut down, whoever is still calling it.
Dispose ==
    /\ at = "dispose"
    /\ StopBegin(candidate)
    /\ at' = "disposing"
    /\ Unrecorded
    /\ UNCHANGED <<current, candidate, snapshot, created, store, wrote, routerVars>>

Disposed ==
    /\ at = "disposing"
    /\ StopEnd(candidate)
    /\ at' = "conclude"
    /\ Unrecorded
    /\ UNCHANGED <<current, candidate, snapshot, created, wrote, routerVars, commandVars>>

----------------------------------------------------------------------------
(* clients and operators *)

\* The program registers an operator command.
RegisterCommand(m) ==
    /\ at # "down"
    /\ Register(m)
    /\ UNCHANGED <<at, current, candidate, snapshot, txVars, runtimeVars, budgetVars,
                   routerVars, journalVars>>

Elsewhere == UNCHANGED <<at, current, candidate, snapshot, txVars, budgetVars, journalVars>>

\* A client's call is admitted by the router.
Call(c) ==
    /\ at # "down"
    /\ Acquire(c)
    /\ Elsewhere
    /\ UNCHANGED <<runtimeVars, commandVars>>

\* The state a call on r leaves behind; a stopped runtime answers an error.
Execute(who, r) ==
    store' = IF life[r] = "stopped" THEN store ELSE [store EXCEPT ![r] = @ \cup {who}]

CallExecutes(c) ==
    /\ lease[c] # NoRuntime
    /\ c \notin wrote
    /\ Execute(c, lease[c])
    /\ wrote' = wrote \cup {c}
    /\ Elsewhere
    /\ UNCHANGED <<created, life, routerVars, commandVars>>

CallReturns(c) ==
    /\ c \in wrote
    /\ Release(c)
    /\ wrote' = wrote \ {c}
    /\ Elsewhere
    /\ UNCHANGED <<created, life, store, commandVars>>

\* An operator command: look up the access, enter it, execute and return.
CommandInvoked(o) ==
    /\ Invoke(o)
    /\ Elsewhere
    /\ UNCHANGED <<runtimeVars, routerVars>>

CommandEnters(o) ==
    /\ Enter(o)
    /\ Elsewhere
    /\ UNCHANGED <<runtimeVars, routerVars>>

CommandExecutes(o) ==
    /\ Return(o)
    /\ Execute(o, chosen[o])
    /\ Elsewhere
    /\ UNCHANGED <<created, life, wrote, routerVars>>

----------------------------------------------------------------------------
(* crash and restart *)

\* The record being written at each recording position.
Writing == [start |-> "started", record |-> "completed",
            acknowledge |-> "committed", conclude |-> "rolled_back"]

\* The process dies, perhaps inside Record.  `current` and `entries` keep
\* what the dead process knew, for the properties to compare with.
Crash ==
    /\ at # "down"
    /\ crashes < MaxCrashes
    /\ crashes' = crashes + 1
    /\ \/ Durable /\ at \in DOMAIN Writing /\ RecordError(RecordOf(Writing[at]))
       \/ (~Durable \/ at \notin DOMAIN Writing) /\ UNCHANGED journalVars
    /\ at' = "down"
    /\ life' = [r \in Runtime |-> IF r <= created THEN "stopped" ELSE "none"]
    /\ store' = [r \in Runtime |-> {}]
    /\ wrote' = {}
    /\ RouterReset(NoRuntime)
    /\ CommandsReset(NoRuntime)
    /\ UNCHANGED <<current, candidate, snapshot, txVars, created, faults>>

\* The host comes back as RecoveryState tells it to: it restores the graph
\* and admits traffic.
Restart ==
    /\ at = "down"
    /\ created < MaxRuntimes
    /\ OpenJournal
    /\ LET r == created + 1
       IN  /\ current' = [graph |-> Recovered(Complete), rt |-> r]
           /\ created' = r
           /\ life' = [life EXCEPT ![r] = "running"]
           /\ RouterReset(r)
           /\ CommandsReset(r)
    /\ previous' = current'
    /\ stage' = "prepare"
    /\ desired' = InitialGraph
    /\ candidate' = NoRuntime
    /\ snapshot' = {}
    /\ at' = "idle"
    /\ UNCHANGED <<tx, store, wrote, budgetVars>>

----------------------------------------------------------------------------

\* The steps the reconciler takes by itself once a transaction has begun.
ReconcileStep ==
    \/ RecordStarted \/ RecordCompleted \/ RecordCommitted \/ RecordRolledBack
    \/ PrepareStart \/ PrepareError \/ PrepareOk \/ StartFailure \/ Abandon
    \/ Quiesce \/ QuiesceDrained
    \/ Snapshot \/ Migrate \/ SwapCommands \/ SwapRouter \/ Health
    \/ Retire \/ Retired \/ Publish
    \/ RollbackCommands \/ RollbackRouter \/ Dispose \/ Disposed

Next ==
    \/ \E g \in Graph : Begin(g)
    \/ ReconcileStep
    \/ QuiesceCancelled
    \/ \E c \in Client : Call(c) \/ CallExecutes(c) \/ CallReturns(c)
    \/ \E m \in Command : RegisterCommand(m)
    \/ \E o \in Operator : CommandInvoked(o) \/ CommandEnters(o) \/ CommandExecutes(o)
    \/ Crash
    \/ Restart

\* A transaction that has begun runs on, and a call or a command that was
\* let in comes to its end (cells are interrupted after their call budget).
\* Nothing is assumed of callers, cancellation, crashes and restarts.
Fairness ==
    /\ WF_vars(ReconcileStep)
    /\ \A c \in Client : WF_vars(CallExecutes(c) \/ CallReturns(c))
    /\ \A o \in Operator : WF_vars(CommandEnters(o) \/ CommandExecutes(o))

Spec == Init /\ [][Next]_vars /\ Fairness

----------------------------------------------------------------------------
(* properties *)

TypeOK ==
    /\ at \in At
    /\ stage \in Stage
    /\ tx \in 0..MaxTx
    /\ current \in Deployment
    /\ previous \in Deployment
    /\ desired \in Graph
    /\ candidate \in Runtime \cup {NoRuntime}
    /\ snapshot \in SUBSET (Client \cup Operator)
    /\ created \in Runtime
    /\ life \in [Runtime -> {"none", "running", "stopping", "stopped"}]
    /\ store \in [Runtime -> SUBSET (Client \cup Operator)]
    /\ wrote \in SUBSET Client
    /\ faults \in 0..MaxFaults
    /\ crashes \in 0..MaxCrashes
    /\ RouterTypeOK
    /\ CommandsTypeOK
    /\ JournalTypeOK

\* Between transactions new calls are admitted, and to the runtime of the
\* deployment the reconciler reports, however the last transaction ended
\* (commit, rollback from any stage, a failed record).
RouterFollowsReconciler ==
    at = "idle" => accepting /\ target = current.rt

\* No transaction leaves a runtime behind: between transactions only the
\* current one is not stopped, whichever phase failed.
OnlyCurrentRuns ==
    at = "idle" => \A r \in Runtime : life[r] \in {"running", "stopping"} => r = current.rt

\* A commit loses nothing that a call through the router did to the previous
\* runtime: calls are drained before the snapshot and none starts after it.
CommitKeepsCalls ==
    InPhase("commit") => (store[previous.rt] \cap Client) \subseteq store[candidate]

\* Which work can be pulled from under: a runtime that stops, for whatever
\* reason, has no call of the router in it, except for a candidate that is
\* rolled back after the swap (Rollback shuts it down without a drain).  A
\* command that entered a runtime finishes before its cells are shut down,
\* always.
WorkIsJoined ==
    /\ \A r \in Runtime : life[r] = "stopping" /\ Admitted(r) # {} =>
          at = "disposing" /\ stage \in {"swap", "health", "commit"}
    /\ \A o \in Operator : entered[o] => life[chosen[o]] \in {"running", "stopping"}

\* OpenFileJournal would read back everything Record acknowledged.
Readable == Intact /\ IsPrefix(entries, Complete)

\* A Record is written behind the remains of one that failed before it in the
\* same process, which Record neither removes nor counts.
WritesBehindRemains == at # "down" /\ failed /\ disk # entries /\ disk' # disk

\* Everything Record acknowledged stays readable, through a crash at any
\* moment (also one that tears the line being written), through restarts and
\* failed writes.  The one step that can lose it is a further Record behind
\* what a failed one left in the file.
AcknowledgedSurvives == [][Readable => Readable' \/ WritesBehindRemains]_vars

\* "JournalEntry is an integrity-chained, append-only deployment record"; only
\* a torn final write needs repair: the file can be opened at any moment.
FileIsChained == Intact

\* The graph that RecoveryState makes a host restore is the one that served:
\* always, as long as records could be written and no transaction committed
\* after an unfinished one.  In the window between a commit and its record it
\* may be the previous one.
RecoveryFindsAuthority ==
    LET js == Complete
        overtaken == \E i \in Incomplete(js), n \in Committed(js) : i < n
    IN  faults = 0 /\ ~overtaken =>
            Recovered(js) \in {current.graph} \cup
                (IF at \in {"acknowledge", "down"} THEN {previous.graph} ELSE {})

\* A transaction comes to an end: the drain is signalled, revoked access is
\* left, and rollback finishes.
TransactionEnds == at \notin {"idle", "down"} ~> at \in {"idle", "down"}

\* "cancellation or any phase failure leaves the previous deployment
\* authoritative": between transactions the current deployment is running.
AuthoritativeServes == at = "idle" => life[current.rt] = "running"

============================================================================
