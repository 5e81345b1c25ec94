--------------------------- MODULE RuntimeRouter ---------------------------
(***************************************************************************)
(* AtomicRuntimeRouter (run/live_application_runtime.go): the indirection  *)
(* through which every call reaches the application runtime that serves it.*)
(* Runtimes are numbered in the order they are created; each client is a   *)
(* goroutine that makes one call after another.  A lease pins a call to    *)
(* the runtime that was the target when it was admitted.                   *)
(***************************************************************************)
EXTENDS Naturals, FiniteSets

CONSTANTS
    Client,        \* goroutines that call the application
    MaxRuntimes    \* bound: runtimes created during a behaviour

ASSUME ClientAssumption == IsFiniteSet(Client)
ASSUME MaxRuntimesAssumption == MaxRuntimes \in Nat \ {0}

Runtime == 1..MaxRuntimes
NoRuntime == 0

VARIABLES
    target,        \* AtomicRuntimeRouter.target
    accepting,     \* AtomicRuntimeRouter.accepting
    inflight,      \* AtomicRuntimeRouter.inflight
    drained,       \* whether AtomicRuntimeRouter.drained is a channel (not nil)
    lease          \* the runtime a client's call is admitted to, or NoRuntime

routerVars == <<target, accepting, inflight, drained, lease>>

\* The clients admitted to a runtime.
Admitted(r) == {c \in Client : lease[c] = r}

\* NewAtomicRuntimeRouter.
RouterInit(r) ==
    /\ target = r
    /\ accepting = TRUE
    /\ inflight = 0
    /\ drained = FALSE
    /\ lease = [c \in Client |-> NoRuntime]

\* A fresh router after a restart.
RouterReset(r) ==
    /\ target' = r
    /\ accepting' = TRUE
    /\ inflight' = 0
    /\ drained' = FALSE
    /\ lease' = [c \in Client |-> NoRuntime]

Acquire(c) ==
    /\ lease[c] = NoRuntime
    /\ accepting
    /\ target # NoRuntime
    /\ inflight' = inflight + 1
    /\ lease' = [lease EXCEPT ![c] = target]
    /\ UNCHANGED <<target, accepting, drained>>

\* Faulty variant: the waiter of Quiesce is never signalled.
ReleaseUnsignalled(c) ==
    /\ lease[c] # NoRuntime
    /\ inflight' = inflight - 1
    /\ lease' = [lease EXCEPT ![c] = NoRuntime]
    /\ UNCHANGED <<target, accepting, drained>>

\* release: the last call out closes the drained channel and forgets it.
Release(c) ==
    /\ lease[c] # NoRuntime
    /\ inflight' = inflight - 1
    /\ lease' = [lease EXCEPT ![c] = NoRuntime]
    /\ drained' = (drained /\ inflight' # 0)
    /\ UNCHANGED <<target, accepting>>

\* Faulty variant: calls are drained, new ones are still admitted.
CloseAdmissionOpen ==
    /\ drained' = (drained \/ inflight # 0)
    /\ UNCHANGED <<target, accepting, inflight, lease>>

\* The locked part of Quiesce: reject new calls and, if some are in flight,
\* share the channel that the last of them will close.
CloseAdmission ==
    /\ accepting' = FALSE
    /\ drained' = (drained \/ inflight # 0)
    /\ UNCHANGED <<target, inflight, lease>>

\* What the unlocked part of Quiesce waits for.  The channel it waits on is
\* the one in the field until release closes it and sets the field to nil.
DrainDone == ~drained

Activate(r) ==
    /\ target' = r
    /\ accepting' = TRUE
    /\ UNCHANGED <<inflight, drained, lease>>

RouterTypeOK ==
    /\ target \in Runtime \cup {NoRuntime}
    /\ accepting \in BOOLEAN
    /\ inflight \in Nat
    /\ drained \in BOOLEAN
    /\ lease \in [Client -> Runtime \cup {NoRuntime}]

============================================================================
