----------------------------- MODULE Scheduler -----------------------------
(***************************************************************************)
(* Execute (internal/dependency/scheduler.go): run every node of a plan as *)
(* soon as its dependencies are done, at most `limit` at a time, and stop  *)
(* starting nodes at the first failure.  One goroutine runs the loop and   *)
(* one worker goroutine each running node; they meet in the channel done.  *)
(*                                                                         *)
(* The queue is kept sorted by ordinal, so it is a set whose head is its   *)
(* least member.  Work may fail at any time, of itself or because its      *)
(* context was cancelled.                                                  *)
(***************************************************************************)
EXTENDS DependencyPlan, Sequences

CONSTANT MaxParallel    \* the values of maxParallel that callers pass

ASSUME MaxParallelAssumption == MaxParallel \subseteq Nat

VARIABLES
    deps,        \* the plan: a graph Build accepts (BuildIsExact)
    limit,       \* how many nodes may run at once
    at,          \* where the loop is: "enter", "loop" or "returned"
    remaining,   \* dependencies of a node that have not completed
    queue,       \* nodes ready to be launched
    running,     \* launched nodes whose completion has not been received
    working,     \* the nodes whose worker is still in run
    done,        \* the channel: completions [id, ok] in the order sent
    completed,   \* nodes that completed without an error
    failures,    \* nodes that completed with an error
    failed,      \* whether a failure has been received
    cancelled,   \* whether the caller's context has ended
    result       \* what Execute returned: "none", "ok", "error" or "cancelled"

vars == <<deps, limit, at, remaining, queue, running, working, done,
          completed, failures, failed, cancelled, result>>

\* maxParallel <= 0 means as many as there are nodes, and so does more.
LimitFor(m) == IF m = 0 \/ m > N THEN N ELSE m

Least(S) == CHOOSE n \in S : \A m \in S : n <= m

Init ==
    /\ deps \in {d \in Graphs : Acyclic(d)}
    /\ limit \in {LimitFor(m) : m \in MaxParallel}
    /\ at = "enter"
    /\ remaining = [n \in Node |-> Cardinality(deps[n])]
    /\ queue = {n \in Node : deps[n] = {}}
    /\ running = 0
    /\ working = {}
    /\ done = <<>>
    /\ completed = {}
    /\ failures = {}
    /\ failed = FALSE
    /\ cancelled = FALSE
    /\ result = "none"

\* A context that has ended before Execute starts stops it at once.
Enter ==
    /\ at = "enter"
    /\ at' = IF cancelled THEN "returned" ELSE "loop"
    /\ result' = IF cancelled THEN "cancelled" ELSE "none"
    /\ UNCHANGED <<deps, limit, remaining, queue, running, working, done,
                   completed, failures, failed, cancelled>>

\* The inner loop launches nodes under this condition.
MayLaunch == ~failed /\ running < limit /\ queue # {}

Launch ==
    /\ at = "loop"
    /\ MayLaunch
    /\ queue' = queue \ {Least(queue)}
    /\ running' = running + 1
    /\ working' = working \cup {Least(queue)}
    /\ UNCHANGED <<deps, limit, at, remaining, done, completed, failures, failed,
                   cancelled, result>>

\* A worker sends its completion; the channel has room for limit of them.
WorkerDone(n) ==
    /\ n \in working
    /\ Len(done) < limit
    /\ working' = working \ {n}
    /\ \E ok \in BOOLEAN : done' = Append(done, [id |-> n, ok |-> ok])
    /\ UNCHANGED <<deps, limit, at, remaining, queue, running, completed, failures,
                   failed, cancelled, result>>

\* The nodes that wait for n.
Dependents(n) == {m \in Node : n \in deps[m]}

\* Faulty variant: a node is queued when one of its dependencies completes.
ReadyAtOnce(n) == Dependents(n)
\* Faulty variant: the counter is compared before it is decremented.
ReadyTooLate(n) == {m \in Dependents(n) : remaining[m] = 0}
\* The nodes whose counter reaches zero when n completes.
ReadyAfter(n) == {m \in Dependents(n) : remaining[m] = 1}

\* A node completed: it counts, and unless a node has failed its dependents
\* come one step closer.
ReceiveOk ==
    LET n == Head(done).id
    IN  /\ Head(done).ok
        /\ completed' = completed \cup {n}
        /\ IF failed
           THEN UNCHANGED <<remaining, queue>>
           ELSE /\ remaining' = [m \in Node |-> IF m \in Dependents(n)
                                                THEN remaining[m] - 1 ELSE remaining[m]]
                /\ queue' = queue \cup ReadyAfter(n)
        /\ UNCHANGED <<failures, failed>>

\* A node failed: from now on nothing is launched.
ReceiveError ==
    /\ ~Head(done).ok
    /\ failures' = failures \cup {Head(done).id}
    /\ failed' = TRUE
    /\ UNCHANGED <<completed, remaining, queue>>

\* Faulty variant: a received completion still counts as running.
ReceiveUncounted ==
    /\ at = "loop"
    /\ ~MayLaunch
    /\ running > 0
    /\ done # <<>>
    /\ done' = Tail(done)
    /\ ReceiveOk \/ ReceiveError
    /\ UNCHANGED <<deps, limit, at, running, working, cancelled, result>>

\* The loop blocks on the channel once it has nothing to launch.
Receive ==
    /\ at = "loop"
    /\ ~MayLaunch
    /\ running > 0
    /\ done # <<>>
    /\ done' = Tail(done)
    /\ running' = running - 1
    /\ ReceiveOk \/ ReceiveError
    /\ UNCHANGED <<deps, limit, at, working, cancelled, result>>

\* When the loop ends.
LoopEnds == running = 0 /\ (failed \/ queue = {})

Return ==
    /\ at = "loop"
    /\ LoopEnds
    /\ at' = "returned"
    /\ result' = IF failures # {} THEN "error" ELSE IF cancelled THEN "cancelled" ELSE "ok"
    /\ UNCHANGED <<deps, limit, remaining, queue, running, working, done,
                   completed, failures, failed, cancelled>>

\* The caller's context ends.
Cancel ==
    /\ ~cancelled
    /\ at # "returned"
    /\ cancelled' = TRUE
    /\ UNCHANGED <<deps, limit, at, remaining, queue, running, working, done,
                   completed, failures, failed, result>>

Next ==
    \/ Enter \/ Launch \/ Receive \/ Return \/ Cancel
    \/ \E n \in Node : WorkerDone(n)

\* The loop runs on, and run returns for every node that was launched.
Fairness ==
    /\ WF_vars(Enter \/ Launch \/ Receive \/ Return)
    /\ \A n \in Node : WF_vars(WorkerDone(n))

Spec == Init /\ [][Next]_vars /\ Fairness

----------------------------------------------------------------------------
(* properties *)

InDone == {done[i].id : i \in DOMAIN done}
Launched == working \cup InDone \cup completed \cup failures

TypeOK ==
    /\ deps \in Graphs
    /\ limit \in 1..N
    /\ at \in {"enter", "loop", "returned"}
    /\ remaining \in [Node -> Nat]
    /\ queue \in SUBSET Node
    /\ running \in 0..limit
    /\ working \in SUBSET Node
    /\ done \in Seq([id : Node, ok : BOOLEAN])
    /\ completed \in SUBSET Node
    /\ failures \in SUBSET Node
    /\ failed \in BOOLEAN
    /\ cancelled \in BOOLEAN
    /\ result \in {"none", "ok", "error", "cancelled"}

\* Build accepts exactly the graphs without a cycle, and its start order puts
\* every node after its dependencies.
PlanIsOrdered ==
    /\ BuildIsExact
    /\ \A n \in Node : \A m \in deps[n] : StartsBefore(deps, m, n)

\* A node is launched only when every dependency has completed successfully,
\* in whatever order completions arrive.
DependenciesFirst == \A n \in Launched : deps[n] \subseteq completed

\* A worker never blocks on the channel, also when the loop has failed.
ChannelHasRoom == working # {} => Len(done) < limit

\* Execute returns only when no worker is left, neither running nor waiting
\* to be received.
NoWorkerLeft == at = "returned" => working = {} /\ done = <<>> /\ running = 0

\* Success means that the whole plan ran.
SuccessMeansAll == result = "ok" => completed = Node

\* Execute returns.
Terminates == at = "loop" ~> at = "returned"

============================================================================
