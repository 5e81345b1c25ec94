--------------------------- MODULE DependencyPlan ---------------------------
(***************************************************************************)
(* Build (internal/dependency/plan.go): the validated dependency graph.    *)
(* Nodes are numbered by their ordinal, the place of their item in the     *)
(* input; d[n] are the dependencies item n lists.  Build peels off one     *)
(* level after another: a node is ready when its last dependency has been  *)
(* placed in an earlier level, and a level is in ordinal order.            *)
(***************************************************************************)
EXTENDS Naturals, FiniteSets

CONSTANT N      \* how many items the plan has

ASSUME NAssumption == N \in Nat \ {0}

Node == 1..N
Graphs == [Node -> SUBSET Node]

\* The nodes in the first k levels.
Placed(d) ==
    LET placed[k \in Nat] ==
            IF k = 0
            THEN {}
            ELSE LET earlier == placed[k - 1]
                 IN  {n \in Node : d[n] \subseteq earlier}
    IN  placed

\* Faulty variant: the nodes that were placed are not counted.
AcceptedUncounted(d) == \A n \in Node : n \notin d[n]

\* Build succeeds: no node depends on itself, and N rounds place every node.
Accepted(d) ==
    /\ \A n \in Node : n \notin d[n]
    /\ Placed(d)[N] = Node

\* levelByID.
LevelOf(d, n) == CHOOSE k \in 0..(N - 1) : n \in Placed(d)[k + 1] \ Placed(d)[k]

\* m comes before n in startOrder, and after n in stopOrder.
StartsBefore(d, m, n) ==
    \/ LevelOf(d, m) < LevelOf(d, n)
    \/ LevelOf(d, m) = LevelOf(d, n) /\ m < n

\* What a plan is for, without levels: whatever part of the graph one looks
\* at, something in it depends on nothing else in it.
Acyclic(d) == \A S \in SUBSET Node : S # {} => \E n \in S : d[n] \cap S = {}

\* Build accepts exactly the graphs without a cycle.
BuildIsExact == \A d \in Graphs : Accepted(d) <=> Acyclic(d)

============================================================================
