CONSTANTS
    Client = {c1, c2}
    Operator = {o1}
    Command = {m1}
    Graph = {g1, g2}
    InitialGraph = g1
    Durable = FALSE
    MaxRuntimes = 3
    MaxTx = 2
    MaxFaults = 0
    MaxCrashes = 0
SPECIFICATION Spec
INVARIANTS
    RouterFollowsReconciler
    OnlyCurrentRuns
    WorkIsJoined
    CommitKeepsCalls
PROPERTIES
    TransactionEnds
CHECK_DEADLOCK FALSE
