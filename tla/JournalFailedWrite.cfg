CONSTANTS
    Client = {}
    Operator = {}
    Command = {}
    Graph = {g1, g2}
    InitialGraph = g1
    Durable = TRUE
    MaxRuntimes = 3
    MaxTx = 1
    MaxFaults = 1
    MaxCrashes = 0
SPECIFICATION Spec
INVARIANT FileIsChained
CHECK_DEADLOCK FALSE
