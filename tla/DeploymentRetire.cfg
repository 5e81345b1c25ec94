CONSTANTS
    Client = {}
    Operator = {}
    Command = {}
    Graph = {g1, g2}
    InitialGraph = g1
    Durable = FALSE
    MaxRuntimes = 3
    MaxTx = 2
    MaxFaults = 0
    MaxCrashes = 0
SPECIFICATION Spec
INVARIANT AuthoritativeServes
CHECK_DEADLOCK FALSE
