CONSTANTS
    Client = {}
    Operator = {}
    Command = {}
    Graph = {g1, g2}
    InitialGraph = g1
    Durable = TRUE
    MaxRuntimes = 6
    MaxTx = 3
    MaxFaults = 1
    MaxCrashes = 2
SPECIFICATION Spec
INVARIANT RecoveryFindsAuthority
PROPERTY AcknowledgedSurvives
CHECK_DEADLOCK FALSE
