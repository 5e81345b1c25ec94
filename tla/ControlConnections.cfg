CONSTANTS
    Cell = {web, worker}
    Inbound = {web}
    Restarting = {web}
    FailedAtStart = {worker}
    ChanSize = 1
    RestartLimit = 1
    MaxEvents = 1
    MaxTraps = 1
    Conn = {k1, k2}
    MaxReloads = 2
SPECIFICATION Spec
INVARIANTS
    TeardownJoinsLoop
    JoinIsAnswered
CHECK_DEADLOCK FALSE
