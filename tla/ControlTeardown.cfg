CONSTANTS
    Cell = {web, worker}
    Inbound = {web}
    Restarting = {web}
    FailedAtStart = {}
    ChanSize = 1
    RestartLimit = 1
    MaxEvents = 1
    MaxTraps = 0
    Conn = {k1, k2}
    MaxReloads = 1
SPECIFICATION Spec
INVARIANT
    TearsDownOnce
CHECK_DEADLOCK FALSE
