CONSTANTS
    Cell = {web, worker}
    Inbound = {web}
    Restarting = {web}
    FailedAtStart = {worker}
    ChanSize = 1
    RestartLimit = 1
    MaxEvents = 1
    MaxTraps = 0
    Conn = {k1}
    MaxReloads = 0
SPECIFICATION Spec
PROPERTY
    ShutdownAllExits
CHECK_DEADLOCK FALSE
