CONSTANTS
    Cell = {web, worker}
    Inbound = {web}
    Restarting = {web}
    FailedAtStart = {}
    ChanSize = 2
    RestartLimit = 1
    MaxEvents = 3
    MaxTraps = 1
    Conn = {k1}
    MaxReloads = 1
SPECIFICATION Spec
INVARIANTS
    SlotsAccounted
    EventOnlyCellsInOrder
    QuietExit
CHECK_DEADLOCK FALSE
