CONSTANTS
    front = front
    store = store
    Cell <- MCCell
    Provider = {store}
    Links <- MCLinks
    DependsOn <- MCLinks
    Inbound = {store}
    Restarting = {front}
    Snapshotable = {front, store}
    Granted = {store}
    Foreign = {k1}
    Access = {a1}
    MaxInstances = 2
    MaxEvents = 1
    MaxCalls = 2
    MaxDeadlines = 0
    MaxSnapshots = 1
SPECIFICATION Spec
PROPERTIES
    WorkEnds
CHECK_DEADLOCK FALSE
