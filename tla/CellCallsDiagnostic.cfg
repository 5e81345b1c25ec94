CONSTANTS
    front = front
    store = store
    Cell <- MCCell
    Provider = {front, store}
    Links <- MCLinks
    DependsOn <- MCLinks
    Inbound = {front}
    Restarting = {store}
    Snapshotable = {front, store}
    Granted = {front, store}
    Foreign = {k1}
    Access = {a1}
    MaxInstances = 2
    MaxEvents = 1
    MaxCalls = 2
    MaxDeadlines = 0
    MaxSnapshots = 0
SPECIFICATION Spec
INVARIANT
    OrdinaryErrorsKeepModule
CHECK_DEADLOCK FALSE
