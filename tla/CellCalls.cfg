CONSTANTS
    front = front
    store = store
    Cell <- MCCell
    Provider = {front, store}
    Links <- MCLinks
    DependsOn <- MCLinks
    Inbound = {}
    Restarting = {store}
    Snapshotable = {front, store}
    Granted = {front, store}
    Foreign = {k1}
    Access = {a1}
    MaxInstances = 3
    MaxEvents = 1
    MaxCalls = 2
    MaxDeadlines = 1
    MaxSnapshots = 1
SPECIFICATION Spec
INVARIANTS
    GuestOwnsModule
    SnapshotIsQuiet
    OnlyDeadReplaced
    NoModuleLost
    StopsQuietly
CHECK_DEADLOCK FALSE
