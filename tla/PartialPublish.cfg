SPECIFICATION Spec
CONSTANTS
    h1 = h1
    h2 = h2
    u1 = u1
    u2 = u2
    u3 = u3
    Host <- MCHost
    Upload <- MCUpload
    Instances <- FusionInstances
    ModuleIDs <- MCModuleIDs
    Fetches <- MCFetches
    Outages <- Reachable
INVARIANT MissingIsBuilt
CHECK_DEADLOCK FALSE
