SPECIFICATION Spec
CONSTANTS
    h1 = h1
    h2 = h2
    u1 = u1
    u2 = u2
    u3 = u3
    Host <- MCHost
    Upload <- MCUpload
    Instances <- MCInstances
    ModuleIDs <- MCModuleIDs
    Fetches <- MCFetches
    Outages <- SomeUnanswered
INVARIANTS ReleaseIsComplete ResolutionIsExact FusedMatchesRecipe LayoutIsSound
PROPERTIES ReleasesAreImmutable LockIsStable
CHECK_DEADLOCK FALSE
