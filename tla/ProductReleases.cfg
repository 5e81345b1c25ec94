SPECIFICATION Spec
CONSTANTS
    Shells = {s1, s2}
    Earlier <- MCEarlier
    Checkout <- MCCheckout
    Edits <- MCEdits
    PathsLeadBack = TRUE
    MaxEdits = 1
    MaxEffort = 6
    EffortOf <- MCEffortOf
    MaxFailures = 1
SYMMETRY MCSymmetry
INVARIANTS
    ActiveIsIntact
    FailedRefreshRestores
    PackageEmbedsItself
CHECK_DEADLOCK FALSE
