CONSTANTS
    N = 4
    MaxParallel = {0, 2}
SPECIFICATION Spec
INVARIANTS
    PlanIsOrdered
    DependenciesFirst
    SuccessMeansAll
PROPERTIES
    Terminates
CHECK_DEADLOCK FALSE
