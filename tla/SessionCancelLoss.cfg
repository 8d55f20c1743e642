CONSTANTS
    a = a
    b = b
    h = h
    None = None
    NoStep = None
    Facets <- MCFacets
    StateFacets = {h}
    AbstractFacets = {}
    StepOf <- MCStepOf
    Plans <- MCPlans
    Batches <- MCBatches
    Requests = {r1, r2}
    Jobs = {j1}
    Serves = {"start", "cancel"}
    Queries <- CountQuery
    JobLimit = 1
    Faults = {}
SPECIFICATION Spec
INVARIANT SolverKept
CHECK_DEADLOCK FALSE
