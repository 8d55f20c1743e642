CONSTANTS
    a = a
    b = b
    h = h
    None = None
    NoStep = None
    Facets <- MCFacets
    StateFacets = {h}
    AbstractFacets = {}
    StepOf <- MCStepOf
    Plans <- MCPlans
    Batches <- MCBatches
    Requests = {r1, r2}
    Jobs = {}
    Serves = {"apply", "stop"}
    Queries <- AllQueries
    JobLimit = 1
    Faults = {}
SPECIFICATION Spec
INVARIANT NoSolverLeft
CHECK_DEADLOCK FALSE
