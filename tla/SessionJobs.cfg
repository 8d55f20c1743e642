CONSTANTS
    a = a
    b = b
    h = h
    None = None
    NoStep = None
    Facets <- MCFacets
    StateFacets = {h}
    AbstractFacets = {}
    StepOf <- MCStepOf
    Plans <- MCPlans
    Batches <- OneBatch
    Requests = {r1, r2, r3}
    Jobs = {j1, j2}
    Serves = {"apply", "start", "cancel", "stop"}
    Queries <- JobQueries
    JobLimit = 1
    Faults = {"capacity", "error"}
SYMMETRY Twins
SPECIFICATION Spec
INVARIANTS
    OneActiveJob
    CountExact
PROPERTY
    TerminalIsFinal
CHECK_DEADLOCK FALSE
