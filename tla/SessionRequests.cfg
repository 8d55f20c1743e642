CONSTANTS
    a = a
    b = b
    h = h
    None = None
    NoStep = None
    Facets <- MCFacets
    StateFacets = {h}
    AbstractFacets = {}
    StepOf <- MCStepOf
    Plans <- MCPlans
    Batches <- MCBatches
    Requests = {r1, r2, r3}
    Jobs = {}
    Serves = {"apply", "query", "stop"}
    Queries <- AllQueries
    JobLimit = 1
    Faults = {"capacity", "error"}
SYMMETRY RequestTwins
SPECIFICATION Spec
INVARIANTS
    SolverInSync
    SolutionFits
    ViewFits
PROPERTIES
    AnswersTruthful
    ImplementsStore
CHECK_DEADLOCK FALSE
