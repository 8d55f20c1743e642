CONSTANTS
    a = a
    b = b
    h = h
    None = None
    NoStep = None
    Facets <- MCFacets
    StateFacets = {h}
    AbstractFacets = {}
    StepOf <- MCStepOf
    Plans <- MCPlans
    Batches <- OneBatch
    Requests = {r1, r2, r3}
    Jobs = {j1}
    Serves = {"apply", "start", "cancel", "stop"}
    Queries <- ImpactQueries
    JobLimit = 1
    Faults = {}
SPECIFICATION FairSpec
PROPERTIES
    RequestsEnd
    JobsEnd
CHECK_DEADLOCK FALSE
