CONSTANTS
    a = a
    b = b
    c = c
    h = h
    z = z
    None = None
    NoCount = None
    Facets <- MCFacets
    StateFacets = {h}
    AbstractFacets = {z}
    StepOf <- MCStepOf
    NoStep = None
    Plans <- MCPlans
    Batches <- MCBatches
    Clients = {c1, c2, c3}
    Getters = {c1}
    MaxRevision = 2
    MaxPlans = 5
    MaxNumber = 6
    MaxSpaces = 1
    Limit = 3
SPECIFICATION PartsSpec
INVARIANTS
    LoopMeetsClosedForm
    NeverTwoPositives
    ImpactPartitions
    StaleRefused
    RepeatNeedsNoFasb
PROPERTY
    ImplementsPlanList
CHECK_DEADLOCK FALSE
