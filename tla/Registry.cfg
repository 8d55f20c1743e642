CONSTANTS
    Clients = {c1, c2, c3, c4}
    Cleaner = cleaner
    Closer = closer
    Ids = {s1, s2}
    Serves = {"create", "use", "delete"}
    Effects = {"none", "restart", "restore", "lose", "giveUp"}
    MaxActive = 1
    MaxCreations = 2
    None = None
SYMMETRY Twins
SPECIFICATION Spec
INVARIANTS
    WithinLimit
    SlotsConserved
    StoppedByOne
PROPERTIES
    SolverAccounted
CHECK_DEADLOCK FALSE
