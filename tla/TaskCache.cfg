SPECIFICATION FairSpec
CONSTANTS
    Creators = {c1, c2}
    Modes = {exact, bounded}
    Supplies = {0, 3}
    PlanLength = 2
    Faults = {"fail", "timeout", "crash", "vanish", "orphan"}
    None = None
INVARIANTS RowNeverPartial HorizonRight LpNeverPartial UnhurtSucceeds
PROPERTY CreationsEnd
CHECK_DEADLOCK FALSE
