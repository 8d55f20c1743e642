SPECIFICATION FairSpec
CONSTANTS
    Worker = w
    Stoppers = {s1}
    MaxProcesses = 2
    MaxCommands = 2
    Faults = {"die", "prepare"}
INVARIANTS AnswerBelongs AcknowledgedIsLoaded
PROPERTIES WorkerKeepsProcess CallsEnd
CHECK_DEADLOCK FALSE
