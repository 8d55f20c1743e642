CONSTANTS
    Clients = {c1, c2}
    Cleaner = cleaner
    Closer = closer
    Ids = {s1}
    Serves = {"create", "use", "delete", "health"}
    Effects = {"none"}
    MaxActive = 1
    MaxCreations = 1
    None = None
SPECIFICATION FairSpec
PROPERTIES
    ClientsEnd
    ExpiredGo
CHECK_DEADLOCK FALSE
