CONSTANTS
    Infinity = 1000000
    Tasks <- MCTasks
    TrueCosts <- MCTrueCosts
    Estimates <- MCEstimates
    Successors <- MCSuccessors
    Arcs <- MCArcs
    Prunings <- MCPrunings
    Images <- MCImages
    Patterns <- MCPatterns
    Abstractions <- MCAbstractions
    Landmarks <- MCLandmarks
    Cuts <- MCCuts
    Searches <- AllSearches
SPECIFICATION Spec
INVARIANTS
    SearchSound
    Ordered
    Faithful
    AbstractionsAdmissible
    CollectionsSound
    LandmarksSound
PROPERTIES
    ImplementsSearchSpace
    ImplementsLandmarkCuts
    Terminates
