CONSTANTS
    Inputs <- MCInputs
    Threads = 2
    MaxMTasks = 4
    Steps <- MCSteps
SPECIFICATION Spec
INVARIANTS
    SoundPartition
    WritersOrdered
    CriticalPathsClose
    ScoresClose
    PropagateOnce
    PathWithinBudget
PROPERTIES
    Terminates
