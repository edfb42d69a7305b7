SPECIFICATION FairSpec
CONSTANTS
    Worker = {w1, w2, w3}
    MaxJobs = 4
    SizeMod = 8
INVARIANTS
    CompletedInScope
    PendingExact
PROPERTY WaitsReturn
