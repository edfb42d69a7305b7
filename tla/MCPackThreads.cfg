SPECIFICATION FairSpec
CONSTANTS
    Inputs <- MCInputs
    NThreads = 2
    NHierThreads = 6
    SandbagNumerator = 3
    SandbagDenom = 10
INVARIANTS
    OrderKept
    NoCircularWait
    PackedOnce
    PredictedTimes
    WideAlone
    SelfTest
