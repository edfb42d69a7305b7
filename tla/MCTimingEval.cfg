SPECIFICATION FairSpec
CONSTANTS
    NCoro = 2
    Item = {"e", "x", "n"}
    ChangeItem = {"x"}
    Scheds <- MCScheds
    WaitScheds = {1}
    NbaSched = 3
    NRegions = 2
    ConvergeLimit = 2
    Delays = {0, 1, 2}
    MaxRuns <- MCMaxRuns
    MaxFires = 2
INVARIANTS
    HeldOnce
    EvalQuiescent
    NoMissedSlot
    TriggersReachRegions
PROPERTIES
    PreOnce
    DelayEnds
