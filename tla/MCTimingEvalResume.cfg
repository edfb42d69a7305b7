SPECIFICATION FairSpec
CONSTANTS
    NCoro = 2
    Item = {"e", "n"}
    ChangeItem = {}
    Scheds <- MCSingle
    WaitScheds = {}
    NbaSched = 2
    NRegions = 1
    ConvergeLimit = 4
    Delays = {1}
    MaxRuns <- MCMaxRuns
    MaxFires = 2
INVARIANT NoResumeBeforeWaiting
