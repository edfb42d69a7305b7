SPECIFICATION FairSpec
CONSTANTS
    NCoro = 2
    Item = {"d", "e", "n"}
    ChangeItem = {}
    Scheds <- MCMulti
    WaitScheds = {}
    NbaSched = 2
    NRegions = 1
    ConvergeLimit = 4
    Delays = {1}
    MaxRuns <- MCMaxRuns
    MaxFires = 2
PROPERTY CommitOnlyUntriggered
