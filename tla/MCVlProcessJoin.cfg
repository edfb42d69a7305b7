SPECIFICATION FairSpec
CONSTANTS
    NProc = 3
    NSync = 2
    Event = {"e", "m"}
    MemberEvent = {"m"}
    MaxOps <- MCMaxOps
INVARIANT JoinNotStranded
