SPECIFICATION FairSpec
CONSTANTS
    NProc = 3
    NSync = 2
    Event = {"e", "m"}
    MemberEvent = {"m"}
    MaxOps <- MCMaxOps
INVARIANTS
    HeldOnce
    EventSeenByAll
    JoinExact
PROPERTIES
    IteratedUnchanged
    WaitForkReturns
