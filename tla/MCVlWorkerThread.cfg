SPECIFICATION FairSpec
CONSTANTS
    Caller = {c1, c2}
    Owner = owner
    MaxCalls = 2
    Idle = Idle
INVARIANTS
    NoLostWakeup
    FlagFrameAlive
PROPERTIES
    WaitDrains
    DestructorReturns
    ImplementsTaskQueue
