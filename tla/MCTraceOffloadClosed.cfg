SPECIFICATION FairSpec
CONSTANTS
    MaxBuffers = 3
    Value = {0, 1}
    MaxTime = 4
    MaxOpens = 2
    MaxFlushes = 1
    FlushWhenClosed = TRUE
PROPERTY CallsReturn
CHECK_DEADLOCK FALSE
