SPECIFICATION FairSpec
CONSTANTS
    MaxBuffers = 3
    Value = {0, 1}
    MaxTime = 4
    MaxOpens = 2
    MaxFlushes = 1
    FlushWhenClosed = FALSE
INVARIANTS
    BuffersConserved
    CallerWritesAlone
    WaveformExact
PROPERTIES
    ImplementsFile
    CallsReturn
