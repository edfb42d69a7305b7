SPECIFICATION FairSpec
CONSTANTS
    MTask <- MCMTask
    Edge <- MCEdge
    NSched <- MCNSched
    NFuncs <- MCNFuncs
    Body <- MCBody
    FnOf <- MCFnOf
    PosOf <- MCPosOf
    NWorkers = 3
INVARIANTS
    DependenciesRespected
    NoStaleReadiness
PROPERTY EvalReturns
