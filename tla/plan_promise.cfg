SPECIFICATION Spec
CONSTANTS
    Relations <- MCRelations
    Chunks <- MCChunks
    Plans <- AllPlans
    Parallelism = 3
    MayFail = TRUE
    LateCommit = TRUE
    MayInterrupt = TRUE
INVARIANT
    RegisteredBeforeWritten
PROPERTIES
    KeepsPromise
    Termination
