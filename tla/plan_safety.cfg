SPECIFICATION Spec
CONSTANTS
    Relations <- MCRelations
    Chunks <- MCChunks
    Plans <- AllPlans
    Parallelism = 2
    MayFail = TRUE
    LateCommit = FALSE
    MayInterrupt = FALSE
INVARIANTS
    ReadsAreComplete
    CleanupRunsAlone
    NoResidue
    CircuitIsSequential
