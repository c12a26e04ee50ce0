SPECIFICATION Spec
CONSTANTS
    Configs <- AllConfigs
    Responses <- AllResponses
    Transports = {"chunked", "length"}
    ExactRowLimit = 2
INVARIANTS
    OkRunIsComplete
    StageStateIsTrue
    LeftoverNeedsRecovery
PROPERTY
    RunIsRecorded
