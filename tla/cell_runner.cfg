SPECIFICATION Spec
CHECK_DEADLOCK FALSE
CONSTANTS
    cell1 = cell1
    cell2 = cell2
    art1 = art1
    art2 = art2
    art3 = art3
    Order <- CellOrder
    CCells = {cell1, cell2}
    Warmups = 1
    Measured = 2
    Artifacts = {art1, art2, art3}
    Answers <- AnswersOf
    Yields <- YieldsOf
    Resumable = {cell2}
    EndpointFailures = {"timeout"}
    OfflineFailures = {"offline-crash"}
    Procs = {1, 2}
    Resumers = {"q1"}
    MaxKills = 1
    MaxMoves = 1
    MaxAttempts = 2
INVARIANTS
    OneCellAtATime
    CellVerdictIsTrue
    OkResumeIsTrue
    RecoveryStopsTheDriver
PROPERTY
    DriverEnds
