SPECIFICATION Spec
CONSTANTS
    Freezers = {f1, f2, f3}
    MaxIdentity = 2
    Origins <- SomeOrigins
    Segments <- SomeSegments
    MaxDepth = 3
    Content <- SomeFiles
    Names = {"base", "reified", "copy", "missing"}
    Queries = {"q1", "q2"}
    Values = {0, 1}
SYMMETRY AnyOrder
CHECK_DEADLOCK FALSE
INVARIANTS
    LoadableIsValidated
    FreezersAgree
    LeftoverCanaryHasAFailedOwner
    OneCanaryAtATime
    PublishedStoresLoad
