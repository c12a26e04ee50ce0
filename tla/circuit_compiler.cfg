SPECIFICATION CompilerSpec
CONSTANTS
    Sources <- AllSources
    Weights <- AllWeights
    MaxVars = 3
    Unit = 3
INVARIANTS
    ProbabilitiesAreExact
    CyclesAreRejected
