SPECIFICATION MCSpec
CONSTANTS
    q1 = q1
    q2 = q2
    r1 = r1
    r2 = r2
    t1 = t1
    t2 = t2
    Triples = {t1, t2}
    Built <- BuiltOf
    Kept <- KeptOf
    Runs = {r1, r2}
    QueryTexts = {q1, q2}
    Configs <- AllConfigs
    MayFail = TRUE
    MayKill = TRUE
    LateCommit = TRUE
    MayRecover = TRUE
SYMMETRY RunSymmetry
INVARIANTS
    CleanExitMeansCleanStore
    PersistedCircuitStays
    OnlyFaultyRunsSpoilTheStore
