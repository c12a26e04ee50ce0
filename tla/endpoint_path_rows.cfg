SPECIFICATION Spec
CONSTANTS
    q1 = q1
    q2 = q2
    r1 = r1
    r2 = r2
    t1 = t1
    t2 = t2
    Triples = {t1, t2}
    Built <- BuiltOf
    Kept <- KeptOf
    Runs = {r1}
    QueryTexts = {q1, q2}
    Configs <- AllConfigs
    MayFail = FALSE
    MayKill = TRUE
    LateCommit = FALSE
    MayRecover = TRUE
INVARIANTS
    RecoveryFindsPathRows
