SPECIFICATION MCSpec
CONSTANTS
    a = a
    b = b
    c = c
    d = d
    p = p
    q = q
    AllSources = AllSources
    Nodes = {a, b, c, d}
    Preds = {p, q}
    Datasets <- Graphs
    Runs = {r1, r2}
    Queries <- AllQueries
    ValuesBatch = 2
    r1 = r1
    r2 = r2
    MayFail = TRUE
INVARIANTS
    AnswersExact
    RowsAreOwn
PROPERTY
    Termination
