SPECIFICATION PqeSpec
CONSTANTS
    Plan <- BasicQuery
    x = x
    y = y
    Starts = 2
    Measured = 1
    Answers = {x, y}
    Sessions = 2
SYMMETRY AnyNames
CHECK_DEADLOCK FALSE
INVARIANTS
    LeftoverLeavesATrace
    CompleteIsTrue
    ParityIsOfTheCells
    FiguresAreBacked
