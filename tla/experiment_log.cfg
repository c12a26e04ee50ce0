SPECIFICATION Spec
CONSTANTS
    Invocations = {i1, i2}
    Cells <- TwoCells
    InstanceOf <- OneInstance
    Attempts = 2
    Sums = {1, 2}
    Faults = {"error"}
    MaxEnv = 2
CHECK_DEADLOCK FALSE
INVARIANTS
    LogIsASchedulePrefix
    CompletionBindsTheLog
    MeasurementsDoNotOverlap
    RefusalHasCause
