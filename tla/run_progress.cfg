CONSTANTS
    r1 = r1
    r2 = r2
    Run = {r1, r2}
    NoRun = NoRun
    SecondApi = FALSE
    MaxRestarts = 2
    MaxFaults = 2
SPECIFICATION BoundedSpec
PROPERTIES
    RecoveryReconciles
    SuccessIsReported
    CancelEndsRun
    QueueProgress
