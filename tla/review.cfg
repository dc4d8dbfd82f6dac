CONSTANTS
    Task = {t1}
    t1 = t1
    NoTask = none
    Key = {k1}
    k1 = k1
    NoKey = nokey
    Sources = 1
    MaxRevision = 6
    Budgets <- Instances
SPECIFICATION FairSpec
INVARIANTS TypeOK ReviewSound
PROPERTIES HistoryRefines ReviewSteps IntentsAttempted
CHECK_DEADLOCK FALSE
