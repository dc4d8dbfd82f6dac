CONSTANTS
    r1 = r1
    r2 = r2
    Run = {r1, r2}
    NoRun = NoRun
    SecondApi = FALSE
    MaxRestarts = 1
    MaxFaults = 0
SPECIFICATION Spec
INVARIANTS
    SingleOwner
