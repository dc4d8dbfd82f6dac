CONSTANTS
    r1 = r1
    r2 = r2
    Run = {r1, r2}
    NoRun = NoRun
    SecondApi = TRUE
    MaxRestarts = 1
    MaxFaults = 1
SPECIFICATION Spec
SYMMETRY RunSymmetry
INVARIANTS
    TypeOK
    QueueSound
    OutcomeSound
PROPERTIES
    ImplementsGpuLease
    ManifestsKept
