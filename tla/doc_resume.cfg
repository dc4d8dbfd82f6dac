CONSTANTS
    f1 = f1
    f2 = f2
    File = {f1, f2}
    Size <- TwoFiles
    Chunk = {c1, c2}
    MaxCrashes = 1
    MaxFaults = 0
SPECIFICATION Spec
INVARIANTS
    ResumableAtOffset
