CONSTANTS
    f1 = f1
    f2 = f2
    File = {f1, f2}
    Size <- TwoFiles
    Chunk = {c1, c2}
    MaxCrashes = 1
    MaxFaults = 1
SPECIFICATION FairSpec
INVARIANTS
    TypeOK
    UploadSound
PROPERTIES
    ImplementsAtomicUpload
    FinalizationEnds
    UploadCompletes
