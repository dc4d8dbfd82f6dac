CONSTANTS
    b1 = b1
    Block = {b1}
    SourceOf <- OneFile
    Weight <- Weights
    Thread = {t1, t2}
    MaxEntries = 2
    MaxBytes = 2
    MaxVersion = 1
    MaxRestarts = 1
    MaxRescans = 2
    MaxReads = 2
SPECIFICATION FairSpec
INVARIANTS
    TypeOK
    CacheSound
    RegistrySound
    NeverOlder
PROPERTIES
    ScanSettles
    ReadsReturn
CHECK_DEADLOCK FALSE
