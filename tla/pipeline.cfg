CONSTANTS
    Model = {m1, m2}
    m1 = m1
    m2 = m2
    Main = main
    Frames = 2
    QueueDepth = 1
    InferenceWorkers = 2
    PoleWorkers = 1
    MaxFaults = 2
    MaxInterrupts = 1
    p1 = p1
    p3 = p3
    Publisher = {p1, p3}
    Suffixes <- TwoSuffixes
    Pairs <- SignsAndPoles
    Old = Old
    NoFile = NoFile
    MaxIoErrors = 2
    MaxCuts = 1
    d1 = d1
    d2 = d2
    d3 = d3
    d4 = d4
    Sighting = {d1, d2, d3, d4}
    Signals = {d1, d2, d3, d4}
    FrameOf <- ThreeFrames
    Row <- ThreeFrames
    Looks <- SixLooks
    NoPole = NoPole
    DirectDistance = 1
    AnchorRadius = 0
    HypothesisRadius = 0
    MaxLink = 4
    MaxFrameGap = 2
    MergeRadius = 1
    Reaches = {0, 1}
    PoleMinObservations = 1
    TargetRadius = 0
    MinArm = 2
    MaxFrameSpan = 4
    SupportedRadius = 1
    UnsupportedRadius = 0
    a1 = a1
    a2 = a2
    a3 = a3
    Axis = {a1, a2, a3}
    Shapes <- Axes
    Nothing = Nothing
    Policies <- AllPolicies
    DirectReach = 0
    StrictReach = 3
    WideReach = 4
    LongReach = 3
SPECIFICATION MCFairSpec
INVARIANTS TypeOK GatesSound EntriesHonest PublicationSound ExportSound SearchSound
PROPERTIES EntriesSettleOnce PipelineEnds
CHECK_DEADLOCK FALSE
