CONSTANTS
  p1 = p1
  p2 = p2
  p3 = p3
  i1 = i1
  None = None
  Process = {p1, p2, p3}
  Id <- JobIds
  Fp <- Fingerprints
  Image = {i1}
  Slice <- OneImage
  Scenes <- TwoScenes
  SkipExisting = TRUE
  MaxFaults = 1
  MaxKills = 1
  l1 = l1
  l2 = l2
  f1 = f1
  f2 = f2
  t1 = t1
  q1 = q1
  q2 = q2
  Layer = {l1, l2}
  Feature = {f1, f2}
  Ticket = {t1}
  RowLooks <- ThreeRows
  Filters <- AllOrSigns
  Bounds <- Extents
  Checker = {q1, q2}
  NoRow = NoRow
  NoPoint = NoPoint
  NoZ = NoZ
  NoProv = NoProv
  NoRevision = NoRevision
  NoSnapshot = NoSnapshot
  NoTicket = NoTicket
  NoTarget = NoTarget
  GateBudgets <- SixBudgets
  w0 = w0
  w1 = w1
  w2 = w2
  w3 = w3
  w4 = w4
  w5 = w5
  g1 = g1
  g2 = g2
  Scans <- TwoScans
  Scope <- WholeScope
  SessionClasses = {"sign"}
  Settings <- TwoSettings
  Requester = {g1, g2}
  PageSize = 1
  Weight <- Weights
  NoValue = NoValue
  MaxFiles = 4
  MaxBytes = 4
  MaxFile = 3
  MaxPerFile = 3
  MaxArtifacts = 4
  MaxTasks = 4
  SpacingFloor = 2
  SpacingFactor = 3
  LeastGap = 1
  LeastGaps = 3
  Starts <- SevenStarts
  o1 = o1
  o2 = o2
  o3 = o3
  x1 = x1
  x2 = x2
  e1 = e1
  k1 = k1
  m1 = m1
  m2 = m2
  Zero = Zero
  Overlays <- ThreeSheets
  Origin <- SheetSources
  Object = {x1, x2}
  Identifier <- Identifiers
  Contents <- TwoContents
  Detected <- OneSource
  NoRecord = NoRecord
  NoStatus = NoStatus
  MaxEntries = 3
  MaxPoints = 3
  MaxMigrations = 1
  MaxCandidates = 2
  MaxSupported = 2
  LinkStarts <- SixBeginnings
  Shelf <- Shelves
  ModelKey <- Models
  NoList = NoList
  NoResult = NoResult
  NoIndex = NoIndex
  NoSpace = NoSpace
  MaxCompletedRuns = 2
  MaxModels = 2
  MaxManifest = 2
  MaxResult = 2
  MaxRequest = 4
  MaxBoxes = 2
  MaxRaw = 3
  MaxRawBytes = 2
SPECIFICATION MCSpec
SYMMETRY Alike
INVARIANTS TypeOK LedgerSound GateSound LinksSound SourcesSound FramesSound
PROPERTY VerdictsKept
CHECK_DEADLOCK FALSE
