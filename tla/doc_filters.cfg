CONSTANTS
  l1 = l1
  l2 = l2
  f1 = f1
  f2 = f2
  t1 = t1
  q1 = q1
  q2 = q2
  Layer = {l1, l2}
  Feature = {f1, f2}
  Ticket = {t1}
  RowLooks <- ThreeRows
  Filters <- AllOrSigns
  Bounds <- Extents
  Checker = {q1}
  NoRow = NoRow
  NoPoint = NoPoint
  NoZ = NoZ
  NoProv = NoProv
  NoRevision = NoRevision
  NoSnapshot = NoSnapshot
  NoTicket = NoTicket
  NoTarget = NoTarget
  GateBudgets <- OneOfEach
SPECIFICATION GateSpec
INVARIANT CompletedForItsClasses
CHECK_DEADLOCK FALSE
