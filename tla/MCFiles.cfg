SPECIFICATION SuiteSpec
CONSTANTS
  x1 = x1
  x2 = x2
  w1 = w1
  w2 = w2
  o1 = o1
  A1 = A1
  A2 = A2
  B1 = B1
  B2 = B2
  Nobody = Nobody
  NoOut = NoOut
  NoName = NoName
  Procs = {x1, x2}
  Windows = FALSE
  FaultyCleanup = FALSE
  MaxFiles = 6
  MaxPowerLoss = 1
  TopDirs = {A1, A2}
  LeafDirs = {B1, B2}
  Approved <- TheApproved
  Free = Free
  Nothing = Nothing
  Operations = {"open", "child", "copy", "read", "list", "inspect"}
  MaxFd = 7
  MaxMoves = 2
  MaxEdits = 1
  MaxForeign = 1
SYMMETRY Interchangeable
INVARIANTS
  EvidenceIsKept
  StateIsDurable
  OtherBackendsAreDurable
  PinsHold
  MemoryIsTheHistory
PROPERTIES
  BundlesAreWhole
CHECK_DEADLOCK FALSE
