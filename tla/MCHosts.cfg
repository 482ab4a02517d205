SPECIFICATION SuiteSpec
CONSTANTS
  x1 = x1
  x2 = x2
  l1 = l1
  b1 = b1
  h1 = h1
  h2 = h2
  Nobody = Nobody
  NoToken = NoToken
  NoRef = NoRef
  Runs = {x1, x2}
  Limit <- OneEach
  Order <- EveryItem
  MaxEdits = 3
  MaxKeyLosses = 1
  Budget = 2
  PipeCap = 1
  Input = 2
  Descendant = TRUE
  MaxWrites = 1
  MaxFaults = 1
SYMMETRY Interchangeable
INVARIANTS
  ProcessesAreSupervised
  AdviceIsBudgeted
  TasksPostOnce
PROPERTIES
  ProfilesGovernRuns
  SecretsAreInCustody
  WorkspaceIsKept
CHECK_DEADLOCK FALSE
