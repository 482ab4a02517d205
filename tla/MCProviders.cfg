SPECIFICATION SuiteSpec
CONSTANTS
  j1 = j1
  j2 = j2
  s1 = s1
  r1 = r1
  c1 = c1
  c2 = c2
  Procs = {"p1"}
  Actions = {"dual"}
  Kind <- KindOf
  Keys = {"ann1", "ann2", "bob"}
  Principal <- HolderOf
  Plans = {"P", "Q"}
  Ttl = 1
  MaxTime = 1
  MaxApprovals = 2
  Commits = {c1, c2}
  PageIds = {"p1", "p2"}
  Configurations <- EveryConfiguration
  Integrations <- EveryIntegration
  WorldInits <- EveryWorld
  MaxEdits = 2
  MaxOutages = 2
INVARIANTS
  EffectsAreApproved
  ListsAreSnapshots
  ReviewsAreCoherent
  SandboxIsLeftClean
PROPERTIES
  WritesAreGuarded
CHECK_DEADLOCK FALSE
