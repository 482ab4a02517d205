SPECIFICATION SuiteSpec
CONSTANTS
  x1 = x1
  x2 = x2
  e1 = e1
  e2 = e2
  e3 = e3
  v1 = v1
  v2 = v2
  Jira = Jira
  Hub = Hub
  Ann = Ann
  Bob = Bob
  Here = Here
  There1 = There1
  Alone = Alone
  None = None
  Systems <- TheSystems
  AuthOf <- MixedAuth
  SourceOf <- NativeSource
  Roots <- TheRoots
  RootChoices <- TwoRoots
  Origins = {"one", "two"}
  People = {Ann, Bob}
  MaxDrifts = 2
  MaxRuns = 2
  Policies <- ThePolicies
  Governance <- TheGovernance
  Catalog <- TheCatalog
  ReadPlans <- ThePlans
  Contents <- TheContents
  Secrets = {"token"}
  Reserved = {"raw"}
  References = {"html_url"}
  Aliases <- TheAliases
  MaxEdits = 1
SYMMETRY Interchangeable
INVARIANTS
  ContextIsPinned
  EgressIsPermitted
PROPERTIES
  InstalledCodeIsReviewed
  RecordsAreHonest
CHECK_DEADLOCK FALSE
