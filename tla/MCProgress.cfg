SPECIFICATION FairSuiteSpec
CONSTANTS
  k1 = k1
  k2 = k2
  r1 = r1
  r2 = r2
  p1 = p1
  p2 = p2
  i1 = i1
  e1 = e1
  b1 = b1
  o1 = o1
  n1 = n1
  v1 = v1
  v2 = v2
  wide = wide
  planA = planA
  Jira = Jira
  Hub = Hub
  Ann = Ann
  Bob = Bob
  Here = Here
  There1 = There1
  Alone = Alone
  NoFp = NoFp
  NoToken = NoToken
  NoResult = NoResult
  None = None
PROPERTIES
  RunsSettle
  RepetitionSucceeds
CHECK_DEADLOCK FALSE
