SPECIFICATION FairSuiteSpec
CONSTANTS
  p1 = p1
  p2 = p2
  w1 = w1
  o1 = o1
  j1 = j1
  r1 = r1
  l1 = l1
  l2 = l2
  A1 = A1
  A2 = A2
  B1 = B1
  B2 = B2
  Unused = Unused
  Nobody = Nobody
  NoOut = NoOut
  NoToken = NoToken
PROPERTIES
  CallsEnd
CHECK_DEADLOCK FALSE
