SPECIFICATION SuiteSpec
CONSTANTS
  k1 = k1
  k2 = k2
  f1 = f1
  f2 = f2
  t1 = t1
  t2 = t2
  t3 = t3
  r1 = r1
  r2 = r2
  x1 = x1
  x2 = x2
  v1 = v1
  NoFp = NoFp
  NoToken = NoToken
  NoResult = NoResult
  NoAttempt = NoAttempt
  NoOutcomes = NoOutcomes
  None = None
  Binders = {"b1", "b2"}
  Appliers = {"p1", "p2"}
  Reconcilers = {}
  Names = {x1, x2}
  Plans = {"wide", "slim"}
  WidePlans = {"wide"}
  Instants = {1, 2, 3}
  Scheduled = {1, 3}
  Lateness = 1
  ResumeWindow = 1
  ReservationLease = 2
  Edited = {"reg", "config", "zone", "roots", "runtime"}
  MaxClock = 3
  MaxEdits = 2
  MaxKills = 1
  MaxReplaced = 1
  Procs = {x1, x2}
  Occurrences = 2
  Lease = 1
  MaxLateness = 0
  MaxAttempts = 2
SYMMETRY Interchangeable
INVARIANTS
  GrantsAreCurrent
PROPERTIES
  ClaimsAreKept
  OccurrencesAreFenced
  LegacyAttemptsAreFenced
CHECK_DEADLOCK FALSE
