CONSTANTS
  d1 = d1
  s1 = s1
  w1 = w1
  w2 = w2
  c1 = c1
  c2 = c2
  Jobs = {d1}
  DocumentJobs = {d1}
  Workers = {w1, w2}
  Clerks = {c1}
  MaxAttempts = 2
  ClaimLimit = 2
  LeaseTerm = 1
  MaxRetries = 1
SPECIFICATION FairSpec
PROPERTIES LapsedLeasesReclaimed
CHECK_DEADLOCK FALSE
