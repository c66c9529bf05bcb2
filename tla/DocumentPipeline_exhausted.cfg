CONSTANTS
  d1 = d1
  w1 = w1
  w2 = w2
  c1 = c1
  r1 = r1
  r2 = r2
  h1 = h1
  Jobs = {d1}
  DocumentJobs = {d1}
  DocJob = d1
  Workers = {w1}
  Clerks = {c1}
  Reviewers = {}
  Hosts = {}
  MaxAttempts = 1
  ClaimLimit = 1
  LeaseTerm = 1
  MaxRetries = 1
  Kinds = {"other", "poor", "identity"}
  MaxRuns = 1
  MaxMoves = 0
SPECIFICATION DocSpec
INVARIANTS ExhaustedIsRestartable
CHECK_DEADLOCK FALSE
