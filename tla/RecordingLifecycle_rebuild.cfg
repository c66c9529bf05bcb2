CONSTANTS
  w1 = w1
  w2 = w2
  j1 = j1
  j2 = j2
  d1 = d1
  d2 = d2
  None = None
  Manual = {"text", "speaker"}
  Workers = {w1}
  Jobs = {j1, j2}
  Disputes = {d1, d2}
  Parts = {}
  MaxAttempts = 2
  MaxLapses = 0
  MaxRevisions = 2
SPECIFICATION Spec
PROPERTIES RebuildKeepsReview
