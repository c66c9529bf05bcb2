CONSTANTS
  w1 = w1
  w2 = w2
  j1 = j1
  j2 = j2
  d1 = d1
  d2 = d2
  None = None
  Manual = {"text"}
  Workers = {w1, w2}
  Jobs = {j1, j2}
  Disputes = {d1}
  Parts = {"original"}
  MaxAttempts = 2
  MaxLapses = 1
  MaxRevisions = 2
SPECIFICATION Spec
SYMMETRY Symmetry
INVARIANTS RecTypeOK LockedSettled MarksResolvable
PROPERTIES LockedFrozen ImplementsRecord
