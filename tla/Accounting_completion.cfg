CONSTANTS
  None = None
  Sessions = {s1, s2}
  Staff = {manager, worker}
  Managers = {manager}
  Ruled = {worker}
  Keys = {k1, k2}
  Fee = 2
  Amounts = {1}
SPECIFICATION Spec
PROPERTY OwnCompletionRecorded
