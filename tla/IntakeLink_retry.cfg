CONSTANTS
  l1 = l1
  l2 = l2
  r1 = r1
  r2 = r2
  Links = {l1}
  Targets = {t1}
  Requests = {r1, r2}
  Office = Office
  Applicants = {a1}
  Unknown = Unknown
  NoCase = NoCase
SPECIFICATION Spec
INVARIANT NotItsOwnDuplicate
CHECK_DEADLOCK FALSE
