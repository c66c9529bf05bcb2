CONSTANTS
  l1 = l1
  l2 = l2
  r1 = r1
  r2 = r2
  Links = {l1, l2}
  Targets = {t1}
  Requests = {r1, r2}
  Office = Office
  Applicants = {a1}
  Unknown = Unknown
  NoCase = NoCase
SPECIFICATION Spec
SYMMETRY Symmetry
INVARIANTS TypeOK OneHolder StagedOnce ReceivedOnce
PROPERTIES SpentForGood ApprovedUntouched RevokedReachesNoTarget
CHECK_DEADLOCK FALSE
