CONSTANTS
  m1 = m1
  m2 = m2
  c1 = c1
  c2 = c2
  d1 = d1
  d2 = d2
  p = p
  q = q
  Cases = {c1, c2}
  Mobile = {c1}
  Managers = {m1, m2}
  Workers = {w1}
  Docs = {d1}
  Names = {p, q}
  Blank = Blank
  Nobody = Nobody
  NoCase = NoCase
SPECIFICATION Spec
SYMMETRY Symmetry
INVARIANTS ReviewTypeOK OneClientPerPerson ApprovedIsTheClient
PROPERTIES SeenBeforeReplaced ReviewedValueKept AutoApprovalLeavesPeople
CONSTRAINT SheetCasesAreSimple
