CONSTANTS
  m1 = m1
  m2 = m2
  d1 = d1
  d2 = d2
  c1 = c1
  c2 = c2
  p = p
  q = q
  Cases = {c1}
  Mobile = {c1}
  Managers = {m1}
  Workers = {w1}
  Docs = {d1, d2}
  Names = {p}
  Blank = Blank
  Nobody = Nobody
  NoCase = NoCase
SPECIFICATION Spec
INVARIANT AutoApprovedWasRead
