CONSTANTS
  MaxEdits = 2
  MaxOthers = 1
SPECIFICATION Spec
CONSTRAINT FewLate
INVARIANT StaleStaysStale
