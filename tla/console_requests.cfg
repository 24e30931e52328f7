SPECIFICATION Spec
CONSTANTS
  h1 = h1
  Nothing = Nothing
  Host = {h1}
  MaxRuns = 2
  MaxEdits = 1
  Retain = 5
  Faults = {}
INVARIANTS
  ChangesAreConfirmed
CHECK_DEADLOCK FALSE
