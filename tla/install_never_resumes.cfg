SPECIFICATION Spec
CONSTANTS
  b1 = b1
  b2 = b2
  None = None
  Board = {b1, b2}
  MaxMinted = 3
  MaxCommands = 2
  MaxFaults = 1
  Faults = {"agent_stops"}
INVARIANTS
  ResumeKeepsInputs
CHECK_DEADLOCK FALSE
