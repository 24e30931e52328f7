SPECIFICATION Spec
CONSTANTS
  b1 = b1
  b2 = b2
  None = None
  Board = {b1, b2}
  MaxMinted = 3
  MaxCommands = 5
  MaxFaults = 2
  Faults = {"rename_fails", "answer_lost", "step_fails", "operator_dies", "hub_dies", "agent_stops", "host_reboots", "other_stages"}
SYMMETRY Interchangeable
INVARIANTS
  RecordedWasEstablished
  EvidenceIsOfAWhole
  UploadTakenBack
PROPERTIES
  RecordedIdentityStays
CHECK_DEADLOCK FALSE
