SPECIFICATION Spec
CONSTANTS
  d1 = d1
  d2 = d2
  r1 = r1
  r2 = r2
  i1 = i1
  i2 = i2
  v1 = v1
  v2 = v2
  c1 = c1
  c2 = c2
  None = None
  Input = {i1, i2}
  Component = {c1, c2}
  Driver = {d1, d2}
  Persistent = {d1, d2}
  Release = {r1, r2}
  Version = {v1, v2}
  Faults = {"step_fails", "late_fails", "agent_dies", "begin_dies", "host_reboots", "answer_lost"}
  MaxFaults = 2
SYMMETRY Interchangeable
INVARIANTS
  JournalNeverAhead
  InstalledAsRecorded
  NeverServesHalf
PROPERTIES
  FailureStopsProduct
