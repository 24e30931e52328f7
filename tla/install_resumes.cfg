SPECIFICATION FairSpec
CONSTANTS
  d1 = d1
  d2 = d2
  r1 = r1
  r2 = r2
  i1 = i1
  i2 = i2
  v1 = v1
  v2 = v2
  c1 = c1
  c2 = c2
  None = None
  Input = {i1}
  Component = {c1}
  Driver = {d1}
  Persistent = {d1}
  Release = {r1, r2}
  Version = {v1, v2}
  Faults = {"step_fails", "agent_dies", "answer_lost"}
  MaxFaults = 2
PROPERTIES
  ResumeCompletes
