SPECIFICATION Spec
CONSTANTS
  c1 = c1
  c2 = c2
  a1 = a1
  a2 = a2
  s1 = s1
  s2 = s2
  p1 = p1
  p2 = p2
  Live = Live
  Fresh = Fresh
  Mixed = Mixed
  None = None
  Manager = Manager
  Caller = {c1}
  Authority = {a1, a2}
  Space = {s1, s2}
  Package = {p1, p2}
  Carries <- SpacesOfPackages
  Faults = {"refused", "spoilt", "write_fails", "stop_raises", "start_fails", "space_refuses", "interrupt", "agent_dies"}
  MaxFaults = 2
  MaxCalls = 2
SYMMETRY Interchangeable
PROPERTIES
  UndoIsExact
  RestoredIsWhole
CHECK_DEADLOCK FALSE
