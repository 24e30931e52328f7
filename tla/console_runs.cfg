SPECIFICATION FairSpec
CONSTANTS
  h1 = h1
  h2 = h2
  s1 = s1
  s2 = s2
  n1 = n1
  n2 = n2
  Nothing = Nothing
  Host = {h1}
  Stream = {s1}
  PhaseName = {n1, n2}
  MaxRuns = 3
  MaxEvents = 3
  Retain = 1
  Faults = {"no_thread", "report_raises"}

INVARIANTS
  OneActionPerHost
  FinishedIsSettled
PROPERTIES
  MemoryKept
  FeedKept
  StreamsEnd
CHECK_DEADLOCK FALSE
