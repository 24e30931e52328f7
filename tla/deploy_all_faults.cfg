SPECIFICATION FairSpec
CONSTANTS
  r1 = r1
  r2 = r2
  r3 = r3
  c1 = c1
  c2 = c2
  f1 = f1
  f2 = f2
  o1 = o1
  o2 = o2
  NoRelease = NoRelease
  Release = {r1, r2, r3}
  Component = {c1, c2}
  HostFile = {f1, f2}
  Operator = {o1}
  Sealer = {o1}
  Installed = r1
  ForwardOnly = {r2}
  MaxDeploys = 2
  Faults = {"answer_lost", "operator_dies", "activator_dies", "activator_breaks", "unit_reexec", "sweep_torn", "receipt_refused", "restore_breaks"}
INVARIANTS
  RollbackTargetKept
  FailedIsUndone
  BarrierKeepsLinks
PROPERTIES
  JudgedOnCandidate
  ActivatedIsWhole
  DeployEnds
