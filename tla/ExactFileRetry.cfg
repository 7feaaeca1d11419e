SPECIFICATION Spec
CONSTANTS
  Proc = {p1, p2}
  a1 = a1
  a2 = a2
  a3 = a3
  Auth = {a1, a2}
  v0 = v0
  v1 = v1
  v2 = v2
  v3 = v3
  Content = {v0, v1, v2, v3}
  Absent = Absent
  None = None
  Ref <- MCRef
  InitialDisk <- MCDisk
  Plan <- RetryPlan
  FaultKinds = {"lost"}
  MaxFaults = 0
  MaxCrashes = 1
  MaxEdits = 0
SYMMETRY MCSymmetry
CHECK_DEADLOCK FALSE
INVARIANTS CommittedSurvive
