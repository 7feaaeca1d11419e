SPECIFICATION FairSpec
CONSTANTS
  Proc = {p1, p2}
  a1 = a1
  a2 = a2
  a3 = a3
  Auth = {a1, a2, a3}
  v0 = v0
  v1 = v1
  v2 = v2
  v3 = v3
  Content = {v0, v1, v2, v3}
  Absent = Absent
  None = None
  Ref <- MCRef
  InitialDisk <- MCDisk
  Plan <- ChainPlan
  FaultKinds = {"lost"}
  MaxFaults = 2
  MaxCrashes = 1
  MaxEdits = 0
CHECK_DEADLOCK FALSE
INVARIANTS CommittedSurvive
PROPERTIES EventuallyResolved ImplementsAtomicCommit
