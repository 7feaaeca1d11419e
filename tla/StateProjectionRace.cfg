SPECIFICATION Spec
CONSTANTS
  Proc = {w1, w2}
  Writer = {w1, w2}
  Recoverer = {}
  v0 = v0
  v1 = v1
  v2 = v2
  Content = {v0, v1, v2}
  Absent = Absent
  None = None
  Blank = Blank
  Ref <- MCRef
  InitialDisk <- MCDisk
  Request <- MCRequest
  FaultKinds = {"lost"}
  MaxFaults = 0
  MaxCrashes = 0
INVARIANTS ResolvedMeansCurrent
