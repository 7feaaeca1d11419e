SPECIFICATION FairSpec
CONSTANTS
  Proc = {w1, w2}
  Writer = {w1}
  Recoverer = {w1, w2}
  v0 = v0
  v1 = v1
  v2 = v2
  Content = {v0, v1, v2}
  Absent = Absent
  None = None
  Blank = Blank
  Ref <- MCRef
  InitialDisk <- MCDisk
  Request <- MCRequest
  FaultKinds = {"lost"}
  MaxFaults = 2
  MaxCrashes = 1
INVARIANTS TypeOK NothingForgotten ResolvedMeansCurrent
PROPERTIES LiveLockIsKept UsableAgain
