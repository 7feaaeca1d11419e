SPECIFICATION FairSpec
CONSTANTS
  p1 = p1  p2 = p2  c1 = c1  c2 = c2  a1 = a1  a2 = a2  a3 = a3
  Proc = {p1, p2}
  Cr = {c1, c2}
  Auth = {a1, a2, a3}
  CrOf <- ChangeRequest
  Task <- Tasks
  CrashKinds = {"kill", "interrupt"}
  Index = Index
  Foreign = Foreign
  None = None
  Left = Left
  MaxFaults = 2
INVARIANT RecordsAreTrue
PROPERTY Resolves
CHECK_DEADLOCK FALSE
