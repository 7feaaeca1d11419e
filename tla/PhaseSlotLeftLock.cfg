SPECIFICATION FairSpec
CONSTANTS
  p1 = p1  p2 = p2  md = md  tr = tr  tr2 = tr2
  Proc = {p1, p2}
  KindOf <- Kinds
  Task <- Tasks
  Close = close
  None = None
  Tx = {tr, tr2}
  Other = {}
  CrashKinds = {"kill"}
  MaxFaults = 1
PROPERTIES LeftLockIsTakenOver
