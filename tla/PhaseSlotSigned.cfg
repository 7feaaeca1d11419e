SPECIFICATION Spec
CONSTANTS
  p1 = p1  p2 = p2  md = md  tr = tr  tr2 = tr2
  Proc = {p1, p2}
  KindOf <- Kinds
  Task <- Tasks
  Close = close
  None = None
  Tx = {md, tr}
  Other = {work}
  CrashKinds = {"interrupt", "kill"}
  MaxFaults = 2
INVARIANTS PublishedIsCurrent
