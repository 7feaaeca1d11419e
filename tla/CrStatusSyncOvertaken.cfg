SPECIFICATION Spec
CONSTANTS
  p1 = p1  p2 = p2  p3 = p3  c1 = c1  c2 = c2  a1 = a1  a2 = a2  a3 = a3
  Proc = {p1, p2, p3}
  Cr = {c1, c2}
  Auth = {a1, a2, a3}
  Shown = {c1}
  Operator = {p3}
  CrOf <- ChangeRequest
  Task <- Tasks
  Index = Index
  Rebuild = {TRUE, FALSE}
  None = None
  Torn = Torn
  Left = Left
  MaxFaults = 1
INVARIANTS OneUnresolved
CHECK_DEADLOCK FALSE
