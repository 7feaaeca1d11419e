SPECIFICATION Spec
CONSTANTS
  p1 = p1  p2 = p2  main = main  cr = cr  go = go  back = back  make = make
  Proc = {p1, p2}
  Branch = {main, cr}
  Integration = main
  Switch = {go, back}
  Create = {make}
  Goal <- GoalOf
  Task <- Tasks
  Times = {"fresh", "planned"}
  None = None
  MaxCommits = 1
  MaxTrouble = 1
INVARIANTS SwitchedOnce ReportsAgree
PROPERTIES StartsFromPlanned
CHECK_DEADLOCK FALSE
