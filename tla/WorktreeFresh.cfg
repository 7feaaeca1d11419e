SPECIFICATION FairSpec
CONSTANTS
  p1 = p1  p2 = p2  main = main  cr = cr  go = go  back = back  make = make
  Proc = {p1}
  Branch = {main, cr}
  Integration = main
  Switch = {go}
  Create = {}
  Goal <- GoalOf
  Task <- Tasks
  Times = {"fresh"}
  None = None
  MaxCommits = 1
  MaxTrouble = 0
PROPERTIES SealedIsStarted
CHECK_DEADLOCK FALSE
