SPECIFICATION FairSpec
CONSTANTS
  p1 = p1  p2 = p2  ready = ready  ready2 = ready2  freeze = freeze  decide = decide
  Proc = {p1, p2}
  Event = {ready, ready2, freeze, decide}
  ActionOf <- Acts
  None = None
  MaxTrouble = 2
INVARIANTS TypeOK OneLineage
PROPERTIES Finishes
CHECK_DEADLOCK FALSE
