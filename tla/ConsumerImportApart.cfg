SPECIFICATION FairSpec
CONSTANTS
  p1 = p1
  p2 = p2
  b1 = b1
  b2 = b2
  a1 = a1
  a2 = a2
  a3 = a3
  v1 = v1
  Returned <- MCReturned
  None = None
  Proc = {p1, p2}
  B1 = {b1}
  B2 = {b2}
  Auth = {a1, a2, a3}
  Version = {v1, v2}
  Job <- ApartJob
  MaxEdits = 1
  MaxCrashes = 2
INVARIANTS TypeOK RegisteredBeforeEffects DoneIsWhole
PROPERTIES HalfIsFinished
