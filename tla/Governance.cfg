SPECIFICATION FairSpec
CONSTANTS
  c0 = c0  c1 = c1  i1 = i1  m1 = m1
  w = w  v = v  wDone = wDone  scope = scope  phase = phase
  Proc = {p1, p2}
  Ref = {1, 2}
  Fact = {w, v, wDone, scope, phase}
  CloseId = {c0, c1}
  InitId = {i1}
  AmendId = {m1}
  Effect <- Effects
  WorkOf <- Works
  InitialFile <- Files
  FirstJournal <- Manifests
  FirstReceipts <- Transition
  Lost = Lost
  None = None
  CrashKinds = {"interrupt", "kill"}
  MaxFaults = 1
  MaxRepairs = 1
INVARIANTS TypeOK NoFork FilesAreTheCommitted OffChainIsExplained
PROPERTY CloseResolves
CHECK_DEADLOCK FALSE
