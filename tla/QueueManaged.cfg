CONSTANTS
  w1 = w1 w2 = w2 h = h r = r st = st o1 = o1 m1 = m1 m2 = m2
  Threads = {w1, h}
  Helper = h
  Drainers = {r, st}
  Main = r
  NoDrainer = NoDrainer
  Owners = {o1}
  NoOwner = NoOwner
  Metas = {m1, m2}
  Calls <- MixedCalls
  NoCall = NoCall
  NoThread = NoThread
  BatchMaxRequests = 2
  BatchMaxRows = 3
  DrainMax = 2
  MaxCalls = 1
  MaxGen = 1
SPECIFICATION FairSpec
CHECK_DEADLOCK FALSE
INVARIANTS
  RightDrainer
PROPERTIES
  NoEvaluationAfterStop
  LegacyCallReturns
  StoppedCallReturns
