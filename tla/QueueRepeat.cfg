CONSTANTS
  w1 = w1 w2 = w2 h = h r = r st = st o1 = o1 m1 = m1 m2 = m2
  Threads = {w1, h}
  Helper = h
  Drainers = {r}
  Main = r
  NoDrainer = NoDrainer
  Owners = {o1}
  NoOwner = NoOwner
  Metas = {m1, m2}
  Calls <- StreamCalls
  NoCall = NoCall
  NoThread = NoThread
  BatchMaxRequests = 2
  BatchMaxRows = 3
  DrainMax = 2
  MaxCalls = 2
  MaxGen = 1
SPECIFICATION Spec
CHECK_DEADLOCK FALSE
INVARIANTS
  TypeOK
  QueueLinksPending
  GaugesExact
  RunningIsBorrowed
  BatchUniform
  JoinNeverSelfBlocked
PROPERTIES
  ContractKept
