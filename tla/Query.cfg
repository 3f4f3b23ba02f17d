CONSTANTS
  e1 = e1 e2 = e2 w1 = w1 w2 = w2 c1 = c1 c2 = c2
  Entries = {e1, e2}
  Workers = {w1, w2}
  Conns = {c1, c2}
  NoOne = NoOne
  RThread = r r = r t1 = t1 t2 = t2
  OtherThreads = {t1, t2}
  Total = 5
  Chunk = 2
  Backends = {"single", "concurrent", "multiprocess"}
  Plans <- Queries
  a = a b = b
SPECIFICATION QueriesSpec
INVARIANTS
  QueryCovered
  OneQueryPerConnection
  NothingLeftBehind
  PlanFitsStreams
  CallsBelong
  RowsOnce
  OnlyRThreadInR
  WireFaithful
  EvaluatorsAgree
PROPERTIES
  NoCallbackInTeardown
  TeardownEnds
  InterruptReturns
