CONSTANTS
  w1 = w1 w2 = w2 w3 = w3 m = m d = d u1 = u1 u2 = u2 p1 = p1 p2 = p2 x1 = x1 x2 = x2
  NoOne = NoOne
  Workers = {w1, w2, w3}
  Closers = {m, d}
  Udfs = {u1, u2}
  External = {u2}
  Dynamic = {u2}
  Pools = {p1, p2}
  Clients = {x1}
  MaxPending = 2
  RThread = RThread
  OtherThreads = {t1}
  NoObject = NoObject Unused = Unused
  b1 = b1 b2 = b2
  Objects <- CallObjects
  StateObjects <- CallValues
  Slots = {w1, w2, w3}
  InputRows <- CallRows
  NullRows = {x1}
  Bundles <- Callbacks
  SkipNulls = TRUE RepeatTargets = FALSE MaxOwed = 1
  r1 = w1 r2 = w2 r3 = w3 r4 = r4 r5 = r5 n1 = n1 n2 = n2 n3 = n3
  Registrations = {w1, w2, w3, r4, r5}
  NoUdf = NoUdf
  Names = {n1, n2, n3}
  NameOf <- Overloads
  EvaluatorOf <- Shared
  HashOf <- Collide
  LeastBuckets = 1
SPECIFICATION CallsSpec
SYMMETRY Sym
INVARIANTS
  InUseIsAlive
  SoleOwner
  CountsExact
  SleeperAwaited
  PreserveExact
  NothingLost
  LookupExact
  EvaluatorsHeld
