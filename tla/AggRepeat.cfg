CONSTANTS
  r = r w = w s1 = s1 s2 = s2 s3 = s3 o1 = o1 o2 = o2 o3 = o3 o4 = o4 x1 = x1 x2 = x2 x3 = x3
  RThread = r
  OtherThreads = {w}
  Objects = {o1, o2, o3, o4}
  StateObjects = {o1, o2, o3, o4}
  NoObject = NoObject
  Slots = {s1, s2, s3}
  Unused = Unused
  InputRows = {x1, x2, x3}
  NullRows = {x3}
  SkipNulls = TRUE
  Bundles <- Callbacks
  RepeatTargets = TRUE
  MaxOwed = 1
SPECIFICATION AggSpec
SYMMETRY Sym
INVARIANTS
  NothingLost
