CONSTANTS
  RThread = RThread
  OtherThreads = {w}
  NoObject = NoObject b1 = b1 b2 = b2
  Objects = {b1, b2}
  r1 = r1 r2 = r2 r3 = r3 r4 = r4 r5 = r5 n1 = n1 n2 = n2 n3 = n3
  Registrations = {r1, r2, r3, r4, r5}
  NoUdf = NoUdf
  Names = {n1, n2, n3}
  NameOf <- Overloads
  EvaluatorOf <- Shared
  HashOf <- Collide
  LeastBuckets = 1
SPECIFICATION ExplainSpec
SYMMETRY UdfSym
INVARIANT
  ExplainsItsRecord
