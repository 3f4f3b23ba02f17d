CONSTANTS
  w1 = w1 w2 = w2 w3 = w3 m = m d = d u1 = u1 u2 = u2 p1 = p1 p2 = p2 x1 = x1 x2 = x2
  NoOne = NoOne
  Workers = {w1, w2}
  Closers = {m, d}
  Udfs = {u1, u2}
  External = {u2}
  Dynamic = {u1, u2}
  Pools = {p1, p2}
  Clients = {x1}
  MaxPending = 1
SPECIFICATION Spec
SYMMETRY Sym
INVARIANTS
  InUseIsAlive
