CONSTANTS
  e1 = e1 e2 = e2 w1 = w1 w2 = w2 c1 = c1 c2 = c2
  Entries = {e1, e2}
  Workers = {w1}
  Conns = {c1, c2}
  NoOne = NoOne
SPECIFICATION Spec
INVARIANTS
  HandleCollected
