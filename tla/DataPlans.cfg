CONSTANTS
  a = a b = b
  Types <- Unions
  Offered <- Values
  Poisoned <- Third
  MaxRows = 3
  MaxSlice = 2
  Least <- NaInteger
SPECIFICATION Spec
INVARIANT PlansAgree
