SPECIFICATION Spec
CONSTANTS
  Handlers = {h1, h2}
  Keys = {k1, k2}
  NoKey = none
  Price = 10
  Amounts = {1, 9}
  Verdicts = {"DONE", "FINAL"}
  MaxOrders = 2
SYMMETRY Symmetry
INVARIANTS
  PendingKeyIsCurrent
CHECK_DEADLOCK FALSE
