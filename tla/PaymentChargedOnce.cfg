SPECIFICATION Spec
CONSTANTS
  Handlers = {h1}
  Keys = {k1, k2, k3}
  NoKey = none
  Price = 10
  Amounts = {1, 9}
  Verdicts = {"DONE", "FINAL"}
  MaxOrders = 2
SYMMETRY Symmetry
INVARIANTS
  ChargedOnce
CHECK_DEADLOCK FALSE
