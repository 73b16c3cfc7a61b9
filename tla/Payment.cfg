SPECIFICATION MCSpec
CONSTANTS
  Handlers = {h1, h2}
  Keys = {k1, k2}
  NoKey = none
  Price = 10
  Amounts = {1, 9}
  Verdicts = {"DONE", "WAITING", "FINAL"}
  MaxOrders = 3
  Callers = {q1, q2, q3}
  Prices = {5, 14}
SYMMETRY Symmetry
INVARIANTS
  PaidIsBacked
  KeysApart
  PaidAddsUp
  SmallPricesStayUnpaid
PROPERTIES
  ImplementsSettlement
  PaidRecordKept
CHECK_DEADLOCK FALSE
