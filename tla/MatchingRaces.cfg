SPECIFICATION Spec
CONSTANTS
  theCustomer = c
  theNeighbour = n
  NeighboursRequests = {}
  Customers <- MCCustomers
  OwnerOf <- MCOwnerOf
  Movers = {m1}
  Requests = {r1, r2}
  Handlers = {h1, h2}
  Instances = {i1, i2}
  GENERAL_LIMIT = 1
  DESIGNATED_LIMIT = 1
  NoRequest = none
SYMMETRY Symmetry
INVARIANTS
  LinkPointsToOpen
PROPERTIES
  HistoryIsFinal
  ImplementsContested
CHECK_DEADLOCK FALSE
