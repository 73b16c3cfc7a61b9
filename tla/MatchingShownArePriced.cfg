SPECIFICATION Spec
CONSTANTS
  theCustomer = c
  theNeighbour = n
  NeighboursRequests = {}
  Customers <- MCCustomers
  OwnerOf <- MCOwnerOf
  Movers = {m1, m2}
  Requests = {r1}
  Handlers = {h1}
  Instances = {i1}
  GENERAL_LIMIT = 1
  DESIGNATED_LIMIT = 1
  NoRequest = none
INVARIANTS
  ShownArePriced
CHECK_DEADLOCK FALSE
