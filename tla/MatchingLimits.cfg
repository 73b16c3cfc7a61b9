SPECIFICATION FairSpec
CONSTANTS
  theCustomer = c
  theNeighbour = n
  NeighboursRequests = {}
  Customers <- MCCustomers
  OwnerOf <- MCOwnerOf
  Movers = {m1, m2, m3}
  Requests = {r1}
  Handlers = {h1, h2}
  Instances = {i1}
  GENERAL_LIMIT = 1
  DESIGNATED_LIMIT = 1
  NoRequest = none
INVARIANTS
  OffersArePriced
  OvershootBounded
PROPERTIES
  ClosedForGood
CHECK_DEADLOCK FALSE
