SPECIFICATION Spec
CONSTANTS
  theCustomer = c
  theNeighbour = n
  NeighboursRequests = {r3}
  Customers <- MCCustomers
  OwnerOf <- MCOwnerOf
  Movers = {m1, m2}
  Requests = {r1, r2, r3}
  Handlers = {h1, h2}
  Instances = {i1}
  GENERAL_LIMIT = 1
  DESIGNATED_LIMIT = 1
  NoRequest = none
CONSTRAINTS
  TwoRequests
  OneContended
  TwoEstimates
SYMMETRY Symmetry
INVARIANTS
  OneAcceptedIffConfirmed
  NoProposalOutlivesRequest
  LinkedIffOpen
  LimitsHold
PROPERTIES
  RulesUnlessContended
  ImplementsLifecycle
CHECK_DEADLOCK FALSE
