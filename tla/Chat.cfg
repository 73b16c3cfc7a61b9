SPECIFICATION Spec
CONSTANTS
  customer = c
  Requests = {r1}
  Movers = {m1, m2}
  Customers <- MCCustomers
  OwnerOf <- MCOwnerOf
  Sockets = {s1}
  Handlers = {h1, h2}
  MaxMessages = 2
SYMMETRY Symmetry
CONSTRAINTS
  ImagesOrReceipts
  SecondMessageAlone
  OneRoomOpen
INVARIANTS
  RoomsArePrivate
  FeedComplete
  ReceiptsAreTrue
  LateMessagesBounded
CHECK_DEADLOCK FALSE
