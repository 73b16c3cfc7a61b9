SPECIFICATION Spec
CONSTANTS
  customer = c
  mover = m
  Users = {c, m}
  Recipients <- MCRecipients
  Handlers = {h1, h2}
  Streams = {s1}
  StreamOf <- MCStreamOf
  MaxRows = 3
  Readers = {c}
SYMMETRY Symmetry
INVARIANTS
  NoGhost
  FeedComplete
  BadgeExact
  MoveDayOnce
CHECK_DEADLOCK FALSE
