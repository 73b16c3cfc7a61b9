SPECIFICATION MCSpec
CONSTANTS
  Movers = {1, 2, 3}
  Start = start
  Done = done
  Size = 1
  Newcomers = {1}
  Earlier <- MCEarlier
  Handlers = {h1, h2}
  Budgets <- MCBudgets
  Searches = {q1, q2}
  dailyLimit = 2
  MaxFaults = 2
  MaxRestarts = 1
SYMMETRY Symmetry
INVARIANTS
  CacheIsCurrent
  ScrollIsExact
  ImagesExist
  NoImageIsForgotten
  FailuresAreFree
  QuotaHolds
CHECK_DEADLOCK FALSE
