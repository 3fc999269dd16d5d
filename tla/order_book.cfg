SPECIFICATION Spec
CONSTANTS
  NumBooks = 2
  MaxPrice = 1
  MaxLoad = 2
  Backload = 1
  PollSleep = 1
  FallBack = 4
  FallBackBy = 2
  QueriesFail = TRUE
  MaxOrders = 3
  MaxCancels = 1
  MaxTime = 4
INVARIANTS BookInv ListedByTime ListedTwiceAtMost NothingElseMissed
PROPERTIES BookSpec OrderRead
CHECK_DEADLOCK FALSE
