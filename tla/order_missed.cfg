SPECIFICATION SafeSpec
CONSTANTS
  NumBooks = 2
  MaxPrice = 1
  MaxLoad = 2
  Backload = 5
  PollSleep = 1
  FallBack = 5
  FallBackBy = 1
  QueriesFail = FALSE
  MaxOrders = 1
  MaxCancels = 1
  MaxTime = 4
INVARIANTS EveryOrderRead
CHECK_DEADLOCK FALSE
