SPECIFICATION SafeSpec
CONSTANTS
  NumClientLists = 2
  ListSize = 2
  MaxConns = 2
  MaxMsgs = 2
  MaxLeaving = 1
  MaxSlow = 0
INVARIANTS EveryStream
CHECK_DEADLOCK FALSE
