SPECIFICATION SafeSpec
CONSTANTS
  NumClientLists = 2
  ListSize = 2
  MaxConns = 5
  MaxMsgs = 2
  MaxLeaving = 1
  MaxSlow = 1
INVARIANTS ListInv OwnStream NobodyForgotten StaysListed
PROPERTIES TurnedAwayWhenAllFull
CHECK_DEADLOCK FALSE
