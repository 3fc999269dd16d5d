SPECIFICATION MCSafeSpec
CONSTANTS
  Orders <- MCOrders
  PriceOf <- MCPriceOf
  Hash <- MCHash
  InitialCapacity = 3
  MemoryFails = FALSE
  MaxLoads = 4
  MaxRemovals = 0
  MaxPrice = 1
INVARIANTS AlwaysFound
CHECK_DEADLOCK FALSE
