SPECIFICATION MCSpec
CONSTANTS
  Orders <- MCOrders
  PriceOf <- MCPriceOf
  Hash <- MCHash
  InitialCapacity = 3
  MemoryFails = TRUE
  MaxLoads = 6
  MaxRemovals = 1
  MaxPrice = 8
INVARIANTS VisitsRange WellFormed StorageInv
INVARIANTS NothingLost NeverStale
INVARIANTS LinksInOrder RefsLeadBack NodesHoldEntries
PROPERTIES BookSteps FixUpEnds
CHECK_DEADLOCK FALSE
