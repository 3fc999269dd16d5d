SPECIFICATION Spec
CONSTANTS
  NumTickers = 2
  MaxPrice = 3
  SourcesLoad = FALSE
  SourcesDeliver = FALSE
  ThreadsStart = FALSE
INVARIANTS ServiceInv NoCrossingMissed NoFillOffMarket AtMostOneLateEvent 
PROPERTIES SimPriceFresh QuietAfterStop StopReturns
CHECK_DEADLOCK FALSE
