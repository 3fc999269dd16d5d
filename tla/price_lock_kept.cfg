SPECIFICATION SafeSpec
CONSTANTS
  NumTickers = 1
  MaxPrice = 2
  SourcesLoad = FALSE
  SourcesDeliver = TRUE
  ThreadsStart = TRUE
INVARIANTS MonitorNotStuck
CHECK_DEADLOCK FALSE
