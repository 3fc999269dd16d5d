SPECIFICATION Spec
CONSTANTS
  Writers = {w1, w2}
  Programs = {"main", "server_test", "service_test"}
  ThreadsFail = TRUE
  MaxSignals = 2
INVARIANTS ServerInv SignalKept WritersOutlived MisuseExplained
PROPERTIES StopHeeded
CHECK_DEADLOCK FALSE
