SPECIFICATION Spec
CONSTANTS
  Writers = {w1}
  Programs = {"main"}
  ThreadsFail = FALSE
  MaxSignals = 1
PROPERTIES EveryStopHeeded
CHECK_DEADLOCK FALSE
