SPECIFICATION SteadySpec
CONSTANTS
  NumClientLists = 2
  QSize = 3
  IdScale = 2
  CountMod = 16
  StartTime = 1
  MaxTime = 3
  MaxMsgs = 8
  MaxClockSteps = 0
INVARIANTS QueueInv
PROPERTIES StopJoinsAll OrderedDelivery LossOnlyWhenLapped CaughtUpBeforeSleep PromiseSpec
CHECK_DEADLOCK FALSE
