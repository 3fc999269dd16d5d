SPECIFICATION SafeSpec
CONSTANTS
  NumClientLists = 1
  QSize = 2
  IdScale = 2
  CountMod = 16
  StartTime = 2
  MaxTime = 2
  MaxMsgs = 4
  MaxClockSteps = 1
PROPERTIES CaughtUpBeforeSleep
CHECK_DEADLOCK FALSE
