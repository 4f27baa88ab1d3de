SPECIFICATION RoundsSpec
CONSTANTS
  MaxThreads = 3
  c1 = c1
  v = v
  w = w
  NoData = NoData
  NotMade = NotMade
  Chans <- OneChan
  Payload <- TwoValues
  MaxCapacity = 2
  UserCalls <- RoundsProgram
INVARIANT OneSideWaits
PROPERTIES
  EveryChannelIsFifo
  SchedulerSpec
