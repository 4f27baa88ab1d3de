SPECIFICATION RuntimeSpec
CONSTANTS
  MaxThreads = 2
  c1 = c1
  c2 = c2
  v = v
  NoData = NoData
  NotMade = NotMade
  Chans <- TwoChans
  Payload <- OneValue
  MaxCapacity = 1
  UserCalls <- SelectProgram
INVARIANTS
  RuntimeInv
  PollDropsNothing
PROPERTIES
  AbortOnlyOnDoubleClose
  AcceptedIsTold
