SPECIFICATION FairRuntime
CONSTANTS
  MaxThreads = 4
  c1 = c1
  c2 = c2
  v = v
  NoData = NoData
  NotMade = NotMade
  Chans <- OneChan
  Payload <- OneValue
  MaxCapacity = 0
  UserCalls <- HandoffProgram
PROPERTIES
  PairMeets
  HandoffCompletes
