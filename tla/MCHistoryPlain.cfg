SPECIFICATION LegalHistorySpec
CONSTANTS
  MaxThreads = 3
  c1 = c1
  NoData = NoData
  NotMade = NotMade
  Chans <- OneChan
  Payload <- Values5
  MaxCapacity = 2
  UserCalls <- PlainProgram
INVARIANTS
  ReceiverRegistrationLive
  Conservation
  NoDuplicates
PROPERTIES
  ClosedAfterDrain
  UnbufferedIsSynchronous
