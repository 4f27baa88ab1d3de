SPECIFICATION FairTurns
CONSTANT MaxThreads = 4
INVARIANTS
  Placement
  NeverUnreachable
PROPERTIES
  NoSecondTurn
  EventuallyRuns
