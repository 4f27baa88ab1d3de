SPECIFICATION FairUnwinding
CONSTANTS
  Spawned <- Layouts
  MaxCalls = 2
  MaxDefers = 3
  MaxPanics = 2
INVARIANTS
  StackInv
  DefersConserved
  DeadNeverResume
  PanicRunsOnlyDeferred
  OnlyTheLostLookBelow
PROPERTIES
  EveryStepAdvances
  NoLiveFunctionDropped
  NewestFirst
  EveryPanicSettles
