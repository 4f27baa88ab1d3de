SPECIFICATION FairSpec
CONSTANTS
  Garbage = Garbage
  Trap = Trap
  Registers <- RegisterSet
  Program <- TestProgram
  Entries <- TestNames
  NoMemory <- Memory0
  Meaning <- GoMeaning
  Computed <- CMeaning
  Stored <- StoredAt
  Runtime <- RuntimeAnswer
  MethodOf <- MethodIn
INVARIANTS GoOrOverflow GeneratedInv
PROPERTIES TestsReturn Implements
CHECK_DEADLOCK TRUE
