SPECIFICATION SlicesSpec
CONSTANTS
  Vars = {x, y}
  Data = {0, 1}
  Zero = 0
  Literals <- SmallLiterals
  MaxMade = 2
  MaxArrays = 2
  MaxLength = 4
INVARIANT SlicesInv
PROPERTIES
  AppendKeepsOperand
  AppendBringsElements
  GrowthIsPrivate
  CopyIsSimultaneous
