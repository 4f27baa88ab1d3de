SPECIFICATION MapsSpec
CONSTANTS
  Maps = {m}
  Nil = Nil
  Ranges = {r}
  Keys <- FloatKeys
  Values = {0, 1}
  Zero = 0
  Absent = Absent
  NoKey = NoKey
  Equal <- FloatEqual
  Hash <- FloatHash
  MaxEntries = 3
INVARIANT MapsInv
PROPERTIES
  QuietRangeMeetsAll
  NeverMetTwice
  MapsAreAssociations
