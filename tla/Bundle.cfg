CONSTANTS
  a = a
  b = b
  None = None
  Library <- MCLibrary
  MaxEntries = 4
  MaxFacts = 1
  MaxFiles = 2
  MaxImports = 2
SYMMETRY Symmetry
SPECIFICATION MCSpec
CHECK_DEADLOCK FALSE
INVARIANT MergeNeverDoublesAFact
PROPERTY PointersAccountedFor
