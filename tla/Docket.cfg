CONSTANTS
  trusted = trusted
  stranger = stranger
  j1 = j1
  j2 = j2
  None = None
  MaxRows = 3
  Agent <- MCAgent
  Cli = trusted
  Quarantined <- MCQuarantined
  Judge <- MCJudge
SYMMETRY Symmetry
SPECIFICATION DeskSpec
CHECK_DEADLOCK FALSE
INVARIANT HistoryIsWhole
INVARIANT OpenMattersHaveOnePlace
 
PROPERTY ImplementsMatters
