CONSTANTS
  trusted = trusted
  stranger = stranger
  None = None
  MaxRows = 3
  MaxHandLinks = 1
  NewParts = {1, 2}
  RevisionParts = {1, 2}
  ImportParts = {2}
  MaxRuns = 1
  Session <- MCSession
  Quarantined <- MCQuarantined
  Cli = trusted
SPECIFICATION CatSpec
CHECK_DEADLOCK FALSE
INVARIANT UnjudgedStaysOut
INVARIANT OneVersionServed
INVARIANT HistoryReadsBack
 
 
INVARIANT PendingFactsWait
