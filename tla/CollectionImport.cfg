CONSTANTS
  trusted = trusted
  stranger = stranger
  None = None
  MaxRows = 3
  MaxHandLinks = 0
  NewParts = {1}
  RevisionParts = {1}
  ImportParts = {1}
  MaxRuns = 1
  Session <- MCSession
  Quarantined <- MCQuarantined
  Cli = trusted
SPECIFICATION CatSpec
CHECK_DEADLOCK FALSE
INVARIANT ImportIdempotent
