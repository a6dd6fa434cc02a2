CONSTANTS
  n1 = n1
  n2 = n2
  stranger = stranger
  trusted = trusted
  Cli = Cli
  h1 = h1
  h2 = h2
  None = None
  MaxRows = 4
  Namespace <- MCNamespace
  Agent <- MCAgent
  Quarantined <- MCQuarantined
  Human <- MCHuman
SYMMETRY Symmetry
SPECIFICATION HandoffSpec
CHECK_DEADLOCK FALSE
PROPERTY DropSparesNewBriefings
PROPERTY ImplementsBulletin
