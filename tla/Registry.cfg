CONSTANTS
  p1 = p1
  p2 = p2
  s1 = s1
  s2 = s2
  s3 = s3
  k1 = k1
  k2 = k2
  k3 = k3
  h = h
  x = x
  None = None
  Session <- MCSession
  Server <- MCServer
  Human <- MCHuman
  AgentKey <- MCAgentKey
  HumanKey <- MCHumanKey
  Base <- MCBase
  BaseOf <- MCBaseOf
  Known <- MCKnown
  Past <- MCPast
  Typed <- MCTyped
  Path <- MCPath
  Opened <- MCOpened
  Reserved <- MCReserved
  Hops = 4
  MaxActors = 4
  MaxFails = 1
SPECIFICATION Spec
SYMMETRY Sym
CHECK_DEADLOCK FALSE
INVARIANT ChainsEnd
INVARIANT ActorsAreOneStory
 
PROPERTY TrailsNeverComeApart
