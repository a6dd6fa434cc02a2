CONSTANTS
  s1 = s1
  s2 = s2
  t1 = t1
  agent = agent
  None = None
  MaxCards = 3
  MaxTime = 2
  TTL = 1
  Session <- MCSession
  Table <- MCTable
  AgentOf <- MCAgentOf
SYMMETRY Symmetry
SPECIFICATION RegisterSpec
CHECK_DEADLOCK FALSE
INVARIANT OneCardPerHolder
INVARIANT StaleOnSchedule
INVARIANT JoinersAreWarned
INVARIANT RegisterTellsEachCardOnce
