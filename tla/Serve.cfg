CONSTANTS
  s1 = s1
  s2 = s2
  k1 = k1
  scope = scope
  MaxCalls = 2
  MaxFailures = 1
  Session <- MCSession
  Key <- MCKey
  KeyOf <- MCKeyOf
  Scope <- MCScope
SYMMETRY Symmetry
SPECIFICATION Spec
CHECK_DEADLOCK FALSE
INVARIANT LedgerTellsTheSession
INVARIANT ReloadIsTheSameSession
