CONSTANTS
  p1 = p1
  p2 = p2
  Null = Null
  MaxTime = 2
  N = 1
  Slots = 2
  MaxRewrites = 1
  Proc <- MCProc
  Legacy <- MCLegacy
  Steps <- Forward
SYMMETRY Symmetry
SPECIFICATION FollowSpec
CHECK_DEADLOCK FALSE
INVARIANT OrderedLedgerVerifies
INVARIANT RewriteIsNamed
INVARIANT FollowTellsEachEventOnce
