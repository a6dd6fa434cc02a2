CONSTANTS
  s1 = s1
  t1 = t1
  t2 = t2
  Server <- MCServer
  Tool <- MCTool
  Proc <- MCProc
  Latest = 2
  Rebuilds = {2}
  Found = {0}
  MaxCrashes = 1
  Times <- MCTimes
  Day = 2
  Week = 4
  Recent = 1
  Dailies = 1
  Weeklies = 2
  MaxInodes = 4
  MaxStarts = 3
  MaxClock = 2
  Interval = 1
SPECIFICATION HomeFairSpec
CHECK_DEADLOCK FALSE
INVARIANT OpenedIsCurrent
INVARIANT LadderHolds
 
PROPERTY BootEnds
