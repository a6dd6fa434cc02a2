CONSTANTS
  MaxLines = 2
  MaxSignals = 2
  MaxFaults = 1
  IdleFor = 2
  PingWait = 1
  Kinds <- MCKinds
SPECIFICATION HotFairSpec
CHECK_DEADLOCK FALSE
INVARIANT ReloadKeepsTheLines
INVARIANT WatchdogSparesTheLively
PROPERTY EveryRequestAnswered
PROPERTY WedgedClientIsLetGo
