SPECIFICATION FairSpec
CONSTANTS
  f1 = f1
  f2 = f2
  Fru <- TwoFrus
  HandlesPresence <- OneFru
  PowerOffOnly <- OneFru
  Pass1Pcie <- None
  MaxThreads = 1
  MaxRetry = 1
  MaxRounds = 1
  MaxRestarts = 1
  Env <- CallsFail
INVARIANTS
  PermitsAccounted
  NoLostCompletion
PROPERTIES
  KeepsProgress
  ThreadsEnd
  FlagIsSet
  TimerStops
CHECK_DEADLOCK FALSE
