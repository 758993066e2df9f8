SPECIFICATION Spec
CONSTANTS
  f1 = f1
  f2 = f2
  Fru <- TwoFrus
  HandlesPresence <- None
  PowerOffOnly <- None
  Pass1Pcie <- None
  MaxThreads = 1
  MaxRetry = 1
  MaxRounds = 1
  MaxRestarts = 0
  Env <- None
INVARIANTS CompletedMeansAllBack
CHECK_DEADLOCK FALSE
