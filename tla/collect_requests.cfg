SPECIFICATION Spec
CONSTANTS
  f1 = f1
  f2 = f2
  Fru <- TwoFrus
  HandlesPresence <- OneFru
  PowerOffOnly <- None
  Pass1Pcie <- OneFru
  MaxThreads = 2
  MaxRetry = 1
  MaxRounds = 2
  MaxRestarts = 0
  Env <- ChassisOnOff
INVARIANTS
  TypeOK
  PermitsAccounted
  CountIsExact
  NoLostCompletion
  OneTimer
  SettledFru
  FailedIsCleared
PROPERTIES KeepsProgress
CHECK_DEADLOCK FALSE
