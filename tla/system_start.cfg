SPECIFICATION Spec
CONSTANTS
  P10Im <- TenOnly
  P11Im <- ElevenOnly
  OtherIm <- SomeOther
  ToP11 <- Upgrade
  NoIm = "none"
  SingleFabBuild = TRUE
  Faults <- AllFaults
  MaxPolls = 2
INVARIANTS
  TypeOK
  WorkerFits
  StartsAgain
  WaitIsHonest
PROPERTY
  NoRebootLoop
