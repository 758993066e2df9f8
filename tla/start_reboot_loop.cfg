SPECIFICATION Spec
CONSTANTS
  P10Im <- TenOnly
  P11Im <- ElevenOnly
  OtherIm <- SomeOther
  ToP11 <- Upgrade
  NoIm = "none"
  SingleFabBuild = TRUE
  Faults <- SetenvFails
  MaxPolls = 2
PROPERTY
  RebootsOnce
