SPECIFICATION Spec
CONSTANTS
  Keywords <- AllKeywords
  BaAttr <- OneBit
  Fco <- SomeFco
  Unset = unset
  Blank = blank
  Faults <- AllFaults
  MaxSignals = 2
INVARIANTS
  TypeOK
  SidesAgree
  ChoiceSurvives
  FixLeavesNoMismatch
