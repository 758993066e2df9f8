SPECIFICATION Spec
CONSTANTS
  a = a
  b = b
  none = none
  Part <- TwoParts
  NoPart <- none
  Kinds <- AllKinds
  RuntimeKinds <- AtRuntime
  Faults <- AllFaults
  MaxSignals = 2
SYMMETRY Parts
INVARIANTS
  TypeOK
  NoGhost
  ProgressEnds
  NoPowerLeftOn
