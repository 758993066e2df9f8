SPECIFICATION Spec
CONSTANTS
  error = error
  Holder <- TwoHolders
  Text <- FourTexts
  Invalid = error
  Decode <- Decoded
  Faults <- AllFaults
  MaxWriters = 2
INVARIANTS
  TypeOK
  SyncedWhenIdle
  LoneWriteStays
PROPERTY
  EchoEnds
