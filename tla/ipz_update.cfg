SPECIFICATION Spec
CONSTANTS
  Id = Id
  RT = RT
  PT = PT
  PF = PF
  Vtoc = Vtoc
  VSYS = VSYS
  UTIL = UTIL
  LXR0 = LXR0
  BR = BR
  PoundD = PoundD
  TM = TM
  D0 = D0
  Zero = Zero
  X = X
  Pound <- TwoBytes
  ByteSize = 3
  Name <- AllNames
  Byte <- AllBytes
  Programmed <- TwoRecords
  Targets <- AllTargets
  Values <- SomeValues
  Faults <- AllFaults
  MaxWrites = 2
INVARIANTS
  TypeOK
  ValuesAsWritten
  AlarmHasCause
