SPECIFICATION Spec
CONSTANTS
  blank = blank
  v1 = v1
  v2 = v2
  absent = absent
  Value <- ThreeValues
  Default <- blank
  NoValue <- absent
  Kinds <- OnlyCache
  Faults <- WriteFaults
PROPERTIES BackupIsKept
