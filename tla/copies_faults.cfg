SPECIFICATION Spec
CONSTANTS
  blank = blank
  v1 = v1
  v2 = v2
  absent = absent
  Value <- ThreeValues
  Default <- blank
  NoValue <- absent
  Kinds <- AllKinds
  Faults <- AllFaults
SYMMETRY SetValues
INVARIANTS
  TypeOK
  GuardBalanced
  AckedIsKept
  CopiesAgree
  InheritedFollowBase
PROPERTIES SetValueSurvives
