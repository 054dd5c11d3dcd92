SPECIFICATION Spec
CONSTANTS
  null = null
  n0 = n0
  n5 = n5
  n9 = n9
  d1 = d1
  d2 = d2
  did = did
  t1 = t1
  t2 = t2
  Null = null
  JsonInt <- MCJsonInt
  JsonText <- MCJsonText
  Text <- MCText
  Vector <- MCVector
  Suites <- MCSuites
INVARIANTS
  TypeOK
  IInv
  PassIsEarned
  TimeoutLeavesNone
PROPERTIES
  ImplementsConformance
  RunEnds
CHECK_DEADLOCK FALSE
