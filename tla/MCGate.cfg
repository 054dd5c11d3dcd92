SPECIFICATION Spec
CONSTANTS
  Numbers <- MCNumbers
  Slugs = {"allow", "deny"}
  NoName = "unnamed"
  Versions = {"v1", "v2"}
  Absent = Absent
  Partial = Partial
  Origin <- MCOrigin
  MAX_EDITS = 2
  MAX_COMMITS = 1
  MAX_KILLED = 1
  MAX_KEY = 1
INVARIANTS
  TypeOK
  IInv
  PassedIsReproducible
  CountExposesStale
  ReleasePasses
  FinishedBuildIsComplete
PROPERTIES
  ImplementsRelease
CHECK_DEADLOCK FALSE
