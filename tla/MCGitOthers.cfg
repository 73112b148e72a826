SPECIFICATION Spec
CONSTANTS
  None = None
  Absent = Absent
  Op = {o1, o2}
  Path = {f, g}
  Content = {c}
  Branch = {main, topic}
  MaxCommit = 4
  MaxSession = 1
  MaxOutside = 2
  Outside <- MCOutside
SYMMETRY Interchangeable
INVARIANTS
  TypeOK
  CheckpointHasRef
PROPERTIES
  NothingLost
  FailedUntouched
  AmendsOnlyOwnWip
CHECK_DEADLOCK FALSE
