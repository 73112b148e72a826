SPECIFICATION ServiceSpec
CONSTANTS
  Launcher = {l1}
  Pid = {p1, p2, p3}
  NoPid = NoPid
  MaxBirth = 4
SYMMETRY Interchangeable
INVARIANTS
  ServiceTypeOK
  NoForeignSignal
  NothingUntracked
  AtMostOneOfEach
PROPERTIES
  StopLeavesNothing
  StartedMeansServing
CHECK_DEADLOCK FALSE
