SPECIFICATION PoolSpec
CONSTANTS
  Project = {p1}
  Version = {1}
  Caller = {c1, c2, c3}
  Worker = {w1, w2, w3}
  NoWorker = NoWorker
INVARIANTS
  CallsSerialized
CHECK_DEADLOCK FALSE
