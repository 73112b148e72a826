SPECIFICATION FairPool
CONSTANTS
  Project = {p1}
  Version = {1, 2}
  Caller = {c1, c2, c3}
  Worker = {w1, w2}
  NoWorker = NoWorker
INVARIANTS
  PoolTypeOK
  OnlyDesertedAreForgotten
  AnsweredMeansOver
PROPERTIES
  EveryCallEnds
CHECK_DEADLOCK FALSE
