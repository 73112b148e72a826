SPECIFICATION FairRegistry
CONSTANTS
  Project = {p1}
  Root = {r1, r2}
  Unregistered = Unregistered
  Broken = Broken
  Missing = Missing
  Editor = {e1, e2}
  Windows = {}
  MaxTime = 5
INVARIANTS
  RegistryTypeOK
  NothingOverlooked
PROPERTIES
  KeepsSnapshotPromise
  EventuallyServed
CHECK_DEADLOCK FALSE
