SPECIFICATION Spec
CONSTANTS
  None = None
  Project = {p1}
  Session = {1, 3}
  Op = {o1, o2}
  Reconciler = {r1}
  IdentityOf <- MCIdentityOf
  Kinds = {"read", "write", "checkpoint", "restore"}
  Faults = {}
SYMMETRY Interchangeable
INVARIANTS
  TypeOK
  OneActiveMutation
  AtMostOnce
  ApprovedBeforeRun
  ApprovalMatchesState
  SucceededIsEvidenced
  NeverOrphaned
  LockExclusion
PROPERTIES
  NoGuessedFailure
  KeepsPromise
