SPECIFICATION Spec
CONSTANTS
  None = None
  Project = {p1}
  Session = {1, 2}
  Op = {o1, o2}
  Reconciler = {}
  IdentityOf <- MCIdentityOf
  Kinds = {"write"}
  Faults = {}
INVARIANT RevokedProjectHasNoActiveSession
