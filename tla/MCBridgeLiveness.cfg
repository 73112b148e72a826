SPECIFICATION FairSpec
CONSTANTS
  None = None
  Project = {p1}
  Session = {1}
  Op = {o1, o2}
  Reconciler = {r1, r2}
  IdentityOf <- MCIdentityOf
  Kinds = {"write"}
  Faults = {"store", "timeout"}
PROPERTIES
  EveryRequestAnswered
  EveryReconcilerAnswered
  ShutdownCompletes
