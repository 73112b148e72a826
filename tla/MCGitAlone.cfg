SPECIFICATION Spec
CONSTANTS
  None = None
  Absent = Absent
  Op = {o1, o2, o3}
  Path = {f}
  Content = {c, d}
  Branch = {main}
  MaxCommit = 4
  MaxSession = 2
  MaxOutside = 0
  Outside = {}
SYMMETRY Interchangeable
PROPERTIES
  SucceededMeansDone
CHECK_DEADLOCK FALSE
