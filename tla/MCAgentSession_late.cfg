SPECIFICATION Spec
CONSTANTS
  Clients = {c1, c2}
  Keys = {k1}
  None = None
  Idle = 2
  Absolute = 4
  Period = 2
  MaxOp = 2
SYMMETRY ClientSymmetry
INVARIANTS UsedInTime
