SPECIFICATION FairSpec
CONSTANTS
  Clients = {c1, c2}
  Keys = {k1}
  None = None
  Idle = 1
  Absolute = 3
  Period = 1
  MaxOp = 1
INVARIANTS TypeOK AbsoluteTimeout IdleTimeout
PROPERTIES UnlockEnds ConnectionEnds
