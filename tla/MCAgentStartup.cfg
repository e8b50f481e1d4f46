SPECIFICATION FairSpec
CONSTANTS
  Clients = {c1, c2}
  Agents = {a1, a2}
  None = None
  Stale = Stale
  MaxTries = 2
INVARIANTS TypeOK ServingReachable FailureExplained
PROPERTIES EnsureEnds StartupReleased AgentServes
