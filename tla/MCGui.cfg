SPECIFICATION FairSpec
CONSTANTS
  Accounts = {alice, bob}
  None = None
  MaxClicks = 2
  MaxChanges = 1
INVARIANTS TypeOK RecordsGone
PROPERTIES SyncFresh RevealEnds Converges
CHECK_DEADLOCK FALSE
