SPECIFICATION Spec
CONSTANTS
  u1 = u1
  u2 = u2
  v1 = v1
  v2 = v2
  v3 = v3
  s1 = s1
  s2 = s2
  s3 = s3
  n1 = n1
  h1 = h1
  x1 = x1
  Users = {u1, u2}
  Devices = {d1, d2}
  VaultIds = {v1, v2, v3}
  SecretIds = {s1, s2, s3}
  Names = {n1}
  NoHash = NoHash
  Headers = {h1}
  Values = {x1}
  Private <- Mode
  VaultOwner <- Owner
  SecretHome <- Home
  Backups <- KeptBackups
  None = None
  MaxVersion = 2
  MaxEvents = 3
SYMMETRY Symmetry
INVARIANTS TypeOK ModeMatches NamesUnique AuditTrail VaultNeverMissing
PROPERTIES TakesEffectAtOnce Isolation
CHECK_DEADLOCK FALSE
