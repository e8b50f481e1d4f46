SPECIFICATION Spec
CONSTANTS
  d1 = d1
  v1 = v1
  Users = {u1}
  Procs = {p1, p2}
  Devices = {p1, p2}
  DeviceOf <- OwnDevice
  VaultIds = {v1, v2}
  SecretIds = {s1, s2}
  Names = {n1, n2}
  Passwords = {m1}
  Texts = {t1}
  Private <- Mode
  None = None
  Ops <- AccountOps
  Kills = TRUE
  MaxVersion = 2
INVARIANTS RecordsReadable BackupReadable
SYMMETRY Symmetry
PROPERTIES ServerSteps StaleRefusedBeforeBackup
