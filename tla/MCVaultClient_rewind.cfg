SPECIFICATION Spec
CONSTANTS
  d1 = d1
  v1 = v1
  Users = {u1}
  Procs = {p1, p2}
  Devices = {p1, p2}
  DeviceOf <- OwnDevice
  VaultIds = {v1}
  SecretIds = {s1}
  Names = {n1}
  Passwords = {m1}
  Texts = {t1, t2}
  Private <- Mode
  None = None
  Ops <- AccountOps
  Kills = FALSE
  MaxVersion = 3
PROPERTIES StaleRefused
