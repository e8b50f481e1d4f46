SPECIFICATION Spec
CONSTANTS
  d1 = d1
  v1 = v1
  Users = {u1, u2}
  Procs = {p1}
  Devices = {d1}
  DeviceOf <- OneDevice
  VaultIds = {v1, v2}
  SecretIds = {s1, s2}
  Names = {n1}
  Passwords = {m1}
  Texts = {t1}
  Private <- Mode
  None = None
  Ops <- AllOps
  Kills = FALSE
  MaxVersion = 2
INVARIANTS TypeOK RecordsReadable KeyOfSession LogoutClears
