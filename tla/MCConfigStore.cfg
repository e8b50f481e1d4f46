SPECIFICATION Spec
CONSTANTS
  Procs = {p1, p2}
  Accounts = {alice, bob}
  Settings = {key}
  None = None
  Torn = Torn
INVARIANTS TypeOK FilesWhole AccountsKept LogoutSticks
PROPERTIES FailsOnlyInCrowd
SYMMETRY MCSymmetry
