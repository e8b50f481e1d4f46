SPECIFICATION FairSpec
CONSTANTS
  k1 = k1
  k2 = k2
  e1 = e1
  Threads = {t1, t2}
  Keys <- MCKeys
  Emails <- MCEmails
  EmailOf <- MCEmailOf
  Attempts = 2
  Window = 2
  MaxKeys = 1
  MaxLag = 1
INVARIANTS TypeOK OvershootBounded
PROPERTIES NoStaleRefusal LimitLifts
