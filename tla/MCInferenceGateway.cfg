SPECIFICATION Spec
CONSTANTS
  t1 = t1
  t2 = t2
  laptop = laptop
  server = server
  free = free
  paid = paid
  other = other
  Threads = {t1, t2}
  Quota <- MCQuota
  NameRank <- MCNameRank
  None = None
  Torn = Torn
  Garbled = Garbled
  Providers = {laptop, free, paid}
  Names = {laptop, free, paid, other}
  HasCredential = {laptop, free}
  MaxDailyRequests = 1
  MaxDailyTokens = 2
  TokenCounts = {1}
  MaxRequests = 3
  MaxDisturbances = 1
SYMMETRY Symmetry
CONSTRAINT Bounded
INVARIANTS TypeOK AnsweredIsRecorded RecordedOnce NoSilentSubstitution OvershootBounded
CHECK_DEADLOCK FALSE
