SPECIFICATION Spec
CONSTANTS
  t1 = t1
  t2 = t2
  laptop = laptop
  server = server
  free = free
  paid = paid
  other = other
  Threads = {t1, t2}
  Quota <- MCQuota
  NameRank <- MCNameRank
  None = None
  Torn = Torn
  Garbled = Garbled
  Providers = {laptop, free, paid}
  Names = {laptop, free, paid, other}
  HasCredential = {laptop, free}
  MaxDailyRequests = 2
  MaxDailyTokens = 3
  TokenCounts = {2}
  MaxRequests = 2
  MaxDisturbances = 0
SYMMETRY Symmetry
INVARIANT EveryRequestStored
CHECK_DEADLOCK FALSE
