CONSTANTS
  a1 = a1
  a2 = a2
  Accounts = {a1, a2}
  r1 = r1
  r2 = r2
  Slots = {r1, r2}
  Expiry = 1
  RefreshExpiry = 0
  DefaultRefresh = 2
  MaxTime = 3
  MaxCalls = 3
SPECIFICATION FairSpec
INVARIANTS TypeOK OneRefresh LoginHasTokens TokensOfUser
PROPERTIES RetriedFresh CallsSettle
CHECK_DEADLOCK FALSE
