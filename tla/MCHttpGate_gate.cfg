SPECIFICATION FairSpec
CONSTANTS
  r1 = r1
  r2 = r2
  r3 = r3
  None = None
  Req = {r1, r2, r3}
  Max = 2
  Limit <- Limits
  Window = 1
  MaxAge = 2
  MaxLag = 1
INVARIANTS TypeOK SlotsAreCalls BurstIsBounded
PROPERTIES FullGateReopens QuotaReturns
