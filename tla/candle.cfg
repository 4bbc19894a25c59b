SPECIFICATION UFairSpec
CONSTANTS
  w1 = w1
  w2 = w2
  w3 = w3
  w4 = w4
  e1 = e1
  e2 = e2
  e3 = e3
  e4 = e4
  m1 = m1
  m2 = m2
  btc = btc
  Workers = {w1, w2, w3, w4}
  Events = {e1, e2, e3, e4}
  Bucket <- BucketDef
  Key <- KeyDef
  Price <- PriceDef
  SymbolOf <- SymbolDef
  NoCandle = NoCandle
  NoEvent = NoEvent
  UpdateRetryLimit = 2
INVARIANTS
  CandlesAggregate
  ConflictsAreProgress
  LatestInHistory
PROPERTIES
  AtomicMerges
  CallsEnd
CHECK_DEADLOCK FALSE
