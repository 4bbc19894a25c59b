SPECIFICATION FairSpec
CONSTANTS
  e1 = e1
  e2 = e2
  e3 = e3
  Events = {e1, e2, e3}
  Time <- TimeDef
  Id <- IdDef
  Price <- PriceDef
  MinuteTicks = 2
  Malformed = Malformed
  NoRow = NoRow
  Unread = Unread
  Unavailable = Unavailable
  Workers = {"w1"}
  BatchCount = 1
  RetryLimit = 2
  StreamMaxLen = 1
  MaxEntries = 2
  MaxFaults = 1
  Retention = 2
  Timeframes = {2, 4}
  Limit = 2
  Start = 3
  MaxNow = 4
INVARIANTS
  AckedIsArchived
  HistoryExact
PROPERTIES
  ArchiveMerges
  EntriesSettle
CHECK_DEADLOCK FALSE
