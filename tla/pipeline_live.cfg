SPECIFICATION FairSpec
CONSTANTS
  p1 = p1
  p2 = p2
  e1 = e1
  e2 = e2
  e3 = e3
  btc = btc
  Processors = {p1}
  Events = {e1, e2, e3}
  Symbol <- SymbolTriple
  Sequence <- SequenceTriple
  Malformed = Malformed
  NoSequence = NoSequence
  NoEvent = NoEvent
  RetryLimit = 2
  BatchCount = 2
  StreamMaxLen = 1
  MaxEntries = 2
  MaxFaults = 1
  MaxCrashes = 1
INVARIANTS
  GapsFlagged
  LatestIsNewest
PROPERTIES
  SequenceNeverDecreases
  QuotesPublished
  PendingSettles
CHECK_DEADLOCK FALSE
