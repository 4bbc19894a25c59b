SPECIFICATION FairSpec
CONSTANTS
  btc = btc
  eth = eth
  Symbols = {btc, eth}
  Rank <- RankDef
  QueueSize = 1
  MaxMessages = 2
  MaxDrops = 1
  MaxControl = 2
  MaxFaults = 1
INVARIANTS
  SessionServesActive
  PublishedInOrder
  ActiveIsWanted
PROPERTIES
  RestoredOrUnanswerable
CHECK_DEADLOCK FALSE
