SPECIFICATION FairSpec
CONSTANTS
  p1 = p1
  p2 = p2
  c1 = c1
  c2 = c2
  btc = btc
  eth = eth
  Processors = {p1, p2}
  Connections = {c1}
  Elsewhere = {c2}
  Symbols = {btc, eth}
  NoSymbol = NoSymbol
  Rank <- RankDef
  MaxConnections = 1
  MaxSymbols = 2
  BufferSize = 1
  MaxQuotes = 2
  MaxCommands = 3
  MaxFaults = 1
INVARIANTS
  HubIndexExact
  DeliveredIsRegistered
  NoGap
  LiveInOrder
  EndedLeavesNothing
PROPERTIES
  EventuallyCurrent
CHECK_DEADLOCK FALSE
