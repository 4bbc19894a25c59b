SPECIFICATION Spec
CONSTANTS
  p1 = p1
  p2 = p2
  c1 = c1
  c2 = c2
  btc = btc
  eth = eth
  Processors = {p1}
  Connections = {c1}
  Elsewhere = {}
  Symbols = {btc}
  NoSymbol = NoSymbol
  Rank <- RankDef
  MaxConnections = 1
  MaxSymbols = 1
  BufferSize = 2
  MaxQuotes = 2
  MaxCommands = 1
  MaxFaults = 0
INVARIANTS
  SnapshotBeforeLive
CHECK_DEADLOCK FALSE
