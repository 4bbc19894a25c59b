SPECIFICATION FairSpec
CONSTANTS
  c1 = c1
  c2 = c2
  i1 = i1
  i2 = i2
  Connections = {c1, c2}
  Instances = {i1}
  Home <- HomeOne
  Symbols = {btc}
  NoSymbol = NoSymbol
  MaxFaults = 0
  MaxEvents = 4
INVARIANTS
  BeatingIsMember
  SubscribedIsServed
  UnusedIsReleased
PROPERTIES
  UpstreamFollowsDemand
CHECK_DEADLOCK FALSE
