SPECIFICATION Spec
CONSTANTS
  c1 = c1
  c2 = c2
  i1 = i1
  i2 = i2
  Connections = {c1, c2}
  Instances = {i1, i2}
  Home <- HomeTwo
  Symbols = {btc}
  NoSymbol = NoSymbol
  MaxFaults = 2
  MaxEvents = 2
INVARIANTS
  TypeOK
  SingleActivator
  SubscribedIsServed
CHECK_DEADLOCK FALSE
SYMMETRY InstanceSymmetry
