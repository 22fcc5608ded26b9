SPECIFICATION ProxySpec
CONSTANTS
  i1 = i1
  i2 = i2
  Ids = {i1}
  MaxCommands = 1
  MaxEvents = 0
  MaxWire = 1
INVARIANT RunClosesVm
CHECK_DEADLOCK FALSE
