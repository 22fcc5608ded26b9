SPECIFICATION FairProxySpec
CONSTANTS
  i1 = i1
  i2 = i2
  Ids = {i1}
  MaxCommands = 1
  MaxEvents = 2
  MaxWire = 1
PROPERTIES SessionEndsWithPeer SessionEndsWithLoop
CHECK_DEADLOCK FALSE
