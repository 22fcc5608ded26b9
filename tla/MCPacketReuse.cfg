SPECIFICATION PacketSpec
CONSTANTS
  c1 = c1
  c2 = c2
  Calls = {c1, c2}
  i1 = i1
  i2 = i2
  PacketIds = {i1}
  OneWayIds = {}
  NoCall = NoCall
  MaxEvents = 1
  MaxWire = 2
SYMMETRY Symmetry
INVARIANT WaiterRegistered
CHECK_DEADLOCK FALSE
