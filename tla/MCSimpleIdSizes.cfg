SPECIFICATION SimpleSpec
CONSTANTS
  c1 = c1
  c2 = c2
  c3 = c3
  Calls = {c1}
  PacketIds = {1, 2}
  OneWayIds = {}
  MaxPacketId = 2
  IdSizesCalls = {c1}
  NoCall = NoCall
  MaxEvents = 1
  MaxWire = 2
PROPERTY DecodedWithVmSizes
CHECK_DEADLOCK FALSE
