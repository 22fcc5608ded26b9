SPECIFICATION FairAsyncSpec
CONSTANTS
  c1 = c1
  c2 = c2
  g1 = g1
  g2 = g2
  k1 = k1
  k2 = k2
  Calls = {c1}
  Getters = {}
  Closers = {k1}
  PacketIds = {1, 2}
  OneWayIds = {}
  MaxPacketId = 2
  IdSizesCalls = {}
  NoCall = NoCall
  MaxEvents = 1
  MaxWire = 1
PROPERTY NoCallOutlivesReadTask
CHECK_DEADLOCK FALSE
