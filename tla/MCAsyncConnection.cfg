SPECIFICATION FairAsyncSpec
CONSTANTS
  c1 = c1
  c2 = c2
  g1 = g1
  g2 = g2
  k1 = k1
  k2 = k2
  Calls = {c1}
  Getters = {g1}
  Closers = {k1, k2}
  PacketIds = {1, 2}
  OneWayIds = {1}
  MaxPacketId = 2
  IdSizesCalls = {}
  NoCall = NoCall
  MaxEvents = 2
  MaxWire = 1
INVARIANTS AsyncTypeOK CommandsInOrder CloseLeavesNothingOpen
PROPERTIES AcceptedOnlyWithReader ImplementsSimple CloseEndsEverything
CHECK_DEADLOCK FALSE
