SPECIFICATION SimpleSpec
CONSTANTS
  c1 = c1
  c2 = c2
  c3 = c3
  Calls = {c1, c2, c3}
  PacketIds = {1, 2}
  OneWayIds = {1, 2}
  MaxPacketId = 2
  IdSizesCalls = {}
  NoCall = NoCall
  MaxEvents = 1
  MaxWire = 1
SYMMETRY CallSymmetry
INVARIANTS SimpleTypeOK SimpleInv WaiterRegistered NoOrphan OwnReply IdsAreFresh
PROPERTY ImplementsExchange
CHECK_DEADLOCK FALSE
