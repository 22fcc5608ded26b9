SPECIFICATION FairStreamSpec
CONSTANTS
  Packets <- MCPackets
  NoPacket = NoPacket
  Handshake <- MCHandshake
  Greetings <- MCGreetings
  Malformed <- MCMalformed
  MaxPackets = 2
INVARIANTS StreamTypeOK StreamInv InStep WholePacketsReceived
PROPERTIES ImplementsChannel SentIsReceived
CHECK_DEADLOCK FALSE
