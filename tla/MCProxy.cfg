SPECIFICATION ProxySpec
CONSTANTS
  i1 = i1
  i2 = i2
  Ids = {i1, i2}
  MaxCommands = 2
  MaxEvents = 1
  MaxWire = 1
SYMMETRY IdSymmetry
INVARIANTS ProxyTypeOK LoggedAgainstOwnCommand LoggedWithVmSizes TablesHoldOpenCommands
PROPERTY ForwardsInOrder
CHECK_DEADLOCK FALSE
