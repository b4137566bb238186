SPECIFICATION RelaySpec
CONSTANTS
  Total <- TwoAndThree
  Room = 2
  Exchanges = 1
INVARIANT
  ForwardsOpenConnection
CHECK_DEADLOCK FALSE
