SPECIFICATION FairRelaySpec
CONSTANTS
  Total <- TwoAndThree
  Room = 2
  Exchanges = 2
INVARIANTS
  RecordedBeforeForwarded
  OkIsComplete
PROPERTIES
  ScalarPerExchange
  CaptureEnds
CHECK_DEADLOCK FALSE
