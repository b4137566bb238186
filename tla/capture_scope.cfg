SPECIFICATION FairSpec
CONSTANTS
  InterruptAt <- BodyAndStop
  WriterMayCrash = TRUE
INVARIANTS
  RegisteredAreEnded
  WriterOutlivesSession
  OkMeansClean
PROPERTY
  ScopeEnds
CHECK_DEADLOCK FALSE
