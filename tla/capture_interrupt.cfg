SPECIFICATION Spec
CONSTANTS
  InterruptAt <- OnlyTerminate
  WriterMayCrash = FALSE
INVARIANT
  RegisteredAreEnded
CHECK_DEADLOCK FALSE
