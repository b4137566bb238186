SPECIFICATION Spec
CONSTANTS
  Flow <- TwoFlows
  Total <- FiveOctets
  TlsFlow = 1
  Sessions <- AllSessions
  MaxSegment = 5
  PieceSize = 2
  MaxRows = 3
INVARIANTS
  TranscriptIsExact
  ArchiversAgree
  OpaqueIsSealed
  RecordsSurvive
  RecoveryIsFaithful
\* The capture ends.
CHECK_DEADLOCK FALSE
