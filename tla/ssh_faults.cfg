SPECIFICATION FairSpec
CONSTANTS
  MaxExchange = 1
  MaxChunks = 1
  MaxOther = 0
  SeqLimit = 4
  Secrets <- OneSecret
  Marker = "SSH_TEST_OK"
  Noise = "noise"
  StrictChoices = {FALSE}
  Inputs <- FaultyInputs
  MayDie = TRUE
INVARIANTS
  TraceCoversReleases
PROPERTIES
  NothingLearnedFromTruth
  RecoveryTerminates
CHECK_DEADLOCK FALSE
