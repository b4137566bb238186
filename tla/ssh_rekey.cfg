SPECIFICATION Spec
CONSTANTS
  MaxExchange = 2
  MaxChunks = 2
  MaxOther = 1
  SeqLimit = 5
  Secrets <- OneSecret
  Marker = "SSH_TEST_OK"
  Noise = "noise"
  StrictChoices = {TRUE, FALSE}
  Inputs <- IntactInputs
  MayDie = FALSE
INVARIANTS
  CausalRelease
  RecoveredIsPrefix
  SuccessIsComplete
  WholeSessionRecovered
PROPERTY
  LadderSpec
CHECK_DEADLOCK FALSE
