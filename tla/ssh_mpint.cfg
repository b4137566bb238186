SPECIFICATION Spec
CONSTANTS
  MaxExchange = 0
  MaxChunks = 1
  MaxOther = 0
  SeqLimit = 4
  Secrets <- ZeroSecrets
  Marker = "SSH_TEST_OK"
  Noise = "noise"
  StrictChoices = {TRUE}
  Inputs <- IntactInputs
  MayDie = FALSE
INVARIANT
  WholeSessionRecovered
CHECK_DEADLOCK FALSE
