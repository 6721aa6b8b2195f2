SPECIFICATION Spec
CONSTANTS
  Network = "casper-test"
  Keys <- Four
  Values = {"5", "-5"}
  Numerals <- Seven
  Words = {"seven"}
  Intents <- Transfers
  MayLose = {}
  NULL = NULL
INVARIANT
  SignerIsRequired
CHECK_DEADLOCK FALSE
