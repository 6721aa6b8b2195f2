SPECIFICATION Spec
CONSTANTS
  Network = "casper-test"
  Keys <- Four
  Values = {"5", "-5"}
  Numerals <- Seven
  Words = {"seven"}
  Intents <- Plain
  MayLose = {}
  NULL = NULL
INVARIANT
  InvalidIsReported
CHECK_DEADLOCK FALSE
