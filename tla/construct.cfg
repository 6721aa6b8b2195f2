SPECIFICATION Spec
CONSTANTS
  Network = "casper-test"
  Keys <- Four
  Values = {"5", "-5"}
  Numerals <- Seven
  Words = {"seven"}
  Intents <- Everything
  MayLose = {"target_addr", "transfer_id", "unsigned"}
  NULL = NULL
INVARIANTS
  IntentSurvives
PROPERTIES
  ImplementsIntent
CHECK_DEADLOCK FALSE
