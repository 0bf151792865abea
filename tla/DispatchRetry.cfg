CONSTANTS
  Hubs = {h1}
  NoHub = NoHub
  WorkerOutcomes = {"completed", "blocked", "cancelled"}
  MaxAttempts = 2
SPECIFICATION LiveSpec
PROPERTIES
  ImplementsLedger
  FinalizedOrRetried
  ClaimsSettle
CHECK_DEADLOCK FALSE
