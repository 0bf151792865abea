CONSTANTS
  Hubs = {h1}
  NoHub = NoHub
  WorkerOutcomes = {"completed"}
  MaxAttempts = 1
SPECIFICATION Spec
PROPERTY SafeReset
CHECK_DEADLOCK FALSE
