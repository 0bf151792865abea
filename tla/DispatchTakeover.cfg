CONSTANTS
  Hubs = {h1, h2}
  NoHub = NoHub
  WorkerOutcomes = {"completed", "cancelled"}
  MaxAttempts = 1
SYMMETRY Symmetry
SPECIFICATION Spec
INVARIANTS
  TypeOK
  OutcomesDelivered
  RecoversFirst
CHECK_DEADLOCK FALSE
