CONSTANTS
  Dispatchers = {h1, h2}
  WorkerOutcomes = {"completed", "cancelled"}
  MaxAttempts = 2
  MaxTokens = 3
SYMMETRY Symmetry
SPECIFICATION Spec
INVARIANTS
  TypeOK
  RecoveryNeverConflicts
  RecordedIsPublished
  TerminalAgreement
  TokensIdentifyAttempts
PROPERTIES
  OutcomeDecidedOnce
  SupersededFrozen
  ImplementsLedger
CHECK_DEADLOCK FALSE
