SPECIFICATION LiveSpec
CONSTANTS
  Plan <- MCPlan
  PhaseOf <- MCPhaseOf
  DependsOn <- MCDependsOn
  ConflictKeys <- MCConflictKeys
  MaxConcurrent = 3
  ResumeSets <- MCResumeSets
  MaxRepairs = 2
  MaxRetries = 1
  MaxGateRepairs = 1
INVARIANTS
  TypeOK
  CompletedIsVerified
  CancellationReaches
  StableOrder
  ArtifactsAccounted
PROPERTIES
  WaveReturns
  JobEnds
CHECK_DEADLOCK FALSE
