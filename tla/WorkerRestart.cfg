CONSTANTS
  Workers = {w1, w2, w3}
  NoWorker = NoWorker
  Attempts = {a1}
  NoAttempt = NoAttempt
  MaxRestarts = 1
SYMMETRY Symmetry
SPECIFICATION Spec
INVARIANTS
  TypeOK
  RestartsBounded
CHECK_DEADLOCK FALSE
