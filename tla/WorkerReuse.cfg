CONSTANTS
  Workers = {w1}
  NoWorker = NoWorker
  Attempts = {a1, a2}
  NoAttempt = NoAttempt
  MaxRestarts = 0
SPECIFICATION LiveSpec
PROPERTIES
  DeadNotOffered
  MessagesTaken
CHECK_DEADLOCK FALSE
