\* Two workers, every hazard: dead, slow and racing processes.
CONSTANTS
  Workers = {w1, w2}
  NoWorker = NoWorker
  LeaseSeconds = {1}
  Outcomes = {"completed"}
  StaleLockAfter = 1
  MaxTime = 2
  MaxTokens = 1
  Hazards <- AllHazards
SPECIFICATION FairSpec
PROPERTIES
  StaleLockCleared
CHECK_DEADLOCK FALSE
