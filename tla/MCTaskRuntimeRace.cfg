\* Three workers: one dies inside the lock, two take its lock over at once.
CONSTANTS
  Workers = {w1, w2, w3}
  NoWorker = NoWorker
  LeaseSeconds = {1}
  Outcomes = {"completed"}
  StaleLockAfter = 0
  MaxTime = 1
  MaxTokens = 3
  Hazards <- RacyHazards
SPECIFICATION Spec
INVARIANTS
  ExclusiveLock
CHECK_DEADLOCK FALSE
