\* Two workers on one task, every crash and every failing write.
CONSTANTS
  Workers = {w1, w2}
  NoWorker = NoWorker
  LeaseSeconds <- MCLeaseSeconds
  Outcomes = {"completed"}
  StaleLockAfter = 1
  MaxTime = 3
  MaxTokens = 2
  Hazards <- MCHazards
SPECIFICATION Spec
SYMMETRY MCSymmetry
INVARIANTS
  TypeOK
  ExclusiveLock
  OneHolder
PROPERTIES
  AuditMatchesState
  ImplementsTaskLease
CHECK_DEADLOCK FALSE
