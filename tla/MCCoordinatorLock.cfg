\* Two processes, started twice each: the owner of a lock may die, come back
\* and wait for its own old file beside the other.  Four calls, and every crash
\* and failing write or unlink.
SPECIFICATION FairSpec
CONSTANTS
  p1 = p1
  p2 = p2
  Nobody = Nobody
  Left = Left
  Procs = {p1, p2}
  MaxStarts = 2
  MaxNonces = 4
  Hazards <- MCHazards
INVARIANTS TypeOK MutualExclusion
PROPERTIES ImplementsFileLock DeadOwnersLockReclaimed CallsEnd
CHECK_DEADLOCK FALSE
