\* One process that neither dies nor competes; writes fail, also those that
\* bring a file back.
SPECIFICATION Spec
CONSTANTS
  p1 = p1
  p2 = p2
  Procs = {p1}
  Nobody = Nobody
  Dead = Dead
  Unknown = Unknown
  Contracts = {"campaign", "handoff"}
  Versions = {1, 2}
  Absent = 0
  Plans <- MCPlans
  Original <- MCOriginal
  MaxApplies = 2
  Hazards <- WornDisk
INVARIANTS IncompleteRollbackBlocks
CHECK_DEADLOCK FALSE
