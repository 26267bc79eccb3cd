\* Two processes, two plans, two applies, any rollbacks, every crash and every
\* failing write but those that cut short what nobody takes up again.
SPECIFICATION Spec
CONSTANTS
  p1 = p1
  p2 = p2
  Procs = {p1, p2}
  Nobody = Nobody
  Dead = Dead
  Unknown = Unknown
  Contracts = {"campaign", "handoff"}
  Versions = {1, 2}
  Absent = 0
  Plans <- MCPlans
  Original <- MCOriginal
  MaxApplies = 2
  Hazards <- MCHazards
SYMMETRY MCSymmetry
PROPERTIES ImplementsMigrationStore
CHECK_DEADLOCK FALSE
