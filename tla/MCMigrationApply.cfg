\* Two processes, two plans of one contract each, two applies, any rollbacks, every crash and
\* every failing write, the writes that bring a file back included.
SPECIFICATION Spec
CONSTANTS
  p1 = p1
  p2 = p2
  Procs = {p1, p2}
  Nobody = Nobody
  Dead = Dead
  Unknown = Unknown
  Contracts = {"campaign", "handoff"}
  Versions = {1, 2}
  Absent = 0
  Plans <- BriefPlans
  Original <- MCOriginal
  MaxApplies = 2
  Hazards <- BadDisk
SYMMETRY MCSymmetry
INVARIANTS TypeOK OneMigration SettledBeforeWork AnswerHolds
CHECK_DEADLOCK FALSE
