\* Two processes, two runs, two versions of the input, three transitions;
\* a run counts as two calls, and four are started in all.
SPECIFICATION Spec
CONSTANTS
  p1 = p1
  p2 = p2
  r1 = r1
  r2 = r2
  Procs = {p1, p2}
  Runs = {r1, r2}
  None = None
  Plugins = {"critic"}
  HasSchema = TRUE
  Criteria = TRUE
  MaxInput = 2
  First = {"idea"}
  MaxMoves = 3
  Budget = 4
SYMMETRY MCSymmetry
INVARIANTS TypeOK AnsweredStands PassedRunIsWhole
CHECK_DEADLOCK FALSE
