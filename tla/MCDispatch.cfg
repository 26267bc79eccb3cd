\* Two processes, one session, two commits, two policies, instants 0 to 2.
SPECIFICATION Spec
CONSTANTS
  p1 = p1
  p2 = p2
  s1 = s1
  c1 = c1
  c2 = c2
  None = None
  Torn = Torn
  Procs = {p1, p2}
  Sessions = {s1}
  Commits = {c1, c2}
  Policies <- MCPolicies
  PacketSets <- MCPacketSets
  Environments <- MCEnvironments
  MaxTime = 2
SYMMETRY MCSymmetry
INVARIANTS TypeOK Removable VerifiedIsObserved AnswerVerifies
CHECK_DEADLOCK FALSE
