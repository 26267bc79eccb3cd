\* Two processes, four calls, every crash and every failing write.
SPECIFICATION Spec
CONSTANTS
  p1 = p1
  p2 = p2
  Procs = {p1, p2}
  Nobody = Nobody
  Left = Left
  Tasks = {"gated", "free"}
  NeedsReview = {"gated"}
  NeedsHuman = {"gated"}
  Requests <- MCRequests
  Attempts = {1}
  NoCampaign = "none"
  NoTask = "none"
  MaxCalls = 4
  Hazards = {"crash", "fault"}
SYMMETRY MCSymmetry
INVARIANTS
  TypeOK StateIsLogged GatesFailClosed LogStaysReadable
  NoRecordRepeated AnswerIsMaterialised
PROPERTIES StateFollowsLog
CHECK_DEADLOCK FALSE
