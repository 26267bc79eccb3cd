\* Every campaign of three tasks, each view, one answer of campaign-status after another, no hazards.
SPECIFICATION BoardSpec
CONSTANTS
  t1 = t1
  t2 = t2
  t3 = t3
  stray = stray
  Tasks = {t1, t2, t3}
  Campaigns <- MCCampaigns
  Ends = {"released", "complete", "cancelled"}
  Views = {"leases", "overlay", "accepted"}
  MaxAttempts = 2
  MaxClaims = 3
  Hazards <- NoHazards
INVARIANTS BoardTypeOK ValidationIsRight SerialAccess FoundationsStand AttemptsBounded FailurePropagates AnswerStands
SYMMETRY MCSymmetry
CHECK_DEADLOCK FALSE
