--------------------------- MODULE MCCoordinator ----------------------------
(* Coordinator on small instances: one task with both gates, one with none. *)
EXTENDS Coordinator, TLC

CONSTANTS p1, p2

HandedOver(campaign, task, handoff, status) ==
  [campaign |-> campaign, task |-> task, handoff |-> handoff, status |-> status,
   audited |-> TRUE, reviewer |-> FALSE, gate |-> FALSE, approval |-> FALSE]

(* The same complete handoff without approvals, with the callers' flags,   *)
(* and with an approval receipt; one for the other task; one that was not  *)
(* audited; one of another campaign.                                       *)
Bare == HandedOver("study", "gated", "h1", "complete")
Flagged == [Bare EXCEPT !.reviewer = TRUE, !.gate = TRUE]
Approved == [Bare EXCEPT !.reviewer = TRUE, !.approval = TRUE]
Free == HandedOver("study", "free", "h2", "complete")
Unaudited == [Free EXCEPT !.audited = FALSE]
Foreign == HandedOver("other", "free", "h3", "failed")

MCRequests == {Flagged, Approved, Free, Unaudited, Foreign}

MCSymmetry == Permutations({p1, p2})
=============================================================================
