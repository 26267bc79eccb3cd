----------------------------- MODULE CampaignRun -----------------------------
(***************************************************************************)
(* A campaign at work: validate_campaign lets it start, the scheduler says *)
(* which tasks are ready, a worker claims one (task-claim), its lease      *)
(* expires or is released with an outcome (task-release), its handoff is   *)
(* audited and accepted (campaign-accept), and the schedule is asked again.*)
(*                                                                          *)
(* The parts are taken at their word: a lease is the indivisible lease of  *)
(* TaskLease, its clock reduced to whether it has expired, and an          *)
(* acceptance is one of Coordinator's, with its gates.                     *)
(***************************************************************************)
EXTENDS Scheduler, Campaign, Sequences, FiniteSets

CONSTANTS Tasks,      \* the tasks of a campaign
          Campaigns,  \* the campaigns that may be started
          Ends,       \* the outcomes a worker releases a task with
          Views,      \* the snapshots a schedule may be computed from
          MaxClaims,  \* bound: claims of a task
          Hazards     \* what the host's main agent may do, see below

(* What a schedule is computed from: the leases (campaign-status), the     *)
(* leases under the accepted outcomes (CampaignCoordinator.schedule), or   *)
(* the accepted outcomes alone (the answer of campaign-accept).            *)
AllViews == {"leases", "overlay", "accepted"}

(* "unscheduled": a task is claimed that no schedule says is ready.        *)
(* "early"      : a handoff is accepted while its task is leased or before *)
(*                it ever was, or a task is released as complete before    *)
(*                its handoff is accepted.                                 *)
(* "late"       : a handoff is accepted for a task accepted as completed.  *)
AllHazards == {"unscheduled", "early", "late"}

(* campaign.yaml gives every task its dependencies, and its paths as        *)
(* sequences of parts.                                                     *)
ASSUME CampaignRunAssumption ==
  /\ IsFiniteSet(Tasks)
  /\ \A c \in Campaigns : /\ DOMAIN c.deps = Tasks
                           /\ \A t \in Tasks : \A p \in c.scope[t] :
                                 p \in Seq({p[i] : i \in DOMAIN p})
  /\ Ends \subseteq Outcomes
  /\ Views \subseteq AllViews
  /\ MaxClaims \in Nat
  /\ Hazards \subseteq AllHazards

VARIABLES campaign,  \* campaign.yaml
          approved,  \* whether it passes validate_campaign
          view,      \* where schedules come from
          leases,    \* the state file of every task
          accepted   \* the coordinator's outcomes

vars == <<campaign, approved, view, leases, accepted>>

NotAccepted == [status |-> "none", attempt |-> 0]

Init ==
  /\ campaign \in Campaigns
  /\ approved = IsValid(campaign)
  /\ view \in Views
  /\ leases = [t \in Tasks |-> NoSnapshot]
  /\ accepted = [t \in Tasks |-> NotAccepted]

Working(t) == leases[t].status = "leased" /\ leases[t].live

-----------------------------------------------------------------------------
(* Mutant: the accepted entry's attempt replaces the lease's. *)
OverlaidEntirely(snapshot, entry) ==
  IF entry.status = "none" THEN snapshot
  ELSE [snapshot EXCEPT
          !.status = IF entry.status = "blocked" THEN "cancelled" ELSE entry.status,
          !.attempt = entry.attempt]

(* CampaignCoordinator.schedule: an accepted outcome hides the lease's; a   *)
(* gate that was not passed makes it final.                                *)
Overlaid(snapshot, entry) ==
  IF entry.status = "none" THEN snapshot
  ELSE [snapshot EXCEPT
          !.status = IF entry.status = "blocked" THEN "cancelled" ELSE entry.status,
          !.attempt = IF entry.attempt > @ THEN entry.attempt ELSE @]

Seen ==
  [t \in Tasks |->
     IF view = "leases" THEN leases[t]
     ELSE Overlaid(IF view = "overlay" THEN leases[t] ELSE NoSnapshot, accepted[t])]

Decisions == Schedule(campaign, Seen)

-----------------------------------------------------------------------------
(* A claim that follows a schedule at once.  The command itself asks only  *)
(* that the campaign is valid and that no live lease is there.             *)
Claim(t) ==
  /\ approved
  /\ leases[t].attempt < MaxClaims
  /\ Decisions[t] \in Ready \/ "unscheduled" \in Hazards
  /\ ~Working(t)
  /\ leases' = [leases EXCEPT ![t] = [status |-> "leased", attempt |-> @.attempt + 1,
                                      live |-> TRUE]]
  /\ UNCHANGED <<campaign, approved, view, accepted>>

Expire(t) ==
  /\ Working(t)
  /\ leases' = [leases EXCEPT ![t].live = FALSE]
  /\ UNCHANGED <<campaign, approved, view, accepted>>

(* Where accepted outcomes count, completion is left to them. *)
Release(t) ==
  /\ Working(t)
  /\ \E end \in Ends :
        /\ view = "leases" \/ end \notin Complete \/ "early" \in Hazards
        /\ leases' = [leases EXCEPT ![t].status = end, ![t].live = FALSE]
  /\ UNCHANGED <<campaign, approved, view, accepted>>

(* Mutant: the status the handoff reports is the one that counts. *)
AcceptAsReported(t) ==
  /\ approved
  /\ leases[t].attempt > 0
  /\ ~Working(t)
  /\ accepted[t].status # "completed"
  /\ \E status \in {"complete", "blocked", "failed"} :
        accepted' = [accepted EXCEPT ![t] = [status |-> status, attempt |-> leases[t].attempt]]
  /\ UNCHANGED <<campaign, approved, view, leases>>

(* accept_dispatch_handoff: the envelope and the handoff belong to the     *)
(* campaign; a complete handoff counts once its gates are passed and is    *)
(* "blocked" otherwise.  campaign-accept passes no snapshots on, so the    *)
(* attempt is that of the entry before.                                    *)
Accept(t) ==
  /\ approved
  /\ (leases[t].attempt > 0 /\ ~Working(t)) \/ "early" \in Hazards
  /\ accepted[t].status # "completed" \/ "late" \in Hazards
  /\ \E status \in {"completed", "blocked", "failed"} :
        accepted' = [accepted EXCEPT ![t] =
                       [status |-> status,
                        attempt |-> IF view = "overlay" THEN leases[t].attempt ELSE @.attempt]]
  /\ UNCHANGED <<campaign, approved, view, leases>>

Next == \E t \in Tasks : Claim(t) \/ Expire(t) \/ Release(t) \/ Accept(t)

Spec == Init /\ [][Next]_vars

-----------------------------------------------------------------------------
TypeOK ==
  /\ campaign \in Campaigns
  /\ approved \in BOOLEAN
  /\ view \in Views
  /\ leases \in [Tasks -> Snapshots]
  /\ accepted \in [Tasks -> [status : {"none", "completed", "blocked", "failed"},
                             attempt : Nat]]

(* A path that both tasks may write: their scopes agree as far as they go.  *)
ShareAPath(s, t) ==
  \E p \in campaign.scope[s], q \in campaign.scope[t] :
     \A i \in DOMAIN p \cap DOMAIN q : p[i] = q[i]

(* What a task depends on among some tasks, however far down: what is in    *)
(* every set of them that has its dependencies, and those of its members.  *)
Below(tasks, deps, t) ==
  {d \in tasks : \A S \in SUBSET tasks :
     (\A x \in S \cup {t} : deps[x] \cap tasks \subseteq S) => d \in S}

(* validate_campaign's searches tell right: a campaign may start exactly if *)
(* it has no cycle, no stray dependency, and only tasks ordered by         *)
(* dependencies share a path ("an explicit dependency is the opt-in        *)
(* mechanism for serial access to the same path", campaign.py, line 125).  *)
ValidationIsRight ==
  LET below(t) == Below(Tasks, campaign.deps, t)
  IN  approved <=>
        /\ \A t \in Tasks : campaign.deps[t] \subseteq Tasks /\ campaign.scope[t] # {}
        /\ \A t \in Tasks : t \notin below(t)
        /\ \A s, t \in Tasks :
              ShareAPath(s, t) => s = t \/ s \in below(t) \/ t \in below(s)

(* No two workers hold tasks that may write the same path: the scopes of a *)
(* campaign are disjoint where tasks are unordered, and where they are     *)
(* ordered the schedule and the leases keep them apart, through expiry,    *)
(* failure and retry.                                                      *)
SerialAccess ==
  \A s, t \in Tasks : Working(s) /\ Working(t) /\ ShareAPath(s, t) => s = t

(* While a task is worked on, all it depends on stays completed: nothing a *)
(* schedule has built upon is ever taken up again.                         *)
FoundationsStand ==
  \A t \in Tasks : Working(t) => \A d \in campaign.deps[t] : Decisions[d] = "completed"

(* "Bound attempts for failed or expired work" (scheduler.py, line 21), in  *)
(* every schedule that sees the leases.                                    *)
AttemptsBounded == view # "accepted" => \A t \in Tasks : leases[t].attempt <= MaxAttempts

(* Failure is propagated transitively, and blames nothing else: a task is  *)
(* given up exactly if it failed for good, or a chain of unfinished tasks  *)
(* leads from it to one that did.  So a campaign in which nothing is ready *)
(* or leased waits for nothing: what is unfinished there has failed.       *)
FailurePropagates ==
  approved =>
    LET settled == {t \in Tasks : Decisions[t] \in {"completed", "active_lease"}}
        lost == {t \in Tasks \ settled : Decisions[t] \in {"terminal_failure", "retries_exhausted"}}
        given_up == {t \in Tasks \ settled :
                       t \in lost \/ Below(Tasks \ settled, campaign.deps, t) \cap lost # {}}
    IN  /\ \A t \in Tasks : Decisions[t] \in Failed <=> t \in given_up
        /\ (\A t \in Tasks : Decisions[t] \notin Ready \cup {"active_lease"})
             => Tasks = given_up \cup settled
=============================================================================
