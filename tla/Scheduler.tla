------------------------------ MODULE Scheduler ------------------------------
(***************************************************************************)
(* science_repo/scheduler.py: schedule_campaign, a pure function from a    *)
(* campaign and snapshots of its tasks to a decision for every task.       *)
(*                                                                          *)
(* A decision is its reason; the state it comes with follows from that.    *)
(***************************************************************************)
EXTENDS Integers

CONSTANT MaxAttempts  \* RetryPolicy.max_attempts, the first claim included

ASSUME SchedulerAssumption == MaxAttempts \in Nat \ {0}

Complete == {"complete", "completed"}
Failure == {"failed", "cancelled"}
Retryable == {"failed", "released"}

Failed == {"terminal_failure", "retries_exhausted", "dependency_failed"}
Ready == {"retry", "dependencies_satisfied"}
Reasons == {"completed", "active_lease", "dependencies_incomplete"} \cup Failed \cup Ready

(* What TaskRuntime.inspect tells of a task; "live" stands for an expiry    *)
(* after the instant the schedule is computed for, "other" for an outcome   *)
(* the scheduler does not know.                                            *)
Outcomes == {"released", "other"} \cup Complete \cup Failure
Snapshots == [status : {"none", "leased"} \cup Outcomes, attempt : Nat, live : BOOLEAN]

NoSnapshot == [status |-> "none", attempt |-> 0, live |-> FALSE]

Exhausted(s) ==
  /\ s.attempt >= MaxAttempts
  /\ s.status \in Retryable \/ (s.status = "leased" /\ ~s.live)

Terminal(status, s) ==
  status \in Failure \/ s.status \in Failure \ Retryable

(* Mutant: the attempts are counted before the lease is looked at. *)
AloneExhausted(status, s) ==
  IF status \in Complete \/ s.status \in Complete THEN "completed"
  ELSE IF s.attempt >= MaxAttempts THEN "retries_exhausted"
  ELSE IF s.status = "leased" /\ s.live THEN "active_lease"
  ELSE IF Terminal(status, s) THEN "terminal_failure" ELSE "open"

(* The decision about a task with a status in the manifest, a snapshot, and *)
(* the decisions about its dependencies: what it is by itself, and if that  *)
(* does not settle it, what its dependencies make of it.                   *)
Alone(status, s) ==
  IF status \in Complete \/ s.status \in Complete THEN "completed"
  ELSE IF s.status = "leased" /\ s.live THEN "active_lease"
  ELSE IF Terminal(status, s) THEN "terminal_failure"
  ELSE IF Exhausted(s) THEN "retries_exhausted"
  ELSE "open"

(* Mutant: only what failed by itself counts as failed. *)
GivenOneLevel(s, below) ==
  IF below \cap {"terminal_failure", "retries_exhausted"} # {} THEN "dependency_failed"
  ELSE IF ~(below \subseteq {"completed"}) THEN "dependencies_incomplete"
  ELSE IF s.attempt > 0 THEN "retry" ELSE "dependencies_satisfied"

(* Mutant: a dependency that is being worked on will do. *)
GivenLeased(s, below) ==
  IF below \cap Failed # {} THEN "dependency_failed"
  ELSE IF ~(below \subseteq {"completed", "active_lease"}) THEN "dependencies_incomplete"
  ELSE IF s.attempt > 0 THEN "retry" ELSE "dependencies_satisfied"

Given(s, below) ==
  IF below \cap Failed # {} THEN "dependency_failed"
  ELSE IF ~(below \subseteq {"completed"}) THEN "dependencies_incomplete"
  ELSE IF s.attempt > 0 THEN "retry" ELSE "dependencies_satisfied"

Decision(status, s, below) ==
  IF Alone(status, s) # "open" THEN Alone(status, s) ELSE Given(s, below)

(* decide, for every task of a campaign without cycles. *)
Schedule(campaign, snapshots) ==
  LET decide[t \in DOMAIN campaign.deps] ==
        Decision(campaign.status[t], snapshots[t], {decide[d] : d \in campaign.deps[t]})
  IN  decide
=============================================================================
