---------------------------- MODULE Coordinator -----------------------------
(***************************************************************************)
(* CampaignCoordinator.accept_handoff (science_repo/coordinator.py): how    *)
(* audited handoffs become accepted task outcomes.  An outcome is first    *)
(* appended to coordinator-events.jsonl and then materialised in           *)
(* coordinator-state.json, both inside the coordinator's lock.             *)
(*                                                                          *)
(* A call checks the handoff, waits for the lock, inspects state and log,  *)
(* repairs the tail of the log, appends, replaces the state, computes the  *)
(* schedule and unlocks.  Calls interleave, a process may die and a write  *)
(* may fail in each of these steps.                                        *)
(***************************************************************************)
EXTENDS Integers, Sequences

CONSTANTS Procs,        \* processes that accept handoffs, one call each
          Nobody, Left, \* the lock is free; its holder left it behind
          Tasks,        \* task ids
          NeedsReview,  \* the tasks with review_required
          NeedsHuman,   \* the tasks with a human_gate
          Requests,     \* the calls callers may make, see RequestType
          Attempts,     \* the attempts a caller's runtime snapshot may show
          NoCampaign,   \* the campaign of a coordinator nobody used yet
          NoTask,       \* not a task: what a corrupt line tells of its task
          MaxCalls,     \* bound: how many calls are made
          Hazards       \* "crash": a process may die; "fault": a write fails

VARIABLES state,     \* coordinator-state.json
          log,       \* the complete records of coordinator-events.jsonl
          tail,      \* how the log file ends, see below
          lock,      \* the holder of coordinator.lock
          pc,        \* where each call stands
          call,      \* the arguments and locals of each call
          calls,     \* how many calls were made so far
          attested   \* history: the handoffs the host's verifier vouched for

disk == <<state, log, tail>>
vars == <<state, log, tail, lock, pc, call, calls, attested>>

Lock == INSTANCE FileLock WITH holder <- lock

-----------------------------------------------------------------------------
(* A call's arguments.  "audited": the campaign, the receipt and the        *)
(* handoff pass _validate_authority and an approval names this handoff.    *)
(* "reviewer" and "gate" are the callers' assertions, "approval" says that *)
(* a human approval receipt comes with the call.                           *)
HandoffStatuses == {"complete", "blocked", "failed"}

RequestType ==
  [campaign : STRING, task : Tasks, handoff : STRING, status : HandoffStatuses,
   audited : BOOLEAN, reviewer : BOOLEAN, gate : BOOLEAN, approval : BOOLEAN]

ASSUME CoordinatorAssumption ==
  /\ Nobody \notin Procs /\ Left \notin Procs /\ Nobody # Left
  /\ NeedsReview \subseteq Tasks /\ NeedsHuman \subseteq Tasks
  /\ NoTask \notin Tasks
  /\ Requests \subseteq RequestType
  /\ Attempts \subseteq Nat
  /\ NoCampaign \in STRING /\ \A r \in Requests : r.campaign # NoCampaign
  /\ MaxCalls \in Nat
  /\ Hazards \subseteq {"crash", "fault"}

(* acceptance_fingerprint: a digest of the whole call, with the verifier's *)
(* verdict; digests of different calls differ.                             *)
Fingerprint(r, verified) == [request |-> r, verified |-> verified]

Statuses == {"completed", "blocked", "failed"}
Fingerprints == [request : Requests, verified : BOOLEAN]

NoRequest ==
  [campaign |-> NoCampaign, task |-> NoTask, handoff |-> "none", status |-> "none",
   audited |-> FALSE, reviewer |-> FALSE, gate |-> FALSE, approval |-> FALSE]
NoFingerprint == Fingerprint(NoRequest, FALSE)

(* The state of a task: task_state. *)
Entries == [fp : Fingerprints, status : Statuses, attempt : Nat]
NoEntry == [fp |-> NoFingerprint, status |-> "none", attempt |-> 0]

(* A line of the log: an accepted outcome, or two records run together. *)
Events == [task : Tasks, entry : Entries]
Corrupt == [task |-> NoTask, entry |-> NoEntry]

(* "whole": the file ends after a record's newline; "torn": it ends inside *)
(* a record that does not count; "open": the last record lacks a newline.  *)
Tails == {"whole", "torn", "open"}

(* "checked": before the lock; then, inside: before reading state and log, *)
(* before the repair, before the append, before the replacement of the     *)
(* state file, before the schedule, before the unlink.                     *)
Inside == {"entered", "repairing", "appending", "writing", "scheduling", "leaving"}
Places == {"idle", "checking", "waiting"} \cup Inside

States == [campaign : STRING, tasks : [Tasks -> Entries \cup {NoEntry}]]
EmptyState == [campaign |-> NoCampaign, tasks |-> [t \in Tasks |-> NoEntry]]

NoCall == [fp |-> NoFingerprint, base |-> EmptyState, entry |-> NoEntry, ok |-> FALSE]

Init ==
  /\ state = EmptyState
  /\ log = <<>>
  /\ tail = "whole"
  /\ Lock!LockInit
  /\ pc = [p \in Procs |-> "idle"]
  /\ call = [p \in Procs |-> NoCall]
  /\ calls = 0
  /\ attested = {}

Goto(p, place) == pc' = [pc EXCEPT ![p] = place]

Request(p) == call[p].fp.request
Task(p) == Request(p).task

-----------------------------------------------------------------------------
(* Before the lock.                                                        *)

Submit(p) ==
  /\ pc[p] = "idle"
  /\ calls < MaxCalls
  /\ calls' = calls + 1
  /\ \E r \in Requests : call' = [call EXCEPT ![p].fp = Fingerprint(r, FALSE)]
  /\ Goto(p, "checking")
  /\ UNCHANGED <<disk, lock, attested>>

(* Mutant: the caller's flag opens the human gate. *)
OutcomeTrustsFlag(fp) ==
  CASE fp.request.status # "complete" -> fp.request.status
    [] fp.request.task \in NeedsReview /\ ~fp.request.reviewer -> "blocked"
    [] fp.request.task \in NeedsHuman /\ ~(fp.verified \/ fp.request.gate) -> "blocked"
    [] OTHER -> "completed"

(* Mutant: a complete handoff keeps its own word for it. *)
OutcomeAsReported(fp) ==
  CASE fp.request.status # "complete" -> fp.request.status
    [] fp.request.task \in NeedsReview /\ ~fp.request.reviewer -> "blocked"
    [] OTHER -> "complete"

(* _outcome: gates fail closed. *)
Outcome(fp) ==
  CASE fp.request.status # "complete" -> fp.request.status
    [] fp.request.task \in NeedsReview /\ ~fp.request.reviewer -> "blocked"
    [] fp.request.task \in NeedsHuman /\ ~fp.verified -> "blocked"
    [] OTHER -> "completed"

(* _validate_authority and _verify_human_approval pass.  What the host's    *)
(* verifier says of an approval is up to the host; without one, or without *)
(* an approval, nothing is attested.                                       *)
Check(p) ==
  /\ pc[p] = "checking"
  /\ Request(p).audited
  /\ \E verified \in {FALSE, Request(p).approval} :
        /\ call' = [call EXCEPT ![p].fp.verified = verified]
        /\ attested' = IF verified
                       THEN attested \cup {<<Task(p), Request(p).handoff>>}
                       ELSE attested
  /\ Goto(p, "waiting")
  /\ UNCHANGED <<disk, lock, calls>>

(* The call raises: the handoff is not audited, or the verifier raises. *)
Reject(p) ==
  /\ pc[p] = "checking"
  /\ ~Request(p).audited \/ Request(p).approval
  /\ Goto(p, "idle")
  /\ call' = [call EXCEPT ![p] = NoCall]
  /\ UNCHANGED <<disk, lock, calls, attested>>

Enter(p) ==
  /\ pc[p] = "waiting"
  /\ Lock!Take(p)
  /\ Goto(p, "entered")
  /\ UNCHANGED <<disk, call, calls, attested>>

TimeOut(p) ==
  /\ pc[p] = "waiting"
  /\ lock # Nobody
  /\ Goto(p, "idle")
  /\ call' = [call EXCEPT ![p] = NoCall]
  /\ UNCHANGED <<disk, lock, calls, attested>>

-----------------------------------------------------------------------------
(* Inside the lock: the decision.                                          *)

(* The latest record of a task is what _latest_event_for_task finds. *)
IsLatest(i, t) ==
  /\ i \in DOMAIN log
  /\ log[i].task = t
  /\ \A j \in DOMAIN log : j > i => log[j].task # t

SameCampaign(p) == state.campaign \in {NoCampaign, Request(p).campaign}

(* Mutant: a handoff the log has is taken for accepted. *)
AcceptedInLog(p) ==
  \E i \in DOMAIN log : log[i].task = Task(p) /\ log[i].entry.fp = call[p].fp

(* The state has this very acceptance. *)
Accepted(p) == state.tasks[Task(p)].fp = call[p].fp

(* Mutant: the log is not consulted. *)
PendingNever(p, i) == FALSE

(* The latest record of the task is this very acceptance. *)
Pending(p, i) == IsLatest(i, Task(p)) /\ log[i].entry.fp = call[p].fp

Readable == \A i \in DOMAIN log : log[i] # Corrupt

(* CoordinationError: the state is another campaign's, or a new call finds *)
(* a log it cannot read.                                                   *)
Refuse(p) ==
  /\ pc[p] = "entered"
  /\ SameCampaign(p) => ~Accepted(p) /\ ~Readable
  /\ Goto(p, "leaving")
  /\ UNCHANGED <<disk, lock, call, calls, attested>>

(* The idempotent return. *)
Repeat(p) ==
  /\ pc[p] = "entered"
  /\ SameCampaign(p)
  /\ Accepted(p)
  /\ Goto(p, "scheduling")
  /\ UNCHANGED <<disk, lock, call, calls, attested>>

Proposed(p, attempt) ==
  [fp |-> call[p].fp, status |-> Outcome(call[p].fp), attempt |-> attempt]

(* The record is there, the state is not: go and write it. *)
Recover(p) ==
  /\ pc[p] = "entered"
  /\ SameCampaign(p) /\ ~Accepted(p) /\ Readable
  /\ \E i \in DOMAIN log :
        /\ Pending(p, i)
        /\ call' = [call EXCEPT ![p].base = state, ![p].entry = log[i].entry]
  /\ Goto(p, "writing")
  /\ UNCHANGED <<disk, lock, calls, attested>>

(* A new acceptance, under the attempt of the caller's snapshot or, if that *)
(* has none, of the previous entry.                                         *)
Propose(p) ==
  /\ pc[p] = "entered"
  /\ SameCampaign(p) /\ ~Accepted(p) /\ Readable
  /\ \A i \in DOMAIN log : ~Pending(p, i)
  /\ \E a \in Attempts \cup {state.tasks[Task(p)].attempt} :
        call' = [call EXCEPT ![p].base = state, ![p].entry = Proposed(p, a)]
  /\ Goto(p, "repairing")
  /\ UNCHANGED <<disk, lock, calls, attested>>

-----------------------------------------------------------------------------
(* Inside the lock: the writes.                                            *)

(* Mutant: the append does not look at the tail. *)
RepairNothing(p) ==
  /\ pc[p] = "repairing"
  /\ Goto(p, "appending")
  /\ UNCHANGED <<disk, lock, call, calls, attested>>

(* _repair_torn_event_tail: a torn record is cut off, an open one gets its *)
(* newline.                                                                *)
Repair(p) ==
  /\ pc[p] = "repairing"
  /\ tail' = "whole"
  /\ Goto(p, "appending")
  /\ UNCHANGED <<state, log, lock, call, calls, attested>>

(* What the log holds after a record was written at the end of the file. *)
Appended(event) ==
  CASE tail = "whole" -> Append(log, event)
    [] tail = "torn" -> Append(log, Corrupt)
    [] tail = "open" -> Append(SubSeq(log, 1, Len(log) - 1), Corrupt)

Event(p) == [task |-> Task(p), entry |-> call[p].entry]

(* Mutant: the lock is given back before the state is written. *)
LogAndUnlock(p) ==
  /\ pc[p] = "appending"
  /\ log' = Appended(Event(p))
  /\ tail' = "whole"
  /\ Lock!Give(p)
  /\ Goto(p, "writing")
  /\ UNCHANGED <<state, call, calls, attested>>

Log(p) ==
  /\ pc[p] = "appending"
  /\ log' = Appended(Event(p))
  /\ tail' = "whole"
  /\ Goto(p, "writing")
  /\ UNCHANGED <<state, lock, call, calls, attested>>

(* A write that fails or a process that dies leaves nothing of the record, *)
(* a part of it, all but the newline, or all of it.                        *)
PartOfEvent(p) ==
  \/ UNCHANGED <<log, tail>>
  \/ /\ UNCHANGED log
     /\ tail' = "torn"
  \/ /\ log' = Appended(Event(p))
     /\ tail' \in {"open", "whole"}

(* The state file is replaced in one step, by what was read plus the entry. *)
Write(p) ==
  /\ pc[p] = "writing"
  /\ state' = [campaign |-> Request(p).campaign,
               tasks |-> [call[p].base.tasks EXCEPT ![Task(p)] = call[p].entry]]
  /\ Goto(p, "scheduling")
  /\ UNCHANGED <<log, tail, lock, call, calls, attested>>

Answer(p) ==
  /\ pc[p] = "scheduling"
  /\ call' = [call EXCEPT ![p].ok = TRUE]
  /\ Goto(p, "leaving")
  /\ UNCHANGED <<disk, lock, calls, attested>>

(* Mutant: a failing append is ignored. *)
FaultIgnored(p) ==
  /\ "fault" \in Hazards
  /\ pc[p] = "appending"
  /\ PartOfEvent(p)
  /\ Goto(p, "writing")
  /\ UNCHANGED <<state, lock, call, calls, attested>>

(* Repair, append, replacement or schedule raises: the call goes to the    *)
(* unlink with what was written so far.                                    *)
Fault(p) ==
  /\ "fault" \in Hazards
  /\ \/ /\ pc[p] = "appending"
        /\ PartOfEvent(p)
     \/ /\ pc[p] \in {"repairing", "writing", "scheduling"}
        /\ UNCHANGED <<log, tail>>
  /\ Goto(p, "leaving")
  /\ UNCHANGED <<state, lock, call, calls, attested>>

(* The unlink, and the return to the caller.  It may fail, too. *)
Return(p) ==
  /\ pc[p] = "leaving"
  /\ Lock!Give(p) \/ ("fault" \in Hazards /\ Lock!Leave(p))
  /\ Goto(p, "idle")
  /\ call' = [call EXCEPT ![p] = NoCall]
  /\ UNCHANGED <<disk, calls, attested>>

-----------------------------------------------------------------------------
(* The environment.                                                        *)

Crash(p) ==
  /\ "crash" \in Hazards
  /\ pc[p] # "idle"
  /\ IF pc[p] = "appending" THEN PartOfEvent(p) ELSE UNCHANGED <<log, tail>>
  /\ IF pc[p] \in Inside THEN Lock!Leave(p) ELSE UNCHANGED lock
  /\ Goto(p, "idle")
  /\ call' = [call EXCEPT ![p] = NoCall]
  /\ UNCHANGED <<state, calls, attested>>

(* Whoever waits removes a lock that was left behind. *)
Reclaim ==
  /\ Lock!Reclaim
  /\ UNCHANGED <<disk, pc, call, calls, attested>>

Next ==
  \/ Reclaim
  \/ \E p \in Procs :
       \/ Submit(p) \/ Check(p) \/ Reject(p) \/ Enter(p) \/ TimeOut(p)
       \/ Refuse(p) \/ Repeat(p) \/ Recover(p) \/ Propose(p)
       \/ Repair(p) \/ Log(p) \/ Write(p) \/ Answer(p) \/ Fault(p)
       \/ Return(p) \/ Crash(p)

Spec == Init /\ [][Next]_vars

-----------------------------------------------------------------------------
CallType ==
  [fp : Fingerprints \cup {NoFingerprint}, base : States, entry : Entries \cup {NoEntry},
   ok : BOOLEAN]

TypeOK ==
  /\ state \in States
  /\ log \in Seq(Events \cup {Corrupt})
  /\ tail \in Tails
  /\ lock \in Procs \cup {Nobody, Left}
  /\ pc \in [Procs -> Places]
  /\ call \in [Procs -> CallType]
  /\ calls \in Nat
  /\ attested \in SUBSET (Tasks \X STRING)

(* No outcome is in the state that the log does not have: "The event is a  *)
(* write-ahead record" (coordinator.py, line 145), whatever append or      *)
(* replacement failed and whoever died half-way.                           *)
StateIsLogged ==
  \A t \in Tasks :
     state.tasks[t] # NoEntry =>
       \E i \in DOMAIN log : log[i] = [task |-> t, entry |-> state.tasks[t]]

(* A completed task has passed its gates: the reviewer approved this very  *)
(* call, and the host's verifier vouched for this very handoff.  Callers'  *)
(* flags alone never open a human gate (coordinator.py, lines 111-112).    *)
GatesFailClosed ==
  \A t \in Tasks :
     state.tasks[t].status = "completed" =>
       LET r == state.tasks[t].fp.request
       IN  /\ r.status = "complete" /\ r.audited
           /\ t \in NeedsReview => r.reviewer
           /\ t \in NeedsHuman => <<t, r.handoff>> \in attested

(* The state never mixes the outcomes of two campaigns. *)
OneCampaign ==
  \A t \in Tasks :
     state.tasks[t] # NoEntry => state.tasks[t].fp.request.campaign = state.campaign

(* However appends are cut short, every line of the log stays readable: no *)
(* new record is ever joined to a torn one.                                *)
LogStaysReadable == Readable

(* A retry of the acceptance that is a task's latest record adds no second *)
(* record: "a retry finds this fingerprint" (coordinator.py, line 146).    *)
NoRecordRepeated ==
  \A i, j \in DOMAIN log :
     /\ i < j /\ log[i].task = log[j].task
     /\ \A k \in DOMAIN log : i < k /\ k < j => log[k].task # log[i].task
     => log[i].entry.fp # log[j].entry.fp

(* What a caller is told to be accepted is in the state when the lock is   *)
(* given back, first call or retry.                                        *)
AnswerIsMaterialised ==
  \A p \in Procs :
     pc[p] = "leaving" /\ call[p].ok => state.tasks[Task(p)].fp = call[p].fp

(* The state of a task only ever moves to the latest record of that task:  *)
(* no call undoes, out of an old reading, what another one wrote.          *)
StateFollowsLog ==
  [][\A t \in Tasks :
        state'.tasks[t] # state.tasks[t] =>
          \E i \in DOMAIN log : IsLatest(i, t) /\ log[i].entry = state'.tasks[t]]_vars
=============================================================================
