# Science Workbench in TLA+

This directory holds TLA+ specifications of the Science Workbench
(`src/science_repo`), the TLC configurations that model-check them on small
instances, and theorems about them that TLAPS checks for every value of the
constants. `PROJECT.json` is its index: the components, the runs, the lines of
code each definition stands for, the hazards, the findings and the theorems.

Contents: [the system](#the-system) · [inventory](#inventory) ·
[modules](#modules) · [runs](#runs) · [fairness](#fairness) ·
[proofs](#proofs) · [findings](#findings) ·
[not modelled](#what-is-not-modelled) · [plan](#plan) · [running](#running)

## The system

The Science Workbench is a Python package with a command line (`science`) that
keeps a research project in a Git repository: experiments with their manifests
and run records, campaigns of dependent tasks, versioned contracts. There is no
server. Every operation is one process that reads files, decides, writes files
and ends, and several such processes run at once on one host, driven by a
person, by CI, and by agents that each work on a task of a campaign. So all
coordination goes through files:

- lock files created with `O_CREAT | O_EXCL`, removed by their creator or, when
  they look abandoned, by whoever waits for them;
- state files replaced in one step (`os.replace`);
- logs that are appended to.

A process may die between any two of these accesses, and any of them may fail.
Much is not locked at all: session records, the stage history, the files an
experiment's runs share, the stages of a study. Where something is locked,
three separate lock protocols and two separate write-ahead logs exist; each is
modelled as the code has it.

The path of a campaign task through the system:

    campaign.yaml --validate_campaign--> campaign-status --> task-claim (lease)
         ^                                    ^                   |
         |                                    |              worker, heartbeat
    Campaign.tla                        Scheduler.tla              |
                                              |        task-release / expiry
                                       leases + accepted           |
                                       outcomes          campaign-accept (handoff)
                                              |                   |
                                              +----coordinator-state.json

## Inventory

| Component (`science_repo/`) | State it keeps | Operations | Talks to | What is hard | Correct when | Here |
|---|---|---|---|---|---|---|
| Task runtime, `task_runtime.py` | `tasks/<id>.json`, `<id>.lock`, `events.jsonl` | claim, heartbeat, release, inspect | CLI; snapshots to the scheduler | calls interleave and die in the lock; a lock judged by age alone; expired owners | one worker relies on a task at a time; records tell the truth | `TaskLease`, `TaskRuntime` |
| Coordinator lock, `coordinator.py` `_lock` | `coordinator.lock` | take, reclaim, give back | all of `accept_handoff` | dead owners whose pid is used again; judging what another call replaces | one process inside; nobody shut out for ever | `FileLock`, `CoordinatorLock` |
| Coordinator, `coordinator.py` | `coordinator-state.json`, `coordinator-events.jsonl` | accept a handoff, schedule | dispatch, handoff, scheduler, host verifier | dying between log and state; torn appends; retries; gates | the log leads the state; gates fail closed; a retry repeats nothing | `Coordinator` |
| Campaign validation, `campaign.py` | none | validate | schedules, claims, acceptances | two graph searches that share what they have seen | exactly the sound campaigns pass | `Campaign` |
| Scheduler, `scheduler.py` | none | schedule | CLI, coordinator | transitive failure, retry budget; snapshots of mixed instants | failure reaches what depends on it and nothing else; what it calls ready is | `Scheduler`, `StatusBoard` |
| Campaign closure, `cli.py`, `closure.py`, `dispatch.py`, `handoff.py` | the files above | status, claim, release, accept | all of the above | three views of the same tasks, of different age | no two workers on one path; nothing built on sand | `CampaignRun` |
| Contract migration, `migration_apply.py` | pins, schemas, bundles with `manifest.json` and `wal.jsonl`, a lock | apply, rollback, recover | planner | a failure or death at every write, recovery by others, rollbacks in any order | a migration is whole or undone, an undo that ends is whole; answers hold | `MigrationStore`, `MigrationApply` |
| Migration planner, `migration.py` | none | plan | migration | | | no |
| Experiment lifecycle, `lifecycle.py` | `experiment.yaml`, stage history | transition | CLI, validation | two files, no lock, an append cut short | what was answered stands, or the next call is refused | `Lifecycle` |
| Experiment runner, `runner.py` | run directories, in-progress marker, the shared output | run | lineage, environment | deaths between the files of a record, commands that outlive their runner | a record is complete or visibly not | `ExperimentRun` |
| Run review, `review.py`, `review_plugins.py` | review files | review | runner's records | reads what runs and editors write meanwhile | nothing unfinished or changed is passed | `ExperimentRun` |
| Lineage and reproduction, `lineage.py`, `reproduce.py` | none of their own | trace, compare two environments | runner's records | | the graph of a run is a DAG over what is there | lineage in `ExperimentRun` |
| Session workspaces, `workspace.py` | session records, git worktrees | create, remove | git | record and worktree change in turns, no lock | every worktree can be removed; an id is used once | `Workspace` |
| Cohorts and freezes, `cohort.py`, `cohort_freeze.py`, `subject_packets.py`, `study_verification.py` | the freeze file, packet sets | build, freeze, verify | study code | files edited between two stages; create-once | frozen is final | freezes and packets in `Cohort` |
| Local dispatch acceptance, `local_dispatch_acceptance.py`, `harness_receipt.py` | receipts, acceptance files | take, build, verify | workspaces | expiry, by another clock; a worktree replaced since | it verifies only for what was looked at, until it expires | `Dispatch` |
| Study code, `experiments/self-bootstrap-effectiveness-v2/src` | ledgers, attempts, manifests, scoring packets, the dataset | freeze, allocate, bind, verify, packetize, ingest, analyze | freezes, packets | each stage trusts the last; anything is brought twice, late, out of order | a claim rests on one lineage; the arm is told after everything is scored and resolved | `Cohort`, `Study` |
| Attestation, `trusted_attestation.py`, `execution_adapter.py` | none | verify | host verifier | | | no |
| Contracts, `contracts.py`, `models.py`, `validate.py`, `platform_matrix.py` | none | validate | everything | | | no |
| Environment, diagnosis, release, benchmark, file writes | none | report, package | | | | no |

The hazards, each at its line and with the properties that would catch it, are
in `PROJECT.json` under `hazards`.

## Modules

    TaskLease  <=  TaskRuntime            one task's lease; the file protocol implements it
    FileLock   <=  CoordinatorLock        a lock file's promise; the protocol implements it
    FileLock   ->  Coordinator            acceptance, built on that promise
    MigrationStore  <=  MigrationApply    contracts that move at once and come back whole; bundles and logs implement it
    Campaign + Scheduler  ->  CampaignRun a campaign at work, leases and acceptances taken at their word
    CampaignRun  ->  StatusBoard          campaign-status, read while the campaign is at work

`<=` reads "is implemented by" (a refinement that TLC checks, and that is also
proved for all three), `->` "is used by"; `StatusBoard` and the last three are compositions, in which
the module on the right adds its own state and interleaves its steps
with the unchanged actions of the one on the left. The `MC*` modules give constants
their values and hold nothing else; `*Proofs` modules hold theorems. Two
composition steps keep the whole checkable: `Coordinator` uses the lock's
promise rather than its dozen file accesses, because the lock is shown to keep
that promise; `CampaignRun` uses a lease and an acceptance as single steps, for
the same reason.

All modules share some conventions. A call is a program counter `pc[p]` whose
values say what the call is about to do, so that an action is one access to a
file, in the order of the code. `Hazards` is a set of things the environment
may do, so that one specification serves the runs with and without them.
`Max...` constants bound counters in the guards. Operators whose comment starts
with "Mutant:" are plausible mistakes; each, put in the place of the definition
beside it, breaks a property.

### TaskLease and TaskRuntime (`task_runtime.py`)

The tasks of a campaign share nothing but an append-only log, so a module is
about one task. `task` is `tasks/<id>.json`, `lock` the modification time of
the lock file, `audited` the state in the last record, `call[w]` the arguments
and locals of a call, and `cap[w]` what the worker was told: a token and how
long it may count on it. `claim`, `heartbeat`, `release` start a call
(`Claim`, `Heartbeat`, `Release`); its steps are `Acquire` / `FindStale` +
`TakeOver` / `TimeOut` (`_lock`), `ReadClock`, `Decide` / `Refuse`
(`_read` and the decision), `Write` (`_write`), `Audit` (`_audit`), `Unlock`
(the `finally`). `Fault` is an exception in a write, `Crash` the death of the
process. `TaskLease` has one step per operation and no files.

Abstracted: tokens are numbered in the order they are drawn (uuid4 values never
repeat); the heartbeat instant that the file also stores is read by nobody; the
log keeps its last record.

### FileLock and CoordinatorLock (`coordinator.py`, lines 374-459)

`file` is the lock file: nonce, pid and start identity of its creator, whether
the contents were written yet, and whether it is older than `stale_lock_after`.
`start[p]` numbers the incarnations under a pid, `up` says which run. Reading
(`Read`), judging age and owner (`Judge`), reading again (`Reread`) and
unlinking (`Remove`) are separate steps, as are the creation of the file and
the writing of its contents. The refinement mapping `Holder` gives the lock to
whoever is inside, and calls a file with nobody inside "left behind".

Abstracted: `GrowOld` may happen at any time, because nothing in the code
bounds how long a call stays inside. A pid whose start identity cannot be read
counts as alive in the code; the model's processes can always be identified.

### Coordinator (`coordinator.py`, lines 88-372)

`state` is the state file, `log` the complete lines of the event log, and
`tail` how that file ends: whole, inside a torn record, or after a record that
lacks its newline. A call is checked (`Check` / `Reject`), waits (`Enter` /
`TimeOut`), decides (`Refuse`, `Repeat`, `Recover`, `Propose`, after the four
branches of the code), repairs the tail, appends, replaces the state, computes
the schedule (`Answer`) and returns. `PartOfEvent` is what a failing or dying
append leaves: nothing, a part, all but the newline, everything. `attested` is
a history variable: the handoffs the host's verifier vouched for.

Abstracted: an acceptance fingerprint is the call it is a digest of, with the
verifier's verdict; the audit of envelope, receipt and handoff is its verdict
(`audited`), because it depends on the call's documents alone.

### Campaign, Scheduler, CampaignRun

`Campaign` has `validate_campaign`'s two depth-first searches as they are
written: the visiting/visited sets of `visit`, the `seen` set that
`depends_on` shares among its branches. Each is a function on sets of tasks,
which takes one task of the set after another, in any order: the `for` loop
over a task's dependencies and the call for one of them are one recursion, so
that proofs can unfold it. A path is the sequence of its parts.
`Scheduler` has `schedule_campaign` as a function; a decision is its reason.
`CampaignRun` composes them: `Claim`, `Expire`, `Release`, `Accept` change the
leases and the accepted outcomes, and `Seen` is what a schedule is computed
from, for each of three callers (`view`): `campaign-status` (leases alone),
`CampaignCoordinator.schedule` (leases under accepted outcomes), and the answer
of `campaign-accept` (accepted outcomes alone, because it passes no runtime
states).

The command line enforces less than a campaign needs: `task-claim` asks neither
scheduler nor dependencies, and acceptances are not tied to leases. The main
agent's instructions fill the gap. So the model has the host's discipline as
hazards that may be switched on: `"unscheduled"` (a claim that no schedule
offers), `"early"` (an acceptance, or a release as complete, before its time),
`"late"` (an acceptance of a task accepted as completed). With any of them,
`SerialAccess` and `FoundationsStand` fail; with `"unscheduled"`,
`AttemptsBounded` as well. The properties of the run say what the code gives to
a main agent that keeps the discipline.

`Below(tasks, deps, t)` is what a task depends on, however far down, without a
search: what lies in every set of tasks that has the dependencies of `t` and of
its own members. The properties are about that set; that the searches of
`Campaign` and the recursion of `Scheduler` agree with it is what they say.

### StatusBoard (`cli.py`, lines 282-295)

`CampaignRun`'s claims, expiries and releases, and one `campaign-status` after
another beside them: `Inspect` reads the state file of a task, in any order,
`Answer` computes the schedule from all of them for an instant of its own. A
lease that was live when it was read may count as expired then, although it was
renewed in between; `lapsed` remembers for which tasks. The properties relate
the answer to the leases as they are now, at any time until the next answer is
begun. In the view of `campaign-status` nothing is accepted, because it reads
none of it. The run `campaign_run` checks this module, and with it
`CampaignRun`'s own properties.

### MigrationStore and MigrationApply (`migration_apply.py`)

`project` is the pins and the schemas; `bundles` the migration bundles, each
with the state in its `manifest.json`, its backups and its log (whether there
is one, whether it has a "committed" record, how it ends). A call takes the
lock (`Acquire`, `Busy`, `FindDead`, `Unlink`, `Recreate`, `WriteOwner`), an
apply settles what earlier processes left (`Blocked`, `FinishForDead`,
`RestoreForDead`) and compares the pins again (`Revalidate`), then makes its
bundle, saves, logs, writes one schema after the other, the manifest, the
"committed" record and the final state. `Undo` is the roll back of a failed
migration, `SkipFile` a file it cannot bring back, `Fault` any other exception,
`Crash` a death with whatever its append left behind (`Partial`).

What a migration promises is not about the files at each instant, which change
one by one, but about the project as the next apply will find it: `Promised` is
`project` with the interrupted bundle's backups laid over it. `MigrationStore`
says that this moves to a plan's targets in a single step (`Migrate`), from the
contents that were saved, while that migration is the only one pending. It comes
back file by file, when a rollback is asked for or when a call fails after its
"committed" record (`StartUndo`, `RestorePins`, `RestoreSchema`); nothing is
saved for another migration before that has ended, and it ends (`EndUndo`) only
with every file of the bundle back, but for those a pending migration will take
back over it. If neither holds, the step is `Abandon`, which is allowed only
where the hazard `"abandon"` is.

That hazard is real. What cuts such an undo short leaves a bundle that is
already settled, or whose log says "committed", and the next apply passes over
it (lines 204-205 and 211-214): the contracts stay mixed. `OnItsOwn` is that
situation; `"abandon"` lets a death or a failure happen in it, and the run
`migration_atomic` does without.

Abstracted: contents are versions; a plan's schemas are written in any order
(the code goes by name); bundle names sort by time; `dry_run`, the expected
plan token and "already-applied" calls change nothing. No command of the CLI
calls this module yet; its callers are library users and tests.

### Workspace and Dispatch (`workspace.py`, `harness_receipt.py`, `local_dispatch_acceptance.py`)

`record` is `<session>.json`, `tree` the HEAD of the session's worktree, and
`call[p]` a create or remove under way: its next step and its copy of the
record. The record is written before every git command and at the end
(`Save`), from the copy and over whatever is there, because nothing locks it.
`After` gives the order of the writes, `Raise` what an exception leads to: in
`create` the except clause, which writes "failed", in `remove` the end of the
call with the record as it is. `GitAdd` may leave a worktree and fail all the
same (a hook), `Crash` may let the git command come to its end, and `Work` is
the agent in the worktree. `made` and `contended` are history: how many
worktrees a session has had, and whether two calls ever worked on it at a time.

`Dispatch` adds `receipt`, the receipt's file, `accepted`, the acceptance file
of each session's cell, and `desk[p]`, a document between its construction and
its file. `Receive`/`SaveReceipt` is `science harness-receipt`: the test for the
file and the replacement are two steps, so a later receipt may replace an
earlier one. `Observe` is the main agent's look at the directory, `Accept`,
`CreateFile`, `WriteFile` the three moments of `local-dispatch-accept`.
`Builds` and `Verifies` are the two large functions of the module, with every
comparison that relates two documents.

Abstracted: a document stands for its digest; a packet is its session; what
only one document says of itself is left to its type. A worktree half made by
a `git worktree add` that failed counts as made. A git command that goes on
after its process died ends at the instant of the death.

### Lifecycle and ExperimentRun (`lifecycle.py`, `runner.py`, `review.py`, `review_plugins.py`, `lineage.py`)

`stage` is the manifest's stage, `history` the events, `tail` how the file of
events ends: whole, without its last newline, or with a line that is no event.
A transition loads (`Begin`), reads the history (`Check`), keeps the manifest's
bytes (`Keep`), replaces it (`Replace`), appends (`AppendEvent`) or, when the
append raises with any part of the line written, brings the bytes back
(`AppendFails`, `Undo`).

A run (`job[p]`) is `Load`, `Freeze`, `Start`, `Exit`, `Collect`, `Record`,
`Unmark`: what it has observed (`seen`) stays in memory until `Record` writes
it into the run's directory (`run[r]`). The command is an actor of its own: it
writes the `output` all runs share in `Produce`, before or after its runner
has gone on, since a timeout may kill only its parent (`loose`). A review reads
the record, the inputs, the artifact, the artifact once more for the criteria,
and asks the plugins, each in a step of its own. `fits`, `wrote` and
`disturbed` are history: whose command read what is recorded, whose wrote, and
beside whom another's wrote.

Abstracted: an input is a version that never comes back; results are their
digest and, invisible to the code, whose they are; all acceptance criteria
(`Criteria` says whether the manifest has any) are one verdict on the results,
which either meet them, miss one, or are nothing they are applied to; of the
experiment's files one input and one output stand for all, the output being the declared `artifacts/results.json`.
`refresh_registry`, a derived file written after a run, is left out. The reviewer is run by the same processes as the rest.

### Cohort and Study (`cohort_freeze.py`, `subject_packets.py` and the study's `src`)

`disk` is the material: the manifest of the fixtures, their prompts, and the arm
policies; `Edit` changes any of them at any time. A freeze digests the fixtures,
then the policies (`BeginFreeze`, then `BuildStudyFreeze`, `RegisterFreeze` or
`DropFreeze`). Subject packets are written into a new file in two steps
(`OpenRaw`, `WriteRaw`); a file that stays torn stays so. `BuildLedger` ranks
the cells, `BindPacketSet` binds packets to a ledger, and `AllocationLineage`
and `PacketLineage` are the checks each later stage repeats. In `Study`,
`Record` is the host recording an attempt, of any end, at any bound packets,
by any agent; `BuildManifest`, `Packetize`, `BuildDataset`, `Analyze` are the
four programs. Each takes its arguments from everything there is.

Abstracted: digests are equality; ids and texts are members of small sets; the
redaction of scoring packets is left out, so that `RevealComesLast` is about
times and people and not about what a text gives away. The manifest that a
freeze parses and the one it digests are one read. `WaveSize` is 3 in the
code. The mean and the median are computed exactly, by integers over a common
denominator.

## Runs

| Run | Instance | Properties | Shows |
|---|---|---|---|
| `task_runtime` | 2 workers, instants 0-3, leases of 1 or 2, 2 tokens; crash, fault | `TypeOK` `ExclusiveLock` `OneHolder` `AuditMatchesState` `ImplementsTaskLease` | the protocol implements the indivisible lease |
| `task_runtime_progress` | 2 workers, every hazard | `StaleLockCleared` | a dead process's lock goes away |
| `task_lock_race` | 3 workers; crash, race | `ExclusiveLock` is violated | two takeovers of one stale lock |
| `coordinator_lock` | 2 processes, 2 incarnations each, 4 calls; crash, fault | `TypeOK` `MutualExclusion` `ImplementsFileLock` `DeadOwnersLockReclaimed` `CallsEnd` | the lock keeps its promise and blocks nobody |
| `coordinator` | 2 processes, 4 calls, a gated and a free task, 5 requests, 2 campaigns; crash, fault | `TypeOK` `StateIsLogged` `GatesFailClosed` `LogStaysReadable` `NoRecordRepeated` `AnswerIsMaterialised` `StateFollowsLog` | acceptance survives every crash and failing write |
| `campaign_run` | every graph on 3 tasks, also cyclic or with a stray dependency; equal, nested and disjoint scopes; 2 attempts, 3 claims; each view; `campaign-status` in any order of reading | `BoardTypeOK` `ValidationIsRight` `SerialAccess` `FoundationsStand` `AttemptsBounded` `FailurePropagates` `AnswerStands` | a disciplined campaign is safe, and may go by an answer from mixed moments |
| `migration` | 2 processes, 2 plans that move one contract each, 2 applies, any rollbacks; crash, fault, restore, abandon | `TypeOK` `OneMigration` `SettledBeforeWork` `AnswerHolds` | one at a time, on settled ground, answers hold |
| `migration_atomic` | the same with a first plan over 2 contracts; crash, fault | `ImplementsMigrationStore` | whole or undone; an undo that is not cut short is whole |
| `migration_damaged` | 1 process; fault, restore, abandon | `IncompleteRollbackBlocks` is violated | a damaged project is migrated again |
| `dispatch` | 2 processes, a session, 2 commits, 2 policies, 2 packet sets, 3 environments, instants 0-2 | `TypeOK` `Removable` `VerifiedIsObserved` `AnswerVerifies` | worktrees can be removed; an acceptance is of the one that was looked at |
| `experiment` | 2 processes, 2 runs, 3 states of the input, 3 transitions; 4 calls in all, a run counting as 2 | `TypeOK` `AnsweredStands` `PassedRunIsWhole` | no answered transition is silently undone; a review passes whole runs only, whose results miss no criterion |
| `study` | a fixture in 2 arms, 2 freezes, an edit, 2 packet files, 3 attempts of 4 ends by 2 agents, 8 ways to have scored | `TypeOK` `ClaimIsWhole` `RevealComesLast` | a claim rests on one lineage, by three people each, the arm told last |

Deadlock is not checked: every model may rightly stop, when no call is under
way and the bound on new ones is reached.

Why the bounds are enough for what they are asked:

- *Task runtime.* A conflict takes two workers and two tokens: one lease that
  expires and one that follows it. Three ticks let a lease of either length
  expire while a call is at any of its steps and let a lock grow stale after.
  The race needs a third process, the dead one that left the lock.
- *Coordinator lock.* An incarnation that dies and comes back while another
  process judges its file is the interesting case: two processes, each started
  twice. Four calls let a lock be left, reclaimed, left again and reclaimed.
- *Coordinator.* Two tasks, since a record of one must not disturb the other;
  four calls, so that an acceptance can be interrupted, recovered, superseded
  and retried; one handoff in every combination of approvals that the gates
  tell apart; a second campaign; a handoff that was not audited.
- *Campaign.* Three tasks are the smallest graph with a chain, a fork, a join
  and an indirect order. One claim more than the budget allows is possible, so
  that exceeding it would be seen. The chains whose first task the manifest
  already calls complete or failed stand for campaigns taken up half-way.
- *Migration.* Either plan may be applied on what the other left, finished or
  interrupted, so that one call's apply settles another's. In
  `migration_atomic` the first plan writes two schemas, one whose pin stays and
  one whose pin moves, so that a death may fall between two schemas as well as
  between a schema and the pins; in `migration`, where bringing a file back may
  fail too, one schema and the pins are already enough to be left half-way.
- *Dispatch.* The overlaps that matter are of two calls on one session; sessions
  share nothing but the receipt. Two commits, so that a policy may pin the
  other one; policies of which one expires at the last instant but one of an
  acceptance and one sets its own length; packets of another cohort and freeze;
  a child's receipt, one with the packet's own session, one with nothing.
- *Experiment.* Two runs, so that one's command may write under the other's
  record; two changes of the input, of which the first makes it appear. Three
  transitions let one build on what two overlapping ones have left. `Budget`
  counts both kinds of calls: two runs, or one run and two transitions, or
  three transitions.
- *Study.* One fixture is two cells, enough for a cell missing, covered twice,
  or covered by the agent of the other. The second freeze and the edit make
  every mixture of lineages. Three attempts leave one too many, of another
  packet set or at the same cell. Two of the
  eight ways to have scored are valid, one for each arm; each of the others
  breaks one rule. With one valid score per arm no hypothesis comes out
  falsified, and no attempt takes 0 seconds; the theorems have no such bound. That a mean over
  several fixtures is right is not asked of this run.

Symmetry in processes, workers or tasks is used in runs that check no
liveness.

## Fairness

Fairness is assumed where a liveness property is checked, and for steps of
calls that were started, never for starting, dying or failing.

- `TaskRuntime!FairSpec`: weak fairness of `Proceed(w)`. The operating system
  schedules every runnable process; `_lock` polls in a loop, so a waiting call
  looks at the lock again and again.
- `CoordinatorLock!FairSpec`: in addition, strong fairness of the deadline
  test. The loop reaches it after every refused attempt, and once
  `time.monotonic()` has passed the deadline it stays past it. Strong, because
  the call is at that test again and again rather than continuously.

Nothing is claimed about a call that waits while others keep taking the lock
from it, beyond that it ends. For migrations no liveness is promised at all: a
bundle without `manifest.json`, or with a torn log, blocks all later applies
until an operator acts, and says so.

## Proofs

TLAPS proves the following for every set of workers, processes, tasks and
requests, every bound and every lease length. The assumptions are the named
`ASSUME`s of the modules, which TLC evaluates in each run, and the condition on
`Hazards` in the statement.

**TaskRuntimeProofs.** `TypeCorrect` holds under every hazard.
`LockIsExclusive`, `HolderIsUnique`, `AuditIsCurrent` and
`RuntimeImplementsLease` assume `Disciplined`: nobody stays in the lock for
longer than `StaleLockAfter`, no two takeovers race (`task_lock_race` shows
that the second cannot be dropped). The mutual exclusion of the lock is not
inductive: whether a file may be unlinked depends on why it is there. `IInv`
adds that the lock of whoever is inside is there and not stale, while a
takeover in progress faces a stale one, so that the two exclude each other
(`LockInv`); that a call about to write has decided on the state the file still
has (`CallInv`); that tokens grow (`TokenInv`); and that what a worker relies
on is no more than what the file grants to it (`CapInv`), from which
`OneHolder` follows because the file has one worker.

**CoordinatorLockProofs.** `TypeCorrect` under every hazard; under `Orderly` (no
process runs between a second reading and its unlink) also `LockIsExclusive`
and `LockImplementsFileLock`. The argument rests on a fact
about incarnations: once dead, always dead, so a judgement on old contents
stays true (`SeenInv`). `NonceInv` ties files to calls, `OwnerInv` says that
whoever is inside owns the file, alive and named. So what is about to be
unlinked is not the file of anybody inside.

**CoordinatorProofs.** Every property the run `coordinator` checks, under every
hazard of the module. `IInv` adds that a call about to write has the state as
it still is, that the record it is going to append is not the task's latest,
that the tail is whole when it appends, and that its record is the task's
latest when it replaces the state (`CallInv`); and that each record carries an
outcome its gates allow (`LogInv`). With these the write-ahead order gives
`StateIsLogged` through every crash and failed write.

**DispatchProofs.** `WorktreesRemovable` and `SessionUsedOnce`
for the workspaces by themselves; every property of the run `dispatch` for the
composition. The hard part is what a session's files may look like while one
call is under way and after any failure or death. As long as a session was not
worked on by two calls at a time, at most one call names it (`Alone`), and the
step of that call tells what the record and the worktree may be (`PlaceInv`).
With or without overlaps, a call past its first write has a record in the file
and carries no copy that says "removed" before its worktree is gone
(`CallInv`). So a session that ever had a worktree has a record, and without
overlaps had one worktree at most, whose record is not "removed" (`TreeInv`).
Dispatch adds that a document on a desk or in a file was built from a policy that held, for a directory seen at its `made` or before (`Sound`,
`DeskInv`, `FileInv`): with `SessionUsedOnce` the worktree that is there is the
one that was seen. That the composition keeps the workspace invariant is one
lemma, `StepIsWorkspaces`: each step is a workspace step or leaves them alone.

**ExperimentRunProofs.** `TransitionStands` for the transitions by themselves,
and every property of the run `experiment`. `AnsweredStands` is for transitions
that overlap as they like, so it cannot be said that history and stage agree.
The invariant is that every answered event is in the history, unless a line of
it is torn (`Recorded`), and that a continuous history leads on from each of
its events to every later one (`LeadsOn`): so a transition that gets past the history finds a stage
at or beyond all of them. For the runs, `DirectoryInv` ties the place of a
process to its run's directory, which no other process has; `SeenInv` and
`OutputInv` say what is known of the shared output while nobody else's command
has written; `ReviewInv` says what a review has established by each of its
steps and that no later step of anybody changes it.

**StudyProofs.** All properties of the run `study`, for every number of
fixtures, agents, versions and records. `Bound` says of a ledger whose packets
were bound that its scope and policies are those of its freeze, `Complete` of a
set of attempts that it is at one such ledger, has each cell once and no agent
twice, `Sound` the same of a dataset with one row for each attempt and records
that fit; `HandedOn` says that manifest, scoring packets, dataset and claim
keep this whatever is edited or replaced. That a claim has as many rows as
cells needs the cardinality of a bijection, from `FiniteSetTheorems`. `ArmIsToldLast`
is for any people, so also for agents that score their own attempt.

**MigrationApplyProofs.** `MigrationTypeCorrect` under every hazard; under
`Orderly` (no two processes take over one dead process's lock at once) also
`OneMigrationAtATime`, `WorkIsOnSettled` and `AnswersHold`; and, if bringing a
file back does not fail either, `MigrationImplementsStore`. Neither condition
can be dropped: with the race two processes are inside, and a file that could
not be brought back leaves the project mixed (`migration_damaged`). `IInv`
follows a bundle through its files. Whoever is inside owns the lock
(`LockInv`), and all bundles but the last are settled (`OnlyLastOpen`), so that
a step concerns one bundle. `WorkInv` says at each step of a migration what its
manifest and its log hold, which schemas already have the plan's version, and
that its backup is the one taken of the project as a restoration would make it
(`Kept`): this is what a recovery by another process, many deaths later, rests
on. `RestoreInv` says the same of a restoration, file by file, unless one was
skipped. The refinement maps the store's contents to `Promised`, the project
with the open bundle's backups laid over it, and what is pending to the backups
of that bundle. Every write of a migration and every step of its recovery leaves
both alone; the record "committed" changes no file of the project and moves it
from the old contracts to the new ones in one step (`CommitIsMigration`). A
rollback, and the undo of a call that fails after that record, move it file by
file. That they end with everything back is `BackMayEnd`: a restoration has put
back the files it has taken off its list (`BackAgain`), and a bundle that is open
promises its own. With `"abandon"` in `Hazards` the theorem says as much of every
undo that is not cut short; without it, of all.

**CampaignRunProofs.** Every property of the run `campaign_run`, for every
finite set of tasks and every graph of dependencies, cyclic ones included. The
installed provers cannot instantiate an induction rule, so every induction is
written as a minimal counterexample (`SmallestSet`, `LeastNumber`).

- *The schedule.* In a graph without cycles every set of tasks has one that
  depends on no other of them (`Foundation`). So the largest part of the tasks
  on which the scheduler's equations have a solution is all of them, and
  `Schedule` is what it is defined to be (`ScheduleIs`). From that and
  `Foundation` alone `FailureIsPropagated` follows, under every hazard.
- *The searches.* A search calls itself with fewer tasks left to visit or with
  more of them entered (`Rank`), so that it is defined on every graph
  (`VisitIs`, `LookIs`). What a call has established when it returns is
  `Searched`, for `visit`: if it met no cycle, everything it was asked to visit
  is visited, what is visited is closed under dependencies and lies on no
  cycle; if it met one, there is one, because it was only asked for tasks below
  those it is in the middle of. For `depends_on` it is `Told`: if the goal was
  not found, everything newly seen has all its dependencies seen, which makes
  the `seen` set shared by all branches sound. Hence `ValidationHolds`: exactly
  the sound campaigns may start.
- *The campaign at work.* None of the run's safety properties is inductive.
  `IInv` says of a task that was ever claimed that its campaign is approved,
  that the manifest neither completes nor fails it, and that everything it
  depends on directly counts as completed (`Begun`); a completed task is not
  leased, and stays completed through every step (`DoneStays`). What is further
  down follows by `Below`: a completed task was claimed once, or the manifest
  called it complete. Two tasks that share a path are ordered by validation, so
  the lower one is completed while the upper is leased (`AccessIsSerial`).
  `Reading` adds, for `campaign-status`, that a state file read as completed,
  cancelled or out of attempts is still the same; every verdict of the answer
  is traced to such files, by a minimal counterexample again
  (`AnswerKeepsStanding`).
- *Conditions.* `Hazards = {}` where the main agent's discipline is needed, as
  in the run; `AttemptsAreBounded` needs only that claims follow schedules, and
  that no outcome unknown to the scheduler is recorded (`"other"`: the outcome
  of `task-release` is free text, and an unknown one is retried for ever).
  `AccessIsSerial` and `AnswerKeepsStanding` also assume `RecordedInOrder`: a
  task the manifest calls complete stands on tasks it calls complete. The proof
  showed that this is needed, and validation does not ask for it (see
  [findings](#findings)).

TLC checked the invariants of these two modules on the instances of the runs
before they were proved.

`TypeCorrect`, `OneHolder`, `AuditMatchesState`, `MutualExclusion` and the rest
appear in `PROJECT.json` beside the run that checks the same definition.

Every invariant, action property and refinement that a passing run checks is
stated by a theorem. Only model-checked: the liveness properties
(`StaleLockCleared`, `DeadOwnersLockReclaimed`, `CallsEnd`), because liveness
under fairness is outside the prover's reach; and what `Study` computes of a
dataset, the mean and the median, which are folds over data.

## Findings

Each is a run that must find its property violated, and quotes the sentence of
the repository the code departs from; `PROJECT.json` has the details.

1. `task_lock_race`: a stale task lock is unlinked by path after its age was
   tested; a slow waiter removes the lock a faster one has just created.
2. `migration_damaged`: an incomplete rollback reports that startup is blocked,
   and marks its bundle as rolled back; the next apply passes over it.

Narrower observations, which the models contain and no run is spent on:

- The coordinator's lock reads the owner a second time before it unlinks
  (`coordinator.py`, lines 391-394); that narrows the window of 1 and does not
  close it. `Hazards` of `CoordinatorLock` has it as `"race"`. The migration
  lock (`migration_apply.py`, line 129) has the window of 1; its runs assume it
  away as well.
- A manifest may call a task complete whose dependency it leaves open
  (`campaign.py`, lines 38-138, compares no status with another). Then the
  scheduler offers what lies above the complete task and what lies below it at
  once, and "an explicit dependency is the opt-in mechanism for serial access
  to the same path" (line 125) gives no serial access: with a chain of three
  tasks on one path whose middle one is complete, TLC finds two workers on that
  path after two claims. The campaigns of the run record tasks in order.
- An acceptance is recognised as a repetition against a task's latest outcome
  only (`coordinator.py`, line 147): an older one, repeated, is accepted again.
- `campaign-status` reads leases alone (`cli.py`, line 284), so a task released
  as complete counts as completed there whatever its gates say.
- `remove` writes back the record it read when it began, and `create` the one
  it made: of two calls on a session the slower one's record stays
  (`workspace.py`, line 82). `Removable` and `VerifiedIsObserved` except
  sessions with overlapping calls for that reason.
- `campaign-status` may take a held lease for expired, if it is renewed between
  the reading and the schedule; `VerdictsStand` excepts such tasks and those that depend on them.
- Two receipts for one path may both be answered; the later stays
  (`cli.py`, lines 351-357). A packet file cut short is in the way of its own
  repetition (`cli.py`, lines 384-390).
- After the "committed" record a call that fails brings the pins back first and
  the schemas after (`migration_apply.py`, lines 399-411). If it dies between
  two files, the next apply finds "committed" in the log and settles the bundle
  as done (lines 211-214): old pins, new schemas, for good. With `"abandon"` in
  `Hazards` and `MayAbandon` FALSE TLC finds this in 14 states. A rollback that
  is cut short is not resumed either, because its bundle is not "prepared"
  (lines 204-205), and one of a bundle that is not the newest, or that comes
  while another interrupted migration waits, leaves contents no plan ever had.
- A review judges the criteria only if the manifest has some, results are there,
  and their JSON is an object; otherwise no check is added (`review.py`, lines
  184-187). A command that writes `[]` and exits with 0 passes with no criterion
  applied; `PassedRunIsWhole` says "misses none", not "meets all".
- "Two scorers who did not execute the cell" (`protocol.md` of the study, lines
  58-59): the ingester requires that the scorers are two, and neither of them
  the adjudicator (`ingest_adjudicated_v2.py`, lines 88-139). It never compares
  them with the agent that executed the attempt, whose packet named the arm
  (`subject_packets.py`, line 157). In `Study` anybody may score; the run has
  people of their own for it, and `ArmIsToldLast` holds for any.
- A dataset takes the order of reveal and adjudication packet by packet; the
  reveal of one packet may precede the adjudication of another
  (`ingest_adjudicated_v2.py`, line 133).
- An attempt that took 0 seconds is ingested, and the analysis of its dataset
  raises (`analyze.py`, line 54): `Analyze` has no step for it.

## What is not modelled

- Schema validation, digests, path normalisation, wording of answers: pure
  functions of one document, which unit tests reach.
- What a host does outside this package: the verifier behind an approval is a
  choice, the agents' discipline a set of hazards, the file system is local
  (`os.replace` and `O_EXCL` are atomic, an append of one record may be cut
  short but not mixed with another). Power loss, which may lose what was not
  fsynced, is not a hazard here: a crash is the death of a process.
- Of the command line: argument parsing, and the commands that only read and
  print (`doctor`, `validate`, `migration-plan`, `reproduce-assess`, the
  `verify` commands).
- `refresh_registry` and `review-plugins` listings: derived files, written after
  the fact and read by people.
- `cohort.py` and `study_verification.py`: checks of the documents of an earlier
  protocol, whose content `Study`'s stages check in their own form.
- The migration planner, attestation, contracts, release, benchmark, diagnosis:
  no state, or fixed inputs.
- `environment.py` and `reproduce.py`: a capture is a document, stored by a run
  as part of its record, and the comparison of two captures keeps nothing.

## Plan

In this order; all but 9 are done.

1. `TaskLease`, `TaskRuntime` and their proofs: what every other part relies on.
2. `FileLock`, `CoordinatorLock` and their proofs.
3. `Coordinator` over `FileLock`, and its proofs.
4. `MigrationStore`, `MigrationApply`; then the proofs, the refinement last.
5. `Campaign`, `Scheduler`, `CampaignRun`, `StatusBoard`; then the proofs: the
   schedule, the searches, the campaign at work, the answer.
6. `Lifecycle` and `ExperimentRun`, and their proofs.
7. `Workspace` and `Dispatch`, and their proofs.
8. `Cohort` and `Study`, and their proofs.
9. Proofs that connect what is now two models of one thing: that a lease of
   `CampaignRun` is `TaskLease`'s, and an acceptance `Coordinator`'s, as
   refinements of the parts rather than by their comments.

## Running

    tlc -workers 2 -config MCTaskRuntime.cfg MCTaskRuntime
    tlapm TaskRuntimeProofs.tla

and likewise for the other rows of the table: the `module` and `cfg` of each
run are in `PROJECT.json`. The runs take between a second and three minutes
(`experiment`, 4.6 million states; `study`, whose manifests range over all sets
of attempts); the proofs up to several minutes each.
