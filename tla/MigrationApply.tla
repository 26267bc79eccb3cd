---------------------------- MODULE MigrationApply ----------------------------
(***************************************************************************)
(* science_repo/migration_apply.py: apply_contract_migration and            *)
(* rollback_contract_migration.  A migration keeps its backups, its state  *)
(* and a write-ahead log in a bundle under .science/migrations; whoever    *)
(* applies the next one first settles what a dead process left behind.     *)
(*                                                                          *)
(* Calls of several processes interleave, a process may die and a write    *)
(* may fail at every step.                                                 *)
(***************************************************************************)
EXTENDS Integers, Sequences

CONSTANTS Procs,       \* processes that migrate, one call each
          Nobody,      \* there is no lock file
          Dead,        \* the lock file names a process that is dead
          Unknown,     \* the lock file is empty: its creator died too early
          Contracts, Versions, Absent, Plans, Original,  \* see MigrationStore
          MaxApplies,  \* bound: how many applies are started
          Hazards      \* what the environment may do, see below

(* "crash"  : a process may die at any step.                               *)
(* "fault"  : a write may fail; the call handles the exception.            *)
(* "restore": bringing back a file after a failure may fail, too.          *)
(* "race"   : others may run while a dead process's lock is taken over.    *)
(* "abandon": a death or a failure may cut short, between two files, a     *)
(*            rollback or the undo of a migration whose "committed" record *)
(*            is in its log, which nobody then takes up again.             *)
AllHazards == {"crash", "fault", "restore", "race", "abandon"}

VARIABLES project,  \* the pins of science-project.yaml, and the schemas
          bundles,  \* the migration bundles, oldest first
          lock,     \* .science/migration.lock: whose pid it has, see above
          pc,       \* where each call stands
          call,     \* the arguments and locals of each call
          applies,  \* how many applies were started
          damaged   \* history: a call reported an incomplete rollback

vars == <<project, bundles, lock, pc, call, applies, damaged>>

Open(b) == b.state = "prepared" /\ b.wal.phase # "committed"

-----------------------------------------------------------------------------
(* A bundle: the state in its manifest.json ("none": not written yet), and  *)
(* its wal.jsonl: whether the file is there and has a "committed" record,   *)
(* and how it ends (whole; a record without its newline; a torn record).   *)
Phases == {"none", "open", "committed"}
Tails == {"whole", "unended", "torn"}
States == {"none", "prepared", "committed", "rolled-back"}

(* A bundle's files are those of its contracts' schemas, and the manifest. *)
Manifest == "manifest"

Store == INSTANCE MigrationStore
           WITH store <- project, saved <- {}, pending <- {}, undoing <- {}, MayAbandon <- FALSE

ASSUME MigrationAssumption ==
  /\ {Nobody, Dead, Unknown} \cap Procs = {}
  /\ Nobody # Dead /\ Nobody # Unknown /\ Dead # Unknown
  /\ Absent \notin Versions
  /\ Manifest \notin Contracts
  /\ Plans \subseteq Store!PlanType
  /\ Original \in Store!Stores
  /\ MaxApplies \in Nat
  /\ Hazards \subseteq AllHazards

NoBackup == [changed |-> {}, pins |-> Original.pins,
             schemas |-> [c \in Contracts |-> Absent]]

NewBundleRecord == [state |-> "none", wal |-> [phase |-> "none", tail |-> "whole"],
                    backup |-> NoBackup]

Bundles == [state : States, wal : [phase : Phases, tail : Tails], backup : Store!Backups]

(* What a call does at the moment: "recovery" is what an apply does for    *)
(* others, "undo" what it does for itself after a failure.                 *)
Jobs == {"none", "apply", "recovery", "rollback", "undo"}

NoPlan == [changed |-> {}, from |-> Original.pins, to |-> Original.pins]

NoCall == [job |-> "none", plan |-> NoPlan, bundle |-> 0, seen |-> "none",
           todo |-> {}, ok |-> FALSE, incomplete |-> FALSE]

(* Waiting for the lock; taking over a dead process's lock (before the     *)
(* unlink, before the second create); inside.                              *)
Working == {"bundling", "saving", "preparing", "writing", "logging", "committing",
            "finishing"}
Inside == {"created", "recovering", "checking", "restoring", "settling", "leaving"}
            \cup Working
Places == {"idle", "locking", "takeover", "recreating"} \cup Inside

Init ==
  /\ project = Original
  /\ bundles = <<>>
  /\ lock = Nobody
  /\ pc = [p \in Procs |-> "idle"]
  /\ call = [p \in Procs |-> NoCall]
  /\ applies = 0
  /\ damaged = FALSE

Goto(p, place) == pc' = [pc EXCEPT ![p] = place]

Bundle(p) == bundles[call[p].bundle]
Files(b) == b.changed \cup {Manifest}

SetState(i, state) == bundles' = [bundles EXCEPT ![i].state = state]

-----------------------------------------------------------------------------
(* Before the lock.                                                        *)

(* The plan's pins are where they were or where they lead, and there is    *)
(* something left to do.  (When there is not, the call answers              *)
(* "already-applied" and changes nothing.)                                 *)
Apply(p) ==
  /\ pc[p] = "idle"
  /\ applies < MaxApplies
  /\ applies' = applies + 1
  /\ \E plan \in Plans :
        /\ \A c \in plan.changed : project.pins[c] \in {plan.from[c], plan.to[c]}
        /\ \E c \in plan.changed : project.pins[c] # plan.to[c]
                                     \/ project.schemas[c] # plan.to[c]
        /\ call' = [call EXCEPT ![p] = [NoCall EXCEPT !.job = "apply", !.plan = plan]]
  /\ Goto(p, "locking")
  /\ UNCHANGED <<project, bundles, lock, damaged>>

(* Any bundle whose manifest.json is there may be rolled back, whatever    *)
(* its state and however many migrations came after it.                    *)
Rollback(p) ==
  /\ pc[p] = "idle"
  /\ \E i \in DOMAIN bundles :
        /\ bundles[i].state # "none"
        /\ call' = [call EXCEPT ![p] = [NoCall EXCEPT !.job = "rollback", !.bundle = i,
                                                      !.seen = bundles[i].state]]
  /\ Goto(p, "locking")
  /\ UNCHANGED <<project, bundles, lock, applies, damaged>>

-----------------------------------------------------------------------------
(* _migration_lock.                                                        *)

GiveUp(p) ==
  /\ Goto(p, "idle")
  /\ call' = [call EXCEPT ![p] = NoCall]

Acquire(p) ==
  /\ pc[p] = "locking"
  /\ lock = Nobody
  /\ lock' = p
  /\ Goto(p, "created")
  /\ UNCHANGED <<project, bundles, call, applies, damaged>>

(* The owner is alive, or the file does not tell who it is. *)
Busy(p) ==
  /\ pc[p] = "locking"
  /\ lock \in Procs \cup {Unknown}
  /\ GiveUp(p)
  /\ UNCHANGED <<project, bundles, lock, applies, damaged>>

(* Mutant: whoever the lock names is taken for dead. *)
FindAnybody(p) ==
  /\ pc[p] = "locking"
  /\ lock # Nobody
  /\ Goto(p, "takeover")
  /\ UNCHANGED <<project, bundles, call, lock, applies, damaged>>

FindDead(p) ==
  /\ pc[p] = "locking"
  /\ lock = Dead
  /\ Goto(p, "takeover")
  /\ UNCHANGED <<project, bundles, lock, call, applies, damaged>>

(* The unlink goes by the path alone; a missing file raises. *)
Unlink(p) ==
  /\ pc[p] = "takeover"
  /\ lock' = Nobody
  /\ IF lock = Nobody THEN GiveUp(p) ELSE Goto(p, "recreating") /\ UNCHANGED call
  /\ UNCHANGED <<project, bundles, applies, damaged>>

Recreate(p) ==
  /\ pc[p] = "recreating"
  /\ IF lock = Nobody
     THEN lock' = p /\ Goto(p, "created") /\ UNCHANGED call
     ELSE GiveUp(p) /\ UNCHANGED lock
  /\ UNCHANGED <<project, bundles, applies, damaged>>

WriteOwner(p) ==
  /\ pc[p] = "created"
  /\ Goto(p, IF call[p].job = "apply" THEN "recovering" ELSE "checking")
  /\ UNCHANGED <<project, bundles, lock, call, applies, damaged>>

(* The finally clause unlinks the path, whoever created the file. *)
Leave(p) ==
  /\ pc[p] = "leaving"
  /\ lock' = Nobody
  /\ damaged' = (damaged \/ call[p].incomplete)
  /\ GiveUp(p)
  /\ UNCHANGED <<project, bundles, applies>>

-----------------------------------------------------------------------------
(* The log.  A record that follows one without a newline joins it.         *)

Appended(wal, phase) ==
  IF wal.tail = "whole" THEN [wal EXCEPT !.phase = phase] ELSE [wal EXCEPT !.tail = "torn"]

(* What an append leaves that fails or dies half-way. *)
Partial(wal, phase) ==
  LET there == IF wal.phase = "none" THEN "open" ELSE wal.phase
  IN  {wal, [phase |-> there, tail |-> "torn"], Appended(wal, phase)}
        \cup (IF wal.tail = "whole" THEN {[phase |-> phase, tail |-> "unended"]} ELSE {})

(* Mutant: the record of a restoration hides the earlier ones. *)
NextPhaseRestored(p) == IF pc[p] = "committing" THEN "committed" ELSE "restored"

(* The phase the record of each step adds to: only "committed" matters to  *)
(* whoever reads the log.                                                  *)
NextPhase(p) ==
  CASE pc[p] = "committing" -> "committed"
    [] Bundle(p).wal.phase = "none" -> "open"
    [] OTHER -> Bundle(p).wal.phase

Log(p) ==
  bundles' = [bundles EXCEPT ![call[p].bundle].wal = Appended(@, NextPhase(p))]

Logs(p) ==
  \/ pc[p] \in {"preparing", "logging", "committing"}
  \/ pc[p] = "restoring" /\ call[p].todo = {}

(* The log a step that fails or dies leaves behind. *)
CutShort(p) ==
  IF Logs(p)
  THEN \E wal \in Partial(Bundle(p).wal, NextPhase(p)) :
          bundles' = [bundles EXCEPT ![call[p].bundle].wal = wal]
  ELSE UNCHANGED bundles

-----------------------------------------------------------------------------
(* _recover_prepared_bundles.                                              *)

(* Mutant: a bundle without a manifest.json is passed over. *)
SettledUnlessPrepared(b) == b.state # "prepared"

Settled(b) == b.state \in {"committed", "rolled-back"}

(* Bundles are visited oldest first; the settled ones are passed over. *)
NextToSettle(i) ==
  /\ i \in DOMAIN bundles
  /\ ~Settled(bundles[i])
  /\ \A j \in DOMAIN bundles : j < i => Settled(bundles[j])

AllSettled == \A i \in DOMAIN bundles : Settled(bundles[i])

Unreadable(b) == b.state = "none" \/ b.wal.phase = "none" \/ b.wal.tail = "torn"

(* The apply is blocked: nobody can tell what this bundle did. *)
Blocked(p) ==
  /\ pc[p] = "recovering"
  /\ \E i \in DOMAIN bundles : NextToSettle(i) /\ Unreadable(bundles[i])
  /\ Goto(p, "leaving")
  /\ UNCHANGED <<project, bundles, lock, call, applies, damaged>>

(* The migration was committed; only its manifest.json does not say so. *)
FinishForDead(p) ==
  /\ pc[p] = "recovering"
  /\ \E i \in DOMAIN bundles :
        /\ NextToSettle(i) /\ ~Unreadable(bundles[i])
        /\ bundles[i].wal.phase = "committed"
        /\ SetState(i, "committed")
  /\ UNCHANGED <<project, lock, pc, call, applies, damaged>>

(* Mutant: an interrupted migration is left as it is. *)
RestoreNothing(p) ==
  /\ pc[p] = "recovering"
  /\ \E i \in DOMAIN bundles :
        /\ NextToSettle(i) /\ Open(bundles[i]) /\ ~Unreadable(bundles[i])
        /\ SetState(i, "rolled-back")
  /\ UNCHANGED <<project, lock, pc, call, applies, damaged>>

RestoreForDead(p) ==
  /\ pc[p] = "recovering"
  /\ \E i \in DOMAIN bundles :
        /\ NextToSettle(i) /\ Open(bundles[i]) /\ ~Unreadable(bundles[i])
        /\ call' = [call EXCEPT ![p].job = "recovery", ![p].bundle = i,
                                ![p].todo = Files(bundles[i].backup)]
  /\ Goto(p, "restoring")
  /\ UNCHANGED <<project, bundles, lock, applies, damaged>>

(* The pins are read again; they must be where the plan starts from. *)
Revalidate(p) ==
  /\ pc[p] = "recovering"
  /\ AllSettled
  /\ Goto(p, IF Store!Fits(project, call[p].plan) THEN "bundling" ELSE "leaving")
  /\ UNCHANGED <<project, bundles, lock, call, applies, damaged>>

-----------------------------------------------------------------------------
(* apply_contract_migration, inside the lock.                              *)

MakeBundle(p) ==
  /\ pc[p] = "bundling"
  /\ bundles' = Append(bundles, NewBundleRecord)
  /\ call' = [call EXCEPT ![p].bundle = Len(bundles) + 1]
  /\ Goto(p, "saving")
  /\ UNCHANGED <<project, lock, applies, damaged>>

(* The backups are written, then manifest.json names them. *)
SaveOriginals(p) ==
  /\ pc[p] = "saving"
  /\ bundles' = [bundles EXCEPT ![call[p].bundle].state = "prepared",
                   ![call[p].bundle].backup = Store!BackupOf(project, call[p].plan)]
  /\ Goto(p, "preparing")
  /\ UNCHANGED <<project, lock, call, applies, damaged>>

LogPrepared(p) ==
  /\ pc[p] = "preparing"
  /\ Log(p)
  /\ call' = [call EXCEPT ![p].todo = call[p].plan.changed]
  /\ Goto(p, "writing")
  /\ UNCHANGED <<project, lock, applies, damaged>>

WriteSchema(p) ==
  /\ pc[p] = "writing"
  /\ \E c \in call[p].todo :
        /\ project' = [project EXCEPT !.schemas[c] = call[p].plan.to[c]]
        /\ call' = [call EXCEPT ![p].todo = @ \ {c}]
  /\ Goto(p, "logging")
  /\ UNCHANGED <<bundles, lock, applies, damaged>>

LogSchema(p) ==
  /\ pc[p] = "logging"
  /\ Log(p)
  /\ Goto(p, "writing")
  /\ UNCHANGED <<project, lock, call, applies, damaged>>

(* The commit point of the files: the pins read inside the lock, with the   *)
(* plan's targets.                                                         *)
WriteManifest(p) ==
  /\ pc[p] = "writing"
  /\ call[p].todo = {}
  /\ project' = [project EXCEPT !.pins =
                    Store!Overlay(Bundle(p).backup.pins, call[p].plan.to, call[p].plan.changed)]
  /\ Goto(p, "committing")
  /\ UNCHANGED <<bundles, lock, call, applies, damaged>>

LogCommitted(p) ==
  /\ pc[p] = "committing"
  /\ Log(p)
  /\ Goto(p, "finishing")
  /\ UNCHANGED <<project, lock, call, applies, damaged>>

Finish(p) ==
  /\ pc[p] = "finishing"
  /\ SetState(call[p].bundle, "committed")
  /\ call' = [call EXCEPT ![p].ok = TRUE]
  /\ Goto(p, "leaving")
  /\ UNCHANGED <<project, lock, applies, damaged>>

-----------------------------------------------------------------------------
(* Bringing back what a bundle has saved: for a dead process, for a caller  *)
(* (rollback_contract_migration), or for the migration itself.             *)

(* manifest.json must be what was read before the lock. *)
CheckBundle(p) ==
  /\ pc[p] = "checking"
  /\ IF Bundle(p).state = call[p].seen
     THEN /\ call' = [call EXCEPT ![p].todo = Files(Bundle(p).backup)]
          /\ Goto(p, "restoring")
     ELSE UNCHANGED call /\ Goto(p, "leaving")
  /\ UNCHANGED <<project, bundles, lock, applies, damaged>>

(* _restore_entries brings the manifest back last, a failed migration first. *)
InTurn(p, file) ==
  /\ file \in call[p].todo
  /\ IF call[p].job = "undo"
     THEN Manifest \in call[p].todo => file = Manifest
     ELSE file = Manifest => call[p].todo = {Manifest}

(* Mutant: the pins stay where they are. *)
RestoreSchemasOnly(p) ==
  /\ pc[p] = "restoring"
  /\ \E file \in call[p].todo :
        /\ InTurn(p, file)
        /\ project' = IF file = Manifest THEN project
                      ELSE [project EXCEPT !.schemas[file] = Bundle(p).backup.schemas[file]]
        /\ call' = [call EXCEPT ![p].todo = @ \ {file}]
  /\ UNCHANGED <<bundles, lock, pc, applies, damaged>>

Restore(p) ==
  /\ pc[p] = "restoring"
  /\ \E file \in call[p].todo :
        /\ InTurn(p, file)
        /\ project' = IF file = Manifest THEN [project EXCEPT !.pins = Bundle(p).backup.pins]
                      ELSE [project EXCEPT !.schemas[file] = Bundle(p).backup.schemas[file]]
        /\ call' = [call EXCEPT ![p].todo = @ \ {file}]
  /\ UNCHANGED <<bundles, lock, pc, applies, damaged>>

LogRestored(p) ==
  /\ pc[p] = "restoring"
  /\ call[p].todo = {}
  /\ Log(p)
  /\ Goto(p, "settling")
  /\ UNCHANGED <<project, lock, call, applies, damaged>>

(* A recovery goes on to the next bundle, a rollback or a failure ends. *)
Settle(p) ==
  /\ pc[p] = "settling"
  /\ SetState(call[p].bundle, "rolled-back")
  /\ IF call[p].job = "recovery"
     THEN /\ call' = [call EXCEPT ![p].job = "apply", ![p].bundle = 0]
          /\ Goto(p, "recovering")
     ELSE /\ call' = [call EXCEPT ![p].ok = (call[p].job = "rollback")]
          /\ Goto(p, "leaving")
  /\ UNCHANGED <<project, lock, applies, damaged>>

-----------------------------------------------------------------------------
(* Failures.                                                               *)

(* Some files are back and others not, and the next apply will not look      *)
(* into this bundle: it is settled, or its log says "committed".           *)
OnItsOwn(p) == /\ pc[p] = "restoring" /\ ~Open(Bundle(p))
               /\ call[p].todo \notin {{}, Files(Bundle(p).backup)}

MayStop(p) == "abandon" \in Hazards \/ ~OnItsOwn(p)

(* Inside the try of apply_contract_migration: roll back at once. *)
Undo(p) ==
  /\ "fault" \in Hazards
  /\ pc[p] \in {"writing", "logging", "committing", "finishing"}
  /\ CutShort(p)
  /\ call' = [call EXCEPT ![p].job = "undo", ![p].todo = Files(Bundle(p).backup)]
  /\ Goto(p, "restoring")
  /\ UNCHANGED <<project, lock, applies, damaged>>

(* A file cannot be brought back: the others still are. *)
SkipFile(p) ==
  /\ "restore" \in Hazards
  /\ pc[p] = "restoring"
  /\ call[p].job = "undo"
  /\ \E file \in call[p].todo :
        /\ InTurn(p, file)
        /\ call' = [call EXCEPT ![p].todo = @ \ {file}, ![p].incomplete = TRUE]
  /\ UNCHANGED <<project, bundles, lock, pc, applies, damaged>>

(* Anywhere else the call raises and gives the lock back on its way out.   *)
(* (Between the lock and the "prepared" record no handler does so; the     *)
(* abandoned context manager unlinks the lock when it is closed.)  A       *)
(* failed migration that cannot record its rollback reports that, too.     *)
Fault(p) ==
  /\ "fault" \in Hazards
  /\ \/ pc[p] \in {"created", "recovering", "checking", "bundling", "saving", "preparing",
                   "settling"}
     \/ pc[p] = "restoring" /\ (call[p].job # "undo" \/ call[p].todo = {})
  /\ MayStop(p)
  /\ CutShort(p)
  /\ call' = [call EXCEPT ![p].incomplete = @ \/ call[p].job = "undo"]
  /\ Goto(p, "leaving")
  /\ UNCHANGED <<project, lock, applies, damaged>>

(* The process dies; its lock file stays. *)
Crash(p) ==
  /\ "crash" \in Hazards
  /\ pc[p] # "idle" /\ MayStop(p)
  /\ CutShort(p)
  /\ lock' = IF lock # p THEN lock ELSE IF pc[p] = "created" THEN Unknown ELSE Dead
  /\ GiveUp(p)
  /\ UNCHANGED <<project, applies, damaged>>

-----------------------------------------------------------------------------
(* Unless takeovers may race, nobody else runs during one. *)
MayRun(p) ==
  "race" \in Hazards \/ \A q \in Procs \ {p} : pc[q] \notin {"takeover", "recreating"}

Enter(p) ==
  Apply(p) \/ Rollback(p) \/ Acquire(p) \/ Busy(p) \/ FindDead(p) \/ Unlink(p)
    \/ Recreate(p) \/ WriteOwner(p)

Settling(p) ==
  Blocked(p) \/ FinishForDead(p) \/ RestoreForDead(p) \/ Revalidate(p)
    \/ CheckBundle(p) \/ Restore(p) \/ LogRestored(p) \/ Settle(p)

Migrating(p) ==
  MakeBundle(p) \/ SaveOriginals(p) \/ LogPrepared(p) \/ WriteSchema(p) \/ LogSchema(p)
    \/ WriteManifest(p) \/ LogCommitted(p) \/ Finish(p)

Failing(p) == Undo(p) \/ SkipFile(p) \/ Fault(p)

Proceed(p) == Enter(p) \/ Settling(p) \/ Migrating(p) \/ Failing(p) \/ Leave(p)

Next == \E p \in Procs : (MayRun(p) /\ Proceed(p)) \/ Crash(p)

Spec == Init /\ [][Next]_vars

-----------------------------------------------------------------------------
CallType ==
  [job : Jobs, plan : Store!PlanType, bundle : Nat, seen : States,
   todo : SUBSET (Contracts \cup {Manifest}), ok : BOOLEAN, incomplete : BOOLEAN]

TypeOK ==
  /\ project \in Store!Stores
  /\ bundles \in Seq(Bundles)
  /\ lock \in Procs \cup {Nobody, Dead, Unknown}
  /\ pc \in [Procs -> Places]
  /\ call \in [Procs -> CallType]
  /\ applies \in Nat
  /\ damaged \in BOOLEAN

(* One migration or rollback runs at a time: "another migration apply or   *)
(* rollback holds the project lock" (migration_apply.py, line 132), also   *)
(* after processes died in theirs.                                         *)
OneMigration == \A p, q \in Procs : pc[p] \in Inside /\ pc[q] \in Inside => p = q

(* No migration is built on an unsettled one: whatever an earlier process   *)
(* left half-done was committed or rolled back before a new bundle is made *)
(* ("Recover interrupted pre-commit transactions, or fail closed on        *)
(* ambiguity", line 192).                                                  *)
SettledBeforeWork ==
  \A p \in Procs : pc[p] \in Working =>
     \A i \in DOMAIN bundles :
        \/ bundles[i].state \in {"committed", "rolled-back"}
        \/ i = call[p].bundle

(* The project as it will be once interrupted migrations are settled. *)
Promised ==
  IF \E i \in DOMAIN bundles : Open(bundles[i])
  THEN LET i == CHOOSE i \in DOMAIN bundles : Open(bundles[i])
       IN  Store!Restored(project, bundles[i].backup)
  ELSE project

(* A call that answers "applied" leaves every pin and every schema of its   *)
(* plan in place; one that answers "rolled-back" leaves the contents of    *)
(* its bundle, for good unless another interrupted migration waits to be   *)
(* settled.                                                                *)
AnswerHolds ==
  \A p \in Procs : pc[p] = "leaving" /\ call[p].ok =>
     IF call[p].job = "apply"
     THEN Promised = Store!Migrated(Promised, call[p].plan)
     ELSE \/ Promised = Store!Restored(Promised, Bundle(p).backup)
          \/ \E i \in DOMAIN bundles : Open(bundles[i]) /\ i # call[p].bundle

Saved == {bundles[i].backup : i \in {j \in DOMAIN bundles : bundles[j].state # "none"}}

(* The contents that a caller, or a failure after the commit, wants back,   *)
(* from the first file that is.                                            *)
Undoing ==
  {Bundle(p).backup : p \in {q \in Procs :
     /\ pc[q] \in {"restoring", "settling"} /\ call[q].todo # Files(Bundle(q).backup)
     /\ \/ call[q].job = "rollback"
        \/ call[q].job = "undo" /\ Bundle(q).wal.phase = "committed"}}

(* The contents that settling an interrupted migration brings back.        *)
Pending == {bundles[i].backup : i \in {j \in DOMAIN bundles : Open(bundles[j])}}

Promise ==
  INSTANCE MigrationStore
    WITH store <- Promised,
         saved <- Saved,
         pending <- Pending,
         undoing <- Undoing,
         MayAbandon <- "abandon" \in Hazards

(* Migrations are all or nothing, however they are interrupted: what is    *)
(* promised moves to a plan's targets in one step, the "committed" record, *)
(* from the contents that were saved.  Only a rollback, or a failure after  *)
(* that record, moves it back, file by file; and unless one of these is cut *)
(* short, of which nobody takes care (lines 204-205 and 211-214 pass over   *)
(* its bundle), it ends with every file of its bundle back.                *)
ImplementsMigrationStore == Promise!StoreSpec

(* "migration failed and automatic rollback is incomplete; startup is      *)
(* blocked" (lines 419-421): no migration is made after such a failure.    *)
IncompleteRollbackBlocks == damaged => \A p \in Procs : pc[p] \notin Working
=============================================================================
