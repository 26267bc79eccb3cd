-------------------------- MODULE MigrationApplyProofs --------------------------
(***************************************************************************)
(* What a contract migration keeps, for every project, every set of plans   *)
(* and every number of processes, of which any may die at any step and      *)
(* have any write fail: one migration works at a time, on what the earlier  *)
(* ones have settled; an answer tells the truth; and what the project is    *)
(* promised to be moves all at once.                                        *)
(***************************************************************************)
EXTENDS MigrationApply, TLAPS

(* Nobody else runs while the lock of a dead process is taken over.         *)
Orderly == "race" \notin Hazards

(* The lock: who is inside owns it, and who takes it over is alone in that. *)
TakingOver == {"takeover", "recreating"}

LockInv ==
  /\ \A p \in Procs : pc[p] \in Inside => lock = p
  /\ \A p \in Procs : pc[p] = "takeover" => lock = Dead
  /\ \A p \in Procs : pc[p] = "recreating" => lock = Nobody
  /\ \A p, q \in Procs : pc[p] \in TakingOver /\ pc[q] \in TakingOver => p = q

(* The bundles: a migration begins when all are settled, so that only the   *)
(* last may be open.                                                        *)
Last == Len(bundles)

SettledBefore(i) == \A j \in DOMAIN bundles : j < i => Settled(bundles[j])

OnlyLastOpen == SettledBefore(Last)

(* A call: which bundle it is at, and what it does there.                   *)
Chosen(p) == call[p].bundle \in DOMAIN bundles /\ Bundle(p).state # "none"

CallInv(p) ==
  /\ pc[p] # "idle" => call[p].job # "none"
  /\ pc[p] \in {"locking", "created"} \cup TakingOver => call[p].job \in {"apply", "rollback"}
  /\ pc[p] \in {"recovering"} \cup Working => call[p].job = "apply"
  /\ pc[p] = "checking" => call[p].job = "rollback"
  /\ pc[p] \in {"restoring", "settling"} => call[p].job # "apply"
  /\ call[p].job \in {"apply", "recovery", "undo"} => call[p].plan \in Plans
  /\ pc[p] # "idle" /\ call[p].job \in {"rollback", "recovery", "undo"} => Chosen(p)
  /\ pc[p] # "idle" /\ call[p].job = "rollback" => call[p].seen # "none"
  /\ call[p].ok => pc[p] = "leaving" /\ call[p].job \in {"apply", "rollback"}
  /\ call[p].incomplete => call[p].job = "undo"
  /\ call[p].incomplete /\ "restore" \notin Hazards => pc[p] = "leaving"

(* A migration at work: how far its bundle, its log and the project are.    *)
Begun(p) == call[p].bundle = Last /\ Last # 0 /\ OnlyLastOpen

Kept(p, done) ==
  /\ Bundle(p).state = "prepared"
  /\ Bundle(p).backup.changed = call[p].plan.changed
  /\ Bundle(p).backup = Store!BackupOf(Store!Restored(project, Bundle(p).backup), call[p].plan)
  /\ \A c \in call[p].plan.changed : Bundle(p).backup.pins[c] = call[p].plan.from[c]
  /\ \A c \in done : project.schemas[c] = call[p].plan.to[c]

Logged(p, phase) == Bundle(p).wal = [phase |-> phase, tail |-> "whole"]

WorkInv(p) ==
  /\ pc[p] = "bundling" => AllSettled /\ Store!Fits(project, call[p].plan)
  /\ pc[p] = "saving" => /\ Begun(p) /\ Bundle(p).state = "none" /\ Logged(p, "none")
                         /\ Store!Fits(project, call[p].plan)
  /\ pc[p] = "preparing" => /\ Begun(p) /\ Kept(p, {}) /\ Logged(p, "none")
                            /\ project.pins = Bundle(p).backup.pins
  /\ pc[p] \in {"writing", "logging"} =>
       /\ Begun(p) /\ Kept(p, call[p].plan.changed \ call[p].todo) /\ Logged(p, "open")
       /\ call[p].todo \subseteq call[p].plan.changed
       /\ project.pins = Bundle(p).backup.pins
  /\ pc[p] \in {"committing", "finishing"} =>
       /\ Begun(p) /\ Kept(p, call[p].plan.changed)
       /\ Logged(p, IF pc[p] = "committing" THEN "open" ELSE "committed")
       /\ project.pins = Store!Overlay(Bundle(p).backup.pins, call[p].plan.to,
                                       call[p].plan.changed)

(* What was brought back is back, unless a file was skipped.                *)
BackAgain(p, done) ==
  /\ Manifest \in done => project.pins = Bundle(p).backup.pins
  /\ \A c \in done \cap Bundle(p).backup.changed :
        project.schemas[c] = Bundle(p).backup.schemas[c]

RestoreInv(p) ==
  /\ pc[p] = "restoring" =>
       /\ call[p].todo \subseteq Files(Bundle(p).backup)
       /\ ~call[p].incomplete => BackAgain(p, Files(Bundle(p).backup) \ call[p].todo)
  /\ pc[p] = "settling" /\ ~call[p].incomplete => BackAgain(p, Files(Bundle(p).backup))
  /\ pc[p] \in {"restoring", "settling"} /\ call[p].job \in {"recovery", "undo"} =>
       Begun(p) /\ Bundle(p).state = "prepared"
  /\ pc[p] \in {"restoring", "settling"} /\ call[p].job = "recovery" => Open(Bundle(p))

(* An answer.                                                               *)
AnswerInv(p) ==
  call[p].ok =>
    IF call[p].job = "apply"
    THEN /\ AllSettled
         /\ \A c \in call[p].plan.changed :
               project.pins[c] = call[p].plan.to[c] /\ project.schemas[c] = call[p].plan.to[c]
    ELSE /\ ~Open(Bundle(p))
         /\ BackAgain(p, Files(Bundle(p).backup))

Inv(p) == CallInv(p) /\ WorkInv(p) /\ RestoreInv(p) /\ AnswerInv(p)

IInv == TypeOK /\ LockInv /\ OnlyLastOpen /\ \A p \in Procs : Inv(p)

-----------------------------------------------------------------------------
(* Types, whatever the environment does.  A call that works on a bundle has  *)
(* one.                                                                    *)
Reaches(p) ==
  /\ pc[p] \in {"locking", "created"} \cup TakingOver => call[p].job \in {"apply", "rollback"}
  /\ \/ pc[p] \in {"checking", "restoring", "settling"} \cup (Working \ {"bundling"})
     \/ pc[p] # "idle" /\ call[p].job = "rollback"
     => call[p].bundle \in DOMAIN bundles

TInv == TypeOK /\ \A p \in Procs : Reaches(p)

LEMMA RecordsAre ==
  /\ NoCall \in CallType /\ NewBundleRecord \in Bundles
  /\ \A plan \in Plans : plan \in Store!PlanType
  /\ \A s \in Store!Stores, plan \in Store!PlanType : Store!BackupOf(s, plan) \in Store!Backups
<1>1. /\ Original.pins \in [Contracts -> Versions]
      /\ Plans \subseteq Store!PlanType
  BY MigrationAssumption DEF Store!Stores
<1>2. NoPlan \in Store!PlanType
  BY <1>1 DEF NoPlan, Store!PlanType
<1>3. NoBackup \in Store!Backups
  BY <1>1 DEF NoBackup, Store!Backups
<1>4. ASSUME NEW s \in Store!Stores, NEW plan \in Store!PlanType
      PROVE  Store!BackupOf(s, plan) \in Store!Backups
  BY DEF Store!BackupOf, Store!Backups, Store!Stores, Store!PlanType
<1>5. NoCall \in CallType
  BY <1>2 DEF NoCall, CallType, Jobs, States
<1>6. NewBundleRecord \in Bundles
  BY <1>3 DEF NewBundleRecord, Bundles, States, Phases, Tails
<1>. QED  BY <1>1, <1>4, <1>5, <1>6

(* The log after an append, whole or cut short.                             *)
LEMMA PhasesAre ==
  ASSUME TypeOK, NEW p \in Procs, call[p].bundle \in DOMAIN bundles
  PROVE  /\ Bundle(p) \in Bundles
         /\ NextPhase(p) \in Phases \ {"none"}
         /\ Appended(Bundle(p).wal, NextPhase(p)) \in [phase : Phases, tail : Tails]
         /\ Partial(Bundle(p).wal, NextPhase(p)) \subseteq [phase : Phases, tail : Tails]
<1>1. Bundle(p) \in Bundles
  BY DEF TypeOK, Bundle
<1>2. NextPhase(p) \in Phases \ {"none"}
  BY <1>1 DEF NextPhase, Phases, Bundles
<1>. QED  BY <1>1, <1>2 DEF Appended, Partial, Bundles, Phases, Tails

LEMMA BundlePut ==
  ASSUME TypeOK, NEW i \in DOMAIN bundles, NEW b \in Bundles,
         bundles' = [bundles EXCEPT ![i] = b]
  PROVE  /\ bundles' \in Seq(Bundles) /\ DOMAIN bundles' = DOMAIN bundles
         /\ Len(bundles') = Len(bundles) /\ bundles'[i] = b
         /\ \A j \in DOMAIN bundles : j # i => bundles'[j] = bundles[j]
BY DEF TypeOK

LEMMA LogType ==
  ASSUME TypeOK, NEW p \in Procs, call[p].bundle \in DOMAIN bundles, Log(p)
  PROVE  bundles' \in Seq(Bundles) /\ DOMAIN bundles' = DOMAIN bundles
<1>1. [Bundle(p) EXCEPT !.wal = Appended(@, NextPhase(p))] \in Bundles
  BY PhasesAre DEF Bundles
<1>. QED  BY <1>1, BundlePut DEF Log, Bundle

LEMMA SetStateType ==
  ASSUME TypeOK, NEW i \in DOMAIN bundles, NEW state \in States, SetState(i, state)
  PROVE  bundles' \in Seq(Bundles) /\ DOMAIN bundles' = DOMAIN bundles
<1>1. bundles[i] \in Bundles
  BY DEF TypeOK
<1>2. [bundles[i] EXCEPT !.state = state] \in Bundles
  BY <1>1 DEF Bundles
<1>. QED  BY <1>2, BundlePut DEF SetState

LEMMA CutShortType ==
  ASSUME TInv, NEW p \in Procs, CutShort(p)
  PROVE  bundles' \in Seq(Bundles) /\ DOMAIN bundles' = DOMAIN bundles
<1>1. CASE Logs(p)
  <2>1. call[p].bundle \in DOMAIN bundles
    BY <1>1 DEF TInv, Reaches, Logs, Working
  <2>2. PICK wal \in Partial(Bundle(p).wal, NextPhase(p)) :
          bundles' = [bundles EXCEPT ![call[p].bundle].wal = wal]
    BY <1>1 DEF CutShort
  <2>3. [Bundle(p) EXCEPT !.wal = wal] \in Bundles
    BY <2>1, PhasesAre DEF TInv, Bundles
  <2>. QED  BY <2>1, <2>2, <2>3, BundlePut DEF TInv, Bundle
<1>2. CASE ~Logs(p)
  BY <1>2 DEF CutShort, TInv, TypeOK
<1>. QED  BY <1>1, <1>2

LEMMA TInvStep == TInv /\ [Next]_vars => TInv'
<1> SUFFICES ASSUME TInv, [Next]_vars PROVE TInv'
  OBVIOUS
<1> USE DEF TInv
<1>t. /\ project \in Store!Stores /\ bundles \in Seq(Bundles)
      /\ lock \in Procs \cup {Nobody, Dead, Unknown} /\ pc \in [Procs -> Places]
      /\ call \in [Procs -> CallType] /\ applies \in Nat /\ damaged \in BOOLEAN
  BY DEF TypeOK
<1>u. CASE UNCHANGED vars
  BY <1>u DEF vars, TypeOK, Reaches, Bundle
<1>n. ASSUME NEW p \in Procs, Proceed(p) \/ Crash(p) PROVE TInv'
  <2>g. ASSUME NEW place \in Places, Goto(p, place)
        PROVE  pc' \in [Procs -> Places] /\ pc'[p] = place
               /\ \A q \in Procs \ {p} : pc'[q] = pc[q]
    BY <1>t, <2>g DEF Goto
  <2>e. ASSUME GiveUp(p)
        PROVE  /\ pc' \in [Procs -> Places] /\ call' \in [Procs -> CallType] /\ pc'[p] = "idle"
               /\ \A q \in Procs \ {p} : pc'[q] = pc[q] /\ call'[q] = call[q]
    BY <1>t, <2>e, RecordsAre DEF GiveUp, Goto, Places
  <2>q. ASSUME NEW q \in Procs, pc'[q] = pc[q], call'[q] = call[q],
               DOMAIN bundles \subseteq DOMAIN bundles'
        PROVE  Reaches(q)'
    BY <2>q DEF Reaches
  <2>a. /\ \A q \in Procs : Reaches(q)
        /\ pc[p] \in Places /\ call[p] \in CallType
    BY <1>t
  <2>1. CASE Apply(p)
    <3>1. PICK plan \in Plans : call' = [call EXCEPT ![p] = [NoCall EXCEPT !.job = "apply",
                                                                           !.plan = plan]]
      BY <2>1 DEF Apply
    <3>2. [NoCall EXCEPT !.job = "apply", !.plan = plan] \in CallType
      BY RecordsAre DEF CallType, Jobs
    <3>3. /\ call' \in [Procs -> CallType] /\ call'[p].job = "apply"
          /\ \A q \in Procs \ {p} : call'[q] = call[q]
      BY <1>t, <3>1, <3>2, RecordsAre DEF CallType
    <3>4. pc' \in [Procs -> Places] /\ pc'[p] = "locking"
          /\ \A q \in Procs \ {p} : pc'[q] = pc[q]
      BY <2>1, <2>g DEF Apply, Places
    <3>5. Reaches(p)'
      BY <3>3, <3>4 DEF Reaches, Working, TakingOver
    <3>. QED  BY <1>t, <2>1, <2>q, <3>3, <3>4, <3>5 DEF Apply, TypeOK
  <2>2. CASE Rollback(p)
    <3>1. PICK i \in DOMAIN bundles :
            call' = [call EXCEPT ![p] = [NoCall EXCEPT !.job = "rollback", !.bundle = i,
                                                       !.seen = bundles[i].state]]
      BY <2>2 DEF Rollback
    <3>2. [NoCall EXCEPT !.job = "rollback", !.bundle = i, !.seen = bundles[i].state]
            \in CallType
      <4>1. i \in Nat /\ bundles[i] \in Bundles
        BY <1>t
      <4>. QED  BY <4>1, RecordsAre DEF CallType, Jobs, Bundles
    <3>3. /\ call' \in [Procs -> CallType] /\ call'[p].job = "rollback" /\ call'[p].bundle = i
          /\ \A q \in Procs \ {p} : call'[q] = call[q]
      BY <1>t, <3>1, <3>2, RecordsAre DEF CallType
    <3>4. pc' \in [Procs -> Places] /\ pc'[p] = "locking"
          /\ \A q \in Procs \ {p} : pc'[q] = pc[q]
      BY <2>2, <2>g DEF Rollback, Places
    <3>5. Reaches(p)'
      BY <2>2, <3>3, <3>4 DEF Reaches, Rollback, TakingOver
    <3>. QED  BY <1>t, <2>2, <2>q, <3>3, <3>4, <3>5 DEF Rollback, TypeOK
  <2>3. CASE Acquire(p) \/ FindDead(p) \/ WriteOwner(p)
    <3>1. /\ UNCHANGED <<project, bundles, call, applies, damaged>>
          /\ lock' \in Procs \cup {Nobody, Dead, Unknown} /\ pc' \in [Procs -> Places]
          /\ \A q \in Procs \ {p} : pc'[q] = pc[q]
      BY <1>t, <2>3 DEF Acquire, FindDead, WriteOwner, Goto, Places, Inside
    <3>2. Reaches(p)'
      BY <1>t, <2>a, <2>3 DEF Acquire, FindDead, WriteOwner, Goto, Reaches, Working, TakingOver
    <3>. QED  BY <1>t, <2>q, <3>1, <3>2 DEF TypeOK
  <2>4. CASE Busy(p) \/ Leave(p)
    <3>1. GiveUp(p) /\ UNCHANGED <<project, bundles, applies>>
          /\ lock' \in {lock, Nobody} /\ damaged' \in BOOLEAN
      BY <1>t, <2>a, <2>4 DEF Busy, Leave, CallType
    <3>2. Reaches(p)'
      BY <2>e, <3>1 DEF Reaches, Working, TakingOver
    <3>. QED  BY <1>t, <2>e, <2>q, <3>1, <3>2 DEF TypeOK
  <2>5. CASE Unlink(p) \/ Recreate(p)
    <3>1. /\ UNCHANGED <<project, bundles, applies, damaged>>
          /\ lock' \in {lock, Nobody, p}
          /\ pc[p] \in TakingOver
          /\ \/ GiveUp(p)
             \/ (Goto(p, "recreating") \/ Goto(p, "created")) /\ UNCHANGED call
      BY <2>5 DEF Unlink, Recreate, TakingOver
    <3>2. CASE GiveUp(p)
      <4>1. Reaches(p)'
        BY <2>e, <3>2 DEF Reaches, Working, TakingOver
      <4>. QED  BY <1>t, <2>e, <2>q, <3>1, <3>2, <4>1 DEF TypeOK
    <3>3. CASE (Goto(p, "recreating") \/ Goto(p, "created")) /\ UNCHANGED call
      <4>1. /\ pc' \in [Procs -> Places] /\ pc'[p] \in {"recreating", "created"}
            /\ \A q \in Procs \ {p} : pc'[q] = pc[q]
        BY <3>3, <2>g DEF Places, Inside
      <4>2. Reaches(p)'
        BY <2>a, <3>1, <3>3, <4>1 DEF Reaches, Working, TakingOver
      <4>. QED  BY <1>t, <2>q, <3>1, <3>3, <4>1, <4>2 DEF TypeOK
    <3>. QED  BY <3>1, <3>2, <3>3
  <2>6. CASE Blocked(p) \/ Revalidate(p)
    <3>1. PICK place \in {"bundling", "leaving"} : Goto(p, place)
      BY <2>6 DEF Blocked, Revalidate
    <3>2. pc[p] = "recovering" /\ UNCHANGED <<project, bundles, lock, call, applies, damaged>>
      BY <2>6 DEF Blocked, Revalidate
    <3>3. pc' \in [Procs -> Places] /\ pc'[p] = place /\ \A q \in Procs \ {p} : pc'[q] = pc[q]
      BY <3>1, <2>g DEF Places, Inside, Working
    <3>4. Reaches(p)'
      BY <2>a, <3>2, <3>3 DEF Reaches, Working, TakingOver
    <3>. QED  BY <1>t, <2>q, <3>2, <3>3, <3>4 DEF TypeOK
  <2>7. CASE FinishForDead(p)
    <3>1. PICK i \in DOMAIN bundles : SetState(i, "committed")
      BY <2>7 DEF FinishForDead
    <3>2. bundles' \in Seq(Bundles) /\ DOMAIN bundles' = DOMAIN bundles
      BY <3>1, SetStateType DEF States
    <3>. QED  BY <1>t, <2>q, <2>7, <3>2 DEF FinishForDead, TypeOK
  <2>8. CASE RestoreForDead(p)
    <3>1. PICK i \in DOMAIN bundles :
            call' = [call EXCEPT ![p].job = "recovery", ![p].bundle = i,
                                 ![p].todo = Files(bundles[i].backup)]
      BY <2>8 DEF RestoreForDead
    <3>2. i \in Nat /\ bundles[i] \in Bundles
      BY <1>t
    <3>3. Files(bundles[i].backup) \subseteq Contracts \cup {Manifest}
      BY <3>2 DEF Files, Bundles, Store!Backups
    <3> DEFINE new == [call[p] EXCEPT !.job = "recovery", !.bundle = i,
                                      !.todo = Files(bundles[i].backup)]
    <3>n. new \in CallType /\ new.bundle = i
      BY <2>a, <3>2, <3>3 DEF CallType, Jobs
    <3>4. /\ call' \in [Procs -> CallType] /\ call'[p].bundle = i
          /\ \A q \in Procs \ {p} : call'[q] = call[q]
      BY <1>t, <3>1, <3>n
    <3>5. pc' \in [Procs -> Places] /\ pc'[p] = "restoring"
          /\ \A q \in Procs \ {p} : pc'[q] = pc[q]
      BY <2>8, <2>g DEF RestoreForDead, Places, Inside
    <3>6. bundles' = bundles /\ Reaches(p)'
      BY <2>8, <3>4, <3>5 DEF RestoreForDead, Reaches, TakingOver
    <3>. QED  BY <1>t, <2>8, <2>q, <3>4, <3>5, <3>6 DEF RestoreForDead, TypeOK
  <2>b. ASSUME pc[p] \in {"checking", "restoring", "settling"} \cup (Working \ {"bundling"})
        PROVE  /\ call[p].bundle \in DOMAIN bundles /\ Bundle(p) \in Bundles
               /\ Files(Bundle(p).backup) \subseteq Contracts \cup {Manifest}
               /\ Bundle(p).backup.pins \in [Contracts -> Versions]
               /\ Bundle(p).backup.schemas \in [Contracts -> Versions \cup {Absent}]
    <3>1. call[p].bundle \in DOMAIN bundles /\ Bundle(p) \in Bundles
      BY <1>t, <2>a, <2>b DEF Reaches, Bundle
    <3>. QED  BY <3>1 DEF Files, Bundles, Store!Backups
  <2>k. ASSUME NEW place \in Places, place \notin {"locking", "created"} \cup TakingOver,
               Goto(p, place), call' \in [Procs -> CallType],
               \A q \in Procs \ {p} : call'[q] = call[q],
               bundles' \in Seq(Bundles), DOMAIN bundles \subseteq DOMAIN bundles',
               \/ call[p].bundle \in DOMAIN bundles /\ call'[p].bundle = call[p].bundle
               \/ call'[p].bundle \in DOMAIN bundles'
               \/ place \in {"leaving", "recovering"} /\ call'[p].job # "rollback"
               \/ place \in {"leaving", "recovering"} /\ pc[p] # "idle"
                    /\ call'[p].job = call[p].job /\ call'[p].bundle = call[p].bundle,
               project' \in Store!Stores, UNCHANGED <<lock, applies, damaged>>
        PROVE  TInv'
    <3>1. pc' \in [Procs -> Places] /\ pc'[p] = place /\ \A q \in Procs \ {p} : pc'[q] = pc[q]
      BY <2>g, <2>k
    <3>2. Reaches(p)'
      BY <2>a, <2>k, <3>1 DEF Reaches, Working
    <3>. QED  BY <1>t, <2>k, <2>q, <3>1, <3>2 DEF TypeOK
  <2>9. CASE CheckBundle(p)
    <3>1. PICK place \in {"restoring", "leaving"} : Goto(p, place)
      BY <2>9 DEF CheckBundle
    <3>2. pc[p] = "checking" /\ UNCHANGED <<project, bundles, lock, applies, damaged>>
      BY <2>9 DEF CheckBundle
    <3>3. call' = call \/ call' = [call EXCEPT ![p].todo = Files(Bundle(p).backup)]
      BY <2>9 DEF CheckBundle
    <3>4. /\ call' \in [Procs -> CallType] /\ call'[p].bundle = call[p].bundle
          /\ \A q \in Procs \ {p} : call'[q] = call[q]
      BY <1>t, <2>b, <3>2, <3>3 DEF CallType
    <3>. QED  BY <1>t, <2>b, <2>k, <3>1, <3>2, <3>4 DEF Places, Inside, TakingOver
  <2>10. CASE Restore(p)
    <3>1. PICK file \in call[p].todo :
            /\ project' = IF file = Manifest THEN [project EXCEPT !.pins = Bundle(p).backup.pins]
                          ELSE [project EXCEPT !.schemas[file] = Bundle(p).backup.schemas[file]]
            /\ call' = [call EXCEPT ![p].todo = @ \ {file}]
      BY <2>10 DEF Restore
    <3>2. pc[p] = "restoring" /\ UNCHANGED <<bundles, lock, pc, applies, damaged>>
      BY <2>10 DEF Restore
    <3>3. file \in Contracts \cup {Manifest}
      BY <2>a DEF CallType
    <3>4. project' \in Store!Stores
      BY <1>t, <2>b, <3>1, <3>2, <3>3 DEF Store!Stores
    <3>5. /\ call' \in [Procs -> CallType] /\ call'[p].bundle = call[p].bundle
          /\ \A q \in Procs \ {p} : call'[q] = call[q]
      BY <1>t, <3>1 DEF CallType
    <3>6. Reaches(p)'
      BY <2>b, <3>2, <3>5 DEF Reaches, TakingOver
    <3>. QED  BY <1>t, <2>q, <3>2, <3>4, <3>5, <3>6 DEF TypeOK
  <2>11. CASE LogPrepared(p) \/ LogSchema(p) \/ LogCommitted(p) \/ LogRestored(p)
    <3>1. PICK place \in {"writing", "finishing", "settling"} : Goto(p, place)
      BY <2>11 DEF LogPrepared, LogSchema, LogCommitted, LogRestored
    <3>2. /\ pc[p] \in {"preparing", "logging", "committing", "restoring"}
          /\ Log(p) /\ UNCHANGED <<project, lock, applies, damaged>>
          /\ call' = call \/ call' = [call EXCEPT ![p].todo = call[p].plan.changed]
      BY <2>11 DEF LogPrepared, LogSchema, LogCommitted, LogRestored
    <3>3. bundles' \in Seq(Bundles) /\ DOMAIN bundles' = DOMAIN bundles
      BY <2>b, <3>2, LogType DEF Working
    <3>4. call[p].plan.changed \subseteq Contracts \cup {Manifest}
      BY <2>a DEF CallType, Store!PlanType
    <3>5. /\ call' \in [Procs -> CallType] /\ call'[p].bundle = call[p].bundle
          /\ \A q \in Procs \ {p} : call'[q] = call[q]
      BY <1>t, <3>2, <3>4 DEF CallType
    <3>. QED  BY <1>t, <2>b, <2>k, <3>1, <3>2, <3>3, <3>5 DEF Places, Inside, Working, TakingOver
  <2>12. CASE Settle(p)
    <3>1. PICK place \in {"recovering", "leaving"} :
            /\ Goto(p, place)
            /\ \/ call[p].job = "recovery"
                    /\ call' = [call EXCEPT ![p].job = "apply", ![p].bundle = 0]
               \/ place = "leaving" /\ call' = [call EXCEPT ![p].ok = (call[p].job = "rollback")]
      BY <2>12 DEF Settle
    <3>2. /\ pc[p] = "settling" /\ SetState(call[p].bundle, "rolled-back")
          /\ UNCHANGED <<project, lock, applies, damaged>>
      BY <2>12 DEF Settle
    <3>3. bundles' \in Seq(Bundles) /\ DOMAIN bundles' = DOMAIN bundles
      BY <2>b, <3>2, SetStateType DEF States
    <3>4. CASE call' = [call EXCEPT ![p].job = "apply", ![p].bundle = 0]
      <4>1. [call[p] EXCEPT !.job = "apply", !.bundle = 0] \in CallType
        BY <2>a DEF CallType, Jobs
      <4>2. /\ call' \in [Procs -> CallType] /\ call'[p].job = "apply"
            /\ \A q \in Procs \ {p} : call'[q] = call[q]
        BY <1>t, <2>a, <3>4, <4>1 DEF CallType
      <4>. QED  BY <1>t, <2>k, <3>1, <3>2, <3>3, <4>2 DEF Places, Inside, TakingOver
    <3>5. CASE place = "leaving" /\ call' = [call EXCEPT ![p].ok = (call[p].job = "rollback")]
      <4>b. PICK b \in BOOLEAN : call' = [call EXCEPT ![p].ok = b]
        BY <3>5, Zenon
      <4>1. /\ call' \in [Procs -> CallType] /\ call'[p].bundle = call[p].bundle
            /\ \A q \in Procs \ {p} : call'[q] = call[q]
        BY <1>t, <4>b DEF CallType
      <4>. QED  BY <1>t, <2>b, <2>k, <3>1, <3>2, <3>3, <4>1 DEF Places, Inside, TakingOver
    <3>. QED  BY <3>1, <3>4, <3>5
  <2>13. CASE MakeBundle(p)
    <3>1. /\ bundles' = Append(bundles, NewBundleRecord)
          /\ call' = [call EXCEPT ![p].bundle = Len(bundles) + 1]
          /\ Goto(p, "saving") /\ UNCHANGED <<project, lock, applies, damaged>>
      BY <2>13 DEF MakeBundle
    <3>2. /\ bundles' \in Seq(Bundles) /\ DOMAIN bundles \subseteq DOMAIN bundles'
          /\ Len(bundles) + 1 \in Nat /\ Len(bundles) + 1 \in DOMAIN bundles'
      BY <1>t, <3>1, RecordsAre
    <3>3. /\ call' \in [Procs -> CallType] /\ call'[p].bundle = Len(bundles) + 1
          /\ \A q \in Procs \ {p} : call'[q] = call[q]
      BY <1>t, <3>1, <3>2 DEF CallType
    <3>. QED  BY <1>t, <2>k, <3>1, <3>2, <3>3 DEF Places, Inside, Working, TakingOver
  <2>14. CASE SaveOriginals(p)
    <3> DEFINE new == [Bundle(p) EXCEPT !.state = "prepared",
                                        !.backup = Store!BackupOf(project, call[p].plan)]
    <3>1. /\ pc[p] = "saving" /\ bundles' = [bundles EXCEPT ![call[p].bundle] = new]
          /\ Goto(p, "preparing") /\ UNCHANGED <<project, lock, call, applies, damaged>>
      BY <2>14 DEF SaveOriginals, Bundle
    <3>2. Store!BackupOf(project, call[p].plan) \in Store!Backups
      BY <1>t, <2>a, RecordsAre DEF CallType
    <3>3. new \in Bundles
      BY <2>b, <3>1, <3>2 DEF Working, Bundles, States
    <3>4. bundles' \in Seq(Bundles) /\ DOMAIN bundles' = DOMAIN bundles
      BY <2>b, <3>1, <3>3, BundlePut DEF Working
    <3>. QED  BY <1>t, <2>b, <2>k, <3>1, <3>4 DEF Places, Inside, Working, TakingOver
  <2>15. CASE WriteSchema(p)
    <3>1. PICK c \in call[p].todo :
            /\ project' = [project EXCEPT !.schemas[c] = call[p].plan.to[c]]
            /\ call' = [call EXCEPT ![p].todo = @ \ {c}]
      BY <2>15 DEF WriteSchema
    <3>2. /\ pc[p] = "writing" /\ Goto(p, "logging")
          /\ UNCHANGED <<bundles, lock, applies, damaged>>
      BY <2>15 DEF WriteSchema
    <3>3. c \in Contracts => call[p].plan.to[c] \in Versions
      BY <2>a DEF CallType, Store!PlanType
    <3>4. project' \in Store!Stores
      BY <1>t, <3>1, <3>3 DEF Store!Stores
    <3>5. /\ call' \in [Procs -> CallType] /\ call'[p].bundle = call[p].bundle
          /\ \A q \in Procs \ {p} : call'[q] = call[q]
      BY <1>t, <3>1 DEF CallType
    <3>. QED  BY <1>t, <2>b, <2>k, <3>2, <3>4, <3>5 DEF Places, Inside, Working, TakingOver
  <2>16. CASE WriteManifest(p)
    <3>1. /\ pc[p] = "writing" /\ Goto(p, "committing")
          /\ project' = [project EXCEPT !.pins =
               Store!Overlay(Bundle(p).backup.pins, call[p].plan.to, call[p].plan.changed)]
          /\ UNCHANGED <<bundles, call, lock, applies, damaged>>
      BY <2>16 DEF WriteManifest
    <3>2. /\ Bundle(p).backup.pins \in [Contracts -> Versions]
          /\ call[p].plan.to \in [Contracts -> Versions]
      BY <2>a, <2>b, <3>1 DEF Working, CallType, Store!PlanType
    <3>3. project' \in Store!Stores
      BY <1>t, <3>1, <3>2 DEF Store!Stores, Store!Overlay
    <3>. QED  BY <1>t, <2>b, <2>k, <3>1, <3>3 DEF Places, Inside, Working, TakingOver
  <2>17. CASE Finish(p)
    <3>1. /\ pc[p] = "finishing" /\ SetState(call[p].bundle, "committed")
          /\ call' = [call EXCEPT ![p].ok = TRUE]
          /\ Goto(p, "leaving") /\ UNCHANGED <<project, lock, applies, damaged>>
      BY <2>17 DEF Finish
    <3>2. bundles' \in Seq(Bundles) /\ DOMAIN bundles' = DOMAIN bundles
      BY <2>b, <3>1, SetStateType DEF States, Working
    <3>3. /\ call' \in [Procs -> CallType] /\ call'[p].bundle = call[p].bundle
          /\ \A q \in Procs \ {p} : call'[q] = call[q]
      BY <1>t, <3>1 DEF CallType
    <3>. QED  BY <1>t, <2>b, <2>k, <3>1, <3>2, <3>3 DEF Places, Inside, Working, TakingOver
  <2>18. CASE Undo(p)
    <3>1. /\ pc[p] \in {"writing", "logging", "committing", "finishing"} /\ CutShort(p)
          /\ call' = [call EXCEPT ![p].job = "undo", ![p].todo = Files(Bundle(p).backup)]
          /\ Goto(p, "restoring") /\ UNCHANGED <<project, lock, applies, damaged>>
      BY <2>18 DEF Undo
    <3>2. [call[p] EXCEPT !.job = "undo", !.todo = Files(Bundle(p).backup)] \in CallType
      BY <2>a, <2>b, <3>1 DEF Working, CallType, Jobs
    <3>3. /\ call' \in [Procs -> CallType] /\ call'[p].bundle = call[p].bundle
          /\ \A q \in Procs \ {p} : call'[q] = call[q]
      BY <1>t, <2>a, <3>1, <3>2 DEF CallType
    <3>. QED  BY <1>t, <2>b, <2>k, <3>1, <3>3, CutShortType DEF Places, Inside, Working, TakingOver
  <2>19. CASE SkipFile(p)
    <3>1. PICK file \in call[p].todo :
            call' = [call EXCEPT ![p].todo = @ \ {file}, ![p].incomplete = TRUE]
      BY <2>19 DEF SkipFile
    <3>2. pc[p] = "restoring" /\ UNCHANGED <<project, bundles, lock, pc, applies, damaged>>
      BY <2>19 DEF SkipFile
    <3>3. /\ call' \in [Procs -> CallType] /\ call'[p].bundle = call[p].bundle
          /\ \A q \in Procs \ {p} : call'[q] = call[q]
      BY <1>t, <3>1 DEF CallType
    <3>4. Reaches(p)'
      BY <2>b, <3>2, <3>3 DEF Reaches, TakingOver
    <3>. QED  BY <1>t, <2>q, <3>2, <3>3, <3>4 DEF TypeOK
  <2>20. CASE Fault(p)
    <3>1. /\ pc[p] \in {"created", "recovering", "checking", "bundling", "saving", "preparing",
                        "settling", "restoring"} /\ CutShort(p)
          /\ call' = [call EXCEPT ![p].incomplete = @ \/ call[p].job = "undo"]
          /\ Goto(p, "leaving") /\ UNCHANGED <<project, lock, applies, damaged>>
      BY <2>20 DEF Fault
    <3>2. /\ call' \in [Procs -> CallType] /\ call'[p].bundle = call[p].bundle
          /\ call'[p].job = call[p].job
          /\ \A q \in Procs \ {p} : call'[q] = call[q]
      BY <1>t, <3>1 DEF CallType
    <3>. QED  BY <1>t, <2>k, <3>1, <3>2, CutShortType DEF Places, Inside, TakingOver
  <2>21. CASE Crash(p)
    <3>1. /\ CutShort(p) /\ GiveUp(p) /\ UNCHANGED <<project, applies, damaged>>
          /\ lock' \in {lock, Unknown, Dead}
      BY <2>21 DEF Crash
    <3>2. Reaches(p)'
      BY <2>e, <3>1 DEF Reaches, Working, TakingOver
    <3>3. bundles' \in Seq(Bundles) /\ DOMAIN bundles' = DOMAIN bundles
      BY <3>1, CutShortType
    <3>. QED  BY <1>t, <2>e, <2>q, <3>1, <3>2, <3>3 DEF TypeOK
  <2>. QED
    BY <1>n, <2>1, <2>2, <2>3, <2>4, <2>5, <2>6, <2>7, <2>8, <2>9, <2>10, <2>11, <2>12, <2>13,
       <2>14, <2>15, <2>16, <2>17, <2>18, <2>19, <2>20, <2>21
    DEF Proceed, Enter, Settling, Migrating, Failing
<1>. QED  BY <1>u, <1>n DEF Next

LEMMA TInvInit == Init => TInv
<1> SUFFICES ASSUME Init PROVE TInv
  OBVIOUS
<1>1. Original \in Store!Stores /\ NoCall \in CallType
  BY RecordsAre, MigrationAssumption
<1>2. TypeOK
  <2>1. pc \in [Procs -> Places] /\ call \in [Procs -> CallType]
    BY <1>1 DEF Init, Places
  <2>2. bundles \in Seq(Bundles)
    BY DEF Init
  <2>. QED  BY <1>1, <2>1, <2>2 DEF Init, TypeOK
<1>3. \A p \in Procs : Reaches(p)
  BY DEF Init, Reaches, NoCall, Working, TakingOver
<1>. QED  BY <1>2, <1>3 DEF TInv

(* Type correctness: whatever processes do, die of or fail at, every        *)
(* variable keeps its type, and no call works on a bundle that is not there *)
(* (migration_apply.py, apply and rollback_contract_migration).            *)
THEOREM MigrationTypeCorrect == Spec => []TypeOK
<1>1. TInv => TypeOK
  BY DEF TInv
<1>. QED  BY <1>1, TInvInit, TInvStep, PTL DEF Spec

-----------------------------------------------------------------------------
(* The lock.                                                               *)
LEMMA LockInvStep ==
  ASSUME Orderly, TypeOK, LockInv, [Next]_vars
  PROVE  LockInv'
<1>. USE DEF LockInv, TakingOver, Goto, GiveUp
<1>t. /\ pc \in [Procs -> Places] /\ Nobody \notin Procs /\ Dead \notin Procs
      /\ Unknown \notin Procs /\ Nobody # Dead /\ Unknown # Dead /\ Unknown # Nobody
  BY MigrationAssumption DEF TypeOK
<1>m. \A p \in Procs : MayRun(p) => \A q \in Procs \ {p} : pc[q] \notin TakingOver
  BY DEF MayRun, Orderly
<1>1. ASSUME NEW p \in Procs, Apply(p) \/ Rollback(p) PROVE LockInv'
  BY <1>t, <1>1 DEF Apply, Rollback, Inside, Working
<1>2. ASSUME NEW p \in Procs, MayRun(p), Acquire(p) PROVE LockInv'
  BY <1>t, <1>m, <1>2 DEF Acquire, Inside, Working
<1>3. ASSUME NEW p \in Procs, Busy(p) PROVE LockInv'
  BY <1>t, <1>3 DEF Busy, Inside, Working
<1>4. ASSUME NEW p \in Procs, MayRun(p), FindDead(p) PROVE LockInv'
  BY <1>t, <1>m, <1>4 DEF FindDead, Inside, Working
<1>5. ASSUME NEW p \in Procs, MayRun(p), Unlink(p) PROVE LockInv'
  BY <1>t, <1>m, <1>5 DEF Unlink, Inside, Working
<1>6. ASSUME NEW p \in Procs, MayRun(p), Recreate(p) PROVE LockInv'
  BY <1>t, <1>m, <1>6 DEF Recreate, Inside, Working
<1>7. ASSUME NEW p \in Procs, Leave(p) PROVE LockInv'
  BY <1>t, <1>7 DEF Leave, Inside, Working
<1>8. ASSUME NEW p \in Procs, Crash(p) PROVE LockInv'
  <2>1. /\ pc' = [pc EXCEPT ![p] = "idle"]
        /\ lock' = IF lock # p THEN lock ELSE IF pc[p] = "created" THEN Unknown ELSE Dead
    BY <1>8 DEF Crash
  <2>. QED  BY <1>t, <2>1 DEF Inside, Working
<1>9. ASSUME NEW p \in Procs, NEW place \in Inside, pc[p] \in Inside, UNCHANGED lock,
             pc' = pc \/ Goto(p, place)
      PROVE  LockInv'
  BY <1>t, <1>9 DEF Inside, Working
<1>10. ASSUME NEW p \in Procs, WriteOwner(p) \/ Settling(p) PROVE LockInv'
  <2>1. pc[p] \in Inside /\ UNCHANGED lock /\ (pc' = pc \/ \E place \in Inside : Goto(p, place))
    BY <1>10 DEF WriteOwner, Settling, Blocked, FinishForDead, RestoreForDead, Revalidate,
                 CheckBundle, Restore, LogRestored, Settle, Inside, Working
  <2>. QED  BY <1>9, <2>1
<1>11. ASSUME NEW p \in Procs, Migrating(p) \/ Failing(p) PROVE LockInv'
  <2>1. pc[p] \in Inside /\ UNCHANGED lock /\ (pc' = pc \/ \E place \in Inside : Goto(p, place))
    BY <1>11 DEF Migrating, MakeBundle, SaveOriginals, LogPrepared, WriteSchema, LogSchema,
                 WriteManifest, LogCommitted, Finish, Failing, Undo, SkipFile, Fault, Inside,
                 Working
  <2>. QED  BY <1>9, <2>1
<1>12. CASE UNCHANGED vars
  BY <1>12 DEF vars
<1>. QED
  BY <1>1, <1>2, <1>3, <1>4, <1>5, <1>6, <1>7, <1>8, <1>10, <1>11, <1>12
  DEF Next, Proceed, Enter

LEMMA LockInvariant == ASSUME Orderly PROVE Spec => []LockInv
<1>1. Init => LockInv
  BY DEF Init, LockInv, TakingOver, Inside, Working
<1>2. TypeOK /\ LockInv /\ [Next]_vars => LockInv'
  BY LockInvStep
<1>. QED  BY <1>1, <1>2, MigrationTypeCorrect, PTL DEF Spec

(* "another migration apply or rollback holds the project lock"             *)
(* (migration_apply.py, line 132): whoever dies wherever, at most one        *)
(* process works on the project, as long as takeovers do not race.         *)
THEOREM OneMigrationAtATime == ASSUME Orderly PROVE Spec => []OneMigration
<1>1. LockInv => OneMigration
  BY DEF LockInv, OneMigration
<1>. QED  BY <1>1, LockInvariant, PTL

-----------------------------------------------------------------------------
(* What a step leaves of the bundles: none disappears, none loses its       *)
(* manifest.json.                                                          *)
Grown ==
  \A i \in DOMAIN bundles :
     i \in DOMAIN bundles' /\ (bundles[i].state # "none" => bundles'[i].state # "none")

LEMMA OthersStand ==
  ASSUME IInv, NEW p \in Procs, NEW q \in Procs \ {p}, pc'[q] = pc[q], call'[q] = call[q],
         Grown, pc[p] \in Inside \/ UNCHANGED <<project, bundles>>
  PROVE  Inv(q)'
<1>1. CASE UNCHANGED <<project, bundles>>
  <2>1. CallInv(q)' /\ AnswerInv(q)'
    BY <1>1 DEF IInv, Inv, CallInv, AnswerInv, Chosen, Bundle, AllSettled, Open, BackAgain, Files
  <2>2. Bundle(q)' = Bundle(q) /\ (Begun(q) => Begun(q)')
    BY <1>1 DEF Bundle, Begun, Last, OnlyLastOpen, SettledBefore, Settled, Open
  <2>3. WorkInv(q) /\ RestoreInv(q)
    BY DEF IInv, Inv
  <2>4. WorkInv(q)'
    BY <1>1, <2>2, <2>3 DEF WorkInv, Kept, Logged, AllSettled
  <2>5. RestoreInv(q)'
    BY <1>1, <2>2, <2>3 DEF RestoreInv, BackAgain, Files, Open
  <2>. QED  BY <2>1, <2>4, <2>5 DEF Inv
<1>2. CASE pc[p] \in Inside
  <2>1. pc[q] \notin Inside
    BY <1>2 DEF IInv, LockInv
  <2>2. CallInv(q)'
    BY DEF IInv, Inv, CallInv, Chosen, Bundle, Grown
  <2>3. WorkInv(q)' /\ RestoreInv(q)'
    BY <2>1 DEF WorkInv, RestoreInv, Inside, Working
  <2>4. AnswerInv(q)'
    BY <2>1 DEF AnswerInv, IInv, Inv, CallInv, Inside
  <2>. QED  BY <2>2, <2>3, <2>4 DEF Inv
<1>. QED  BY <1>1, <1>2

LEMMA WalPut ==
  ASSUME TypeOK, NEW i \in DOMAIN bundles, NEW wal,
         bundles' = [bundles EXCEPT ![i].wal = wal]
  PROVE  /\ DOMAIN bundles' = DOMAIN bundles /\ Len(bundles') = Len(bundles)
         /\ bundles'[i].wal = wal
         /\ \A j \in DOMAIN bundles : /\ bundles'[j].state = bundles[j].state
                                      /\ bundles'[j].backup = bundles[j].backup
         /\ \A j \in DOMAIN bundles \ {i} : bundles'[j] = bundles[j]
         /\ Grown /\ (OnlyLastOpen => OnlyLastOpen')
<1>1. \A j \in DOMAIN bundles : bundles[j] \in Bundles
  BY DEF TypeOK
<1>2. /\ DOMAIN bundles' = DOMAIN bundles /\ Len(bundles') = Len(bundles)
      /\ bundles'[i] = [bundles[i] EXCEPT !.wal = wal]
      /\ \A j \in DOMAIN bundles \ {i} : bundles'[j] = bundles[j]
  BY DEF TypeOK
<1>3. /\ bundles'[i].wal = wal
      /\ \A j \in DOMAIN bundles : /\ bundles'[j].state = bundles[j].state
                                   /\ bundles'[j].backup = bundles[j].backup
  BY <1>1, <1>2 DEF Bundles
<1>. QED  BY <1>2, <1>3 DEF Grown, OnlyLastOpen, SettledBefore, Settled, Last

LEMMA StatePut ==
  ASSUME TypeOK, NEW i \in DOMAIN bundles, NEW state \in {"committed", "rolled-back"},
         SetState(i, state)
  PROVE  /\ DOMAIN bundles' = DOMAIN bundles /\ Len(bundles') = Len(bundles)
         /\ bundles'[i].state = state
         /\ \A j \in DOMAIN bundles : /\ bundles'[j].wal = bundles[j].wal
                                      /\ bundles'[j].backup = bundles[j].backup
         /\ \A j \in DOMAIN bundles \ {i} : bundles'[j] = bundles[j]
         /\ Grown /\ (OnlyLastOpen => OnlyLastOpen')
<1>1. \A j \in DOMAIN bundles : bundles[j] \in Bundles
  BY DEF TypeOK
<1>2. /\ DOMAIN bundles' = DOMAIN bundles /\ Len(bundles') = Len(bundles)
      /\ bundles'[i] = [bundles[i] EXCEPT !.state = state]
      /\ \A j \in DOMAIN bundles \ {i} : bundles'[j] = bundles[j]
  BY DEF TypeOK, SetState
<1>3. /\ bundles'[i].state = state
      /\ \A j \in DOMAIN bundles : /\ bundles'[j].wal = bundles[j].wal
                                   /\ bundles'[j].backup = bundles[j].backup
  BY <1>1, <1>2 DEF Bundles
<1>. QED  BY <1>2, <1>3 DEF Grown, OnlyLastOpen, SettledBefore, Settled, Last

(* Contents that are restored right after they were saved are the same.     *)
LEMMA RestoredSaved ==
  ASSUME NEW s \in Store!Stores, NEW plan \in Store!PlanType
  PROVE  Store!Restored(s, Store!BackupOf(s, plan)) = s
<1>1. Store!Overlay(s.schemas, Store!BackupOf(s, plan).schemas, plan.changed) = s.schemas
  BY DEF Store!Overlay, Store!BackupOf, Store!Stores, Store!PlanType
<1>2. Store!Restored(s, Store!BackupOf(s, plan)) = [pins |-> s.pins, schemas |-> s.schemas]
  BY <1>1 DEF Store!Restored, Store!BackupOf
<1>. QED  BY <1>2 DEF Store!Stores

(* What a backup brings back does not matter to the outcome.                *)
LEMMA RestoredAnyway ==
  ASSUME NEW s \in Store!Stores, NEW t \in Store!Stores, NEW b \in Store!Backups,
         \A c \in Contracts \ b.changed : t.schemas[c] = s.schemas[c]
  PROVE  Store!Restored(t, b) = Store!Restored(s, b)
<1>1. Store!Overlay(t.schemas, b.schemas, b.changed) = Store!Overlay(s.schemas, b.schemas, b.changed)
  BY DEF Store!Overlay, Store!Backups, Store!Stores
<1>. QED  BY <1>1 DEF Store!Restored

-----------------------------------------------------------------------------
(* The call that takes a step, action by action.                            *)
LEMMA EnterStep ==
  ASSUME IInv, NEW p \in Procs, Enter(p) \/ Leave(p)
  PROVE  Grown /\ OnlyLastOpen' /\ Inv(p)'
<1>t. /\ pc \in [Procs -> Places] /\ call \in [Procs -> CallType] /\ call[p] \in CallType
      /\ bundles \in Seq(Bundles) /\ CallInv(p)
  BY DEF IInv, Inv, TypeOK
<1>b. UNCHANGED <<project, bundles>>
  BY DEF Enter, Apply, Rollback, Acquire, Busy, FindDead, Unlink, Recreate, WriteOwner, Leave
<1>g. Grown /\ OnlyLastOpen'
  BY <1>b DEF Grown, IInv, OnlyLastOpen, SettledBefore, Last
<1>. SUFFICES Inv(p)'
  BY <1>g
<1>q. ASSUME pc'[p] \notin Working \cup {"restoring", "settling"}, ~call'[p].ok, CallInv(p)'
      PROVE  Inv(p)'
  BY <1>q DEF Inv, WorkInv, RestoreInv, AnswerInv, Working
<1>e. ASSUME GiveUp(p) PROVE Inv(p)'
  <2>1. pc'[p] = "idle" /\ call'[p] = NoCall
    BY <1>t, <1>e DEF GiveUp, Goto
  <2>2. CallInv(p)'
    BY <2>1 DEF CallInv, NoCall, Working, TakingOver
  <2>. QED  BY <1>q, <2>1, <2>2 DEF NoCall, Working
<1>1. CASE Apply(p)
  <2>1. PICK plan \in Plans : call' = [call EXCEPT ![p] = [NoCall EXCEPT !.job = "apply",
                                                                         !.plan = plan]]
    BY <1>1 DEF Apply
  <2>2. /\ call'[p].job = "apply" /\ call'[p].plan = plan /\ call'[p].ok = FALSE
        /\ call'[p].incomplete = FALSE
    BY <1>t, <2>1 DEF NoCall
  <2>3. pc'[p] = "locking"
    BY <1>t, <1>1 DEF Apply, Goto
  <2>4. CallInv(p)'
    BY <2>2, <2>3 DEF CallInv, Working, TakingOver
  <2>. QED  BY <1>q, <2>2, <2>3, <2>4 DEF Working
<1>2. CASE Rollback(p)
  <2>1. PICK i \in DOMAIN bundles :
          /\ bundles[i].state # "none"
          /\ call' = [call EXCEPT ![p] = [NoCall EXCEPT !.job = "rollback", !.bundle = i,
                                                        !.seen = bundles[i].state]]
    BY <1>2 DEF Rollback
  <2>2. /\ call'[p].job = "rollback" /\ call'[p].bundle = i /\ call'[p].ok = FALSE
        /\ call'[p].incomplete = FALSE /\ call'[p].seen # "none"
    BY <1>t, <2>1 DEF NoCall
  <2>3. pc'[p] = "locking"
    BY <1>t, <1>2 DEF Rollback, Goto
  <2>4. CallInv(p)'
    BY <1>b, <2>1, <2>2, <2>3 DEF CallInv, Working, TakingOver, Chosen, Bundle
  <2>. QED  BY <1>q, <2>2, <2>3, <2>4 DEF Working
<1>3. CASE GiveUp(p)
  BY <1>e, <1>3
<1>4. CASE ~GiveUp(p) /\ ~Apply(p) /\ ~Rollback(p)
  <2>1. PICK place \in {"created", "takeover", "recreating", "recovering", "checking"} :
          /\ pc' = [pc EXCEPT ![p] = place] /\ call' = call
          /\ pc[p] \in {"locking", "created"} \cup TakingOver
          /\ place = "recovering" => call[p].job = "apply"
          /\ place = "checking" => call[p].job # "apply"
    BY <1>4 DEF Enter, Acquire, Busy, FindDead, Unlink, Recreate, WriteOwner, Leave, Goto,
                TakingOver
  <2>2. pc'[p] = place
    BY <1>t, <2>1
  <2>3. CallInv(p)' /\ ~call'[p].ok
    BY <1>t, <1>b, <2>1, <2>2 DEF CallInv, Chosen, Bundle, Working, TakingOver
  <2>. QED  BY <1>q, <2>2, <2>3 DEF Working
<1>. QED  BY <1>1, <1>2, <1>3, <1>4

(* Looking for what is to be settled.                                       *)
LEMMA RecoverStep ==
  ASSUME IInv, NEW p \in Procs,
         Blocked(p) \/ FinishForDead(p) \/ RestoreForDead(p) \/ Revalidate(p) \/ MakeBundle(p)
  PROVE  Grown /\ OnlyLastOpen' /\ Inv(p)'
<1>t. /\ pc \in [Procs -> Places] /\ call \in [Procs -> CallType] /\ call[p] \in CallType
      /\ bundles \in Seq(Bundles) /\ Inv(p) /\ CallInv(p) /\ TypeOK /\ OnlyLastOpen
  BY DEF IInv, Inv, TypeOK
<1>p. pc[p] \in {"recovering", "bundling"}
  BY DEF Blocked, FinishForDead, RestoreForDead, Revalidate, MakeBundle
<1>c. /\ call[p].job = "apply" /\ call[p].plan \in Plans
      /\ ~call[p].ok /\ ~call[p].incomplete
  BY <1>t, <1>p DEF CallInv, Working
<1>1. CASE Blocked(p) \/ Revalidate(p)
  <2>1. UNCHANGED <<project, bundles, call>>
    BY <1>1 DEF Blocked, Revalidate
  <2>2. \/ pc'[p] = "leaving"
        \/ pc'[p] = "bundling" /\ AllSettled /\ Store!Fits(project, call[p].plan)
    BY <1>t, <1>1 DEF Blocked, Revalidate, Goto
  <2>3. Grown /\ OnlyLastOpen'
    BY <1>t, <2>1 DEF Grown, OnlyLastOpen, SettledBefore, Last
  <2>4. CallInv(p)' /\ RestoreInv(p)' /\ AnswerInv(p)'
    BY <1>c, <2>1, <2>2 DEF CallInv, RestoreInv, AnswerInv, Working, TakingOver
  <2>5. WorkInv(p)'
    BY <2>1, <2>2 DEF WorkInv, AllSettled
  <2>. QED  BY <2>3, <2>4, <2>5 DEF Inv
<1>2. CASE FinishForDead(p)
  <2>1. PICK i \in DOMAIN bundles : SetState(i, "committed")
    BY <1>2 DEF FinishForDead
  <2>2. Grown /\ OnlyLastOpen'
    BY <1>t, <2>1, StatePut
  <2>3. pc'[p] = "recovering" /\ call' = call
    BY <1>2 DEF FinishForDead
  <2>. QED  BY <1>c, <2>2, <2>3
            DEF Inv, CallInv, WorkInv, RestoreInv, AnswerInv, Working, TakingOver
<1>3. CASE RestoreForDead(p)
  <2>1. PICK i \in DOMAIN bundles :
          /\ NextToSettle(i) /\ Open(bundles[i])
          /\ call' = [call EXCEPT ![p].job = "recovery", ![p].bundle = i,
                                  ![p].todo = Files(bundles[i].backup)]
    BY <1>3 DEF RestoreForDead
  <2>2. /\ call'[p].job = "recovery" /\ call'[p].bundle = i
        /\ call'[p].todo = Files(bundles[i].backup)
        /\ call'[p].plan = call[p].plan /\ call'[p].ok = call[p].ok
        /\ call'[p].incomplete = call[p].incomplete
    BY <1>t, <2>1 DEF CallType
  <2>3. pc'[p] = "restoring" /\ UNCHANGED <<project, bundles>>
    BY <1>t, <1>3 DEF RestoreForDead, Goto
  <2>4. Grown /\ OnlyLastOpen'
    BY <1>t, <2>3 DEF Grown, OnlyLastOpen, SettledBefore, Last
  <2>5. /\ i = Last /\ Last # 0 /\ bundles[i].state = "prepared"
    BY <1>t, <2>1 DEF NextToSettle, Open, OnlyLastOpen, SettledBefore, Last
  <2>6. Chosen(p)' /\ Begun(p)' /\ Open(Bundle(p))' /\ (Bundle(p).state = "prepared")'
    BY <1>t, <2>1, <2>2, <2>3, <2>5 DEF Chosen, Bundle, Begun, OnlyLastOpen, SettledBefore, Last, Open
  <2>7. CallInv(p)' /\ WorkInv(p)' /\ AnswerInv(p)'
    BY <1>c, <2>2, <2>3, <2>6 DEF CallInv, WorkInv, AnswerInv, Working, TakingOver
  <2>8. RestoreInv(p)'
    BY <2>2, <2>3, <2>6 DEF RestoreInv, BackAgain, Files, Bundle
  <2>. QED  BY <2>4, <2>7, <2>8 DEF Inv
<1>4. CASE MakeBundle(p)
  <2>1. /\ pc[p] = "bundling" /\ bundles' = Append(bundles, NewBundleRecord)
        /\ call' = [call EXCEPT ![p].bundle = Len(bundles) + 1] /\ project' = project
    BY <1>4 DEF MakeBundle
  <2>2. /\ DOMAIN bundles \subseteq DOMAIN bundles' /\ \A j \in DOMAIN bundles : bundles'[j] = bundles[j]
        /\ Len(bundles') = Len(bundles) + 1 /\ bundles'[Len(bundles) + 1] = NewBundleRecord
        /\ \A j \in DOMAIN bundles' : j < Len(bundles) + 1 => j \in DOMAIN bundles
    BY <1>t, <2>1, RecordsAre
  <2>3. AllSettled /\ Store!Fits(project, call[p].plan)
    BY <1>t, <2>1 DEF Inv, WorkInv
  <2>4. Grown /\ OnlyLastOpen'
    BY <2>2, <2>3 DEF Grown, OnlyLastOpen, SettledBefore, Last, AllSettled, Settled
  <2>5. /\ call'[p].bundle = Len(bundles) + 1 /\ call'[p].plan = call[p].plan
        /\ call'[p].job = call[p].job /\ call'[p].ok = call[p].ok
        /\ call'[p].incomplete = call[p].incomplete
    BY <1>t, <2>1 DEF CallType
  <2>6. pc'[p] = "saving"
    BY <1>t, <1>4 DEF MakeBundle, Goto
  <2>7. CallInv(p)' /\ RestoreInv(p)' /\ AnswerInv(p)'
    BY <1>c, <2>5, <2>6 DEF CallInv, RestoreInv, AnswerInv, Working, TakingOver
  <2>8. Begun(p)' /\ (Bundle(p) = NewBundleRecord)'
    BY <1>t, <2>2, <2>4, <2>5 DEF Begun, Last, Bundle, NewBundleRecord, NoBackup
  <2>9. (Bundle(p).state = "none")' /\ Logged(p, "none")'
    BY <2>8 DEF NewBundleRecord, Logged
  <2>10. WorkInv(p)'
    BY <2>1, <2>3, <2>5, <2>6, <2>8, <2>9 DEF WorkInv
  <2>. QED  BY <2>4, <2>7, <2>10 DEF Inv
<1>. QED  BY <1>1, <1>2, <1>3, <1>4

(* A migration at work.                                                    *)
LEMMA AtWork ==
  ASSUME IInv, NEW p \in Procs, pc[p] \in Working \ {"bundling"}
  PROVE  /\ pc \in [Procs -> Places] /\ call \in [Procs -> CallType] /\ call[p] \in CallType
         /\ bundles \in Seq(Bundles) /\ Inv(p) /\ TypeOK /\ OnlyLastOpen /\ project \in Store!Stores
         /\ call[p].job = "apply" /\ call[p].plan \in Plans /\ call[p].plan \in Store!PlanType
         /\ ~call[p].ok /\ ~call[p].incomplete
         /\ Begun(p) /\ call[p].bundle = Last /\ call[p].bundle \in DOMAIN bundles
         /\ Bundle(p) \in Bundles /\ Bundle(p).backup \in Store!Backups
<1>1. /\ pc \in [Procs -> Places] /\ call \in [Procs -> CallType] /\ call[p] \in CallType
      /\ bundles \in Seq(Bundles) /\ Inv(p) /\ TypeOK /\ OnlyLastOpen /\ project \in Store!Stores
  BY DEF IInv, TypeOK
<1>2. /\ call[p].job = "apply" /\ call[p].plan \in Plans /\ ~call[p].ok /\ ~call[p].incomplete
  BY <1>1 DEF Inv, CallInv, Working
<1>3. Begun(p)
  BY <1>1 DEF Inv, WorkInv, Working
<1>4. call[p].bundle = Last /\ call[p].bundle \in DOMAIN bundles
  BY <1>1, <1>3 DEF Begun, Last
<1>5. Bundle(p) \in Bundles
  BY <1>1, <1>4 DEF Bundle
<1>6. call[p].plan \in Store!PlanType
  BY <1>2, RecordsAre
<1>. QED  BY <1>1, <1>2, <1>3, <1>4, <1>5, <1>6 DEF Bundles

(* From one place of the work to the next, only the progress is to be shown. *)
LEMMA AtWorkStill ==
  ASSUME IInv, NEW p \in Procs, pc[p] \in Working \ {"bundling"},
         NEW place \in Working, Goto(p, place),
         call' = [call EXCEPT ![p].todo = call'[p].todo], WorkInv(p)'
  PROVE  Inv(p)' /\ pc'[p] = place /\ call'[p] = [call[p] EXCEPT !.todo = call'[p].todo]
<1>1. pc'[p] = place
  BY AtWork DEF Goto
<1>2. call'[p] = [call[p] EXCEPT !.todo = call'[p].todo]
  BY AtWork
<1>3. /\ call'[p].job = "apply" /\ call'[p].plan \in Plans
      /\ ~call'[p].ok /\ ~call'[p].incomplete
  BY <1>2, AtWork DEF CallType
<1>. QED  BY <1>1, <1>2, <1>3
          DEF Inv, CallInv, RestoreInv, AnswerInv, Working, TakingOver

LEMMA LogPut ==
  ASSUME TypeOK, NEW p \in Procs, call[p].bundle \in DOMAIN bundles, Log(p)
  PROVE  /\ DOMAIN bundles' = DOMAIN bundles /\ Len(bundles') = Len(bundles)
         /\ bundles'[call[p].bundle].wal = Appended(Bundle(p).wal, NextPhase(p))
         /\ \A j \in DOMAIN bundles : /\ bundles'[j].state = bundles[j].state
                                      /\ bundles'[j].backup = bundles[j].backup
         /\ \A j \in DOMAIN bundles \ {call[p].bundle} : bundles'[j] = bundles[j]
         /\ Grown /\ (OnlyLastOpen => OnlyLastOpen')
<1>1. bundles' = [bundles EXCEPT ![call[p].bundle].wal = Appended(Bundle(p).wal, NextPhase(p))]
  BY DEF Log, Bundle
<1>. QED  BY <1>1, WalPut

LEMMA WorkStep ==
  ASSUME IInv, NEW p \in Procs,
         SaveOriginals(p) \/ LogPrepared(p) \/ WriteSchema(p) \/ LogSchema(p)
           \/ WriteManifest(p) \/ LogCommitted(p)
  PROVE  Grown /\ OnlyLastOpen' /\ Inv(p)'
<1>p. pc[p] \in Working \ {"bundling"}
  BY DEF SaveOriginals, LogPrepared, WriteSchema, LogSchema, WriteManifest, LogCommitted, Working
<1>t. /\ pc \in [Procs -> Places] /\ call \in [Procs -> CallType] /\ call[p] \in CallType
      /\ bundles \in Seq(Bundles) /\ WorkInv(p) /\ TypeOK /\ OnlyLastOpen
      /\ project \in Store!Stores
  BY <1>p, AtWork DEF Inv
<1>c. call[p].plan \in Store!PlanType
  BY <1>p, AtWork
<1>b. /\ Begun(p) /\ call[p].bundle = Last /\ call[p].bundle \in DOMAIN bundles
      /\ Bundle(p) \in Bundles /\ Bundle(p).backup \in Store!Backups
  BY <1>p, AtWork
<1> DEFINE plan == call[p].plan
           b == Bundle(p).backup
<1>l. ASSUME Log(p), NEW phase, NEW next, Logged(p, phase), NextPhase(p) = next, call'[p].bundle = call[p].bundle
      PROVE  Grown /\ OnlyLastOpen' /\ Begun(p)' /\ Logged(p, next)'
             /\ (Bundle(p).state)' = Bundle(p).state /\ (Bundle(p).backup)' = b
  <2>1. Appended(Bundle(p).wal, NextPhase(p)) = [phase |-> next, tail |-> "whole"]
    BY <1>l DEF Logged, Appended
  <2>2. /\ Len(bundles') = Len(bundles)
        /\ bundles'[call[p].bundle].wal = [phase |-> next, tail |-> "whole"]
        /\ bundles'[call[p].bundle].state = Bundle(p).state
        /\ bundles'[call[p].bundle].backup = b
        /\ Grown /\ OnlyLastOpen'
    BY <1>t, <1>b, <1>l, <2>1, LogPut DEF Bundle
  <2>. QED  BY <1>b, <1>l, <2>2 DEF Begun, Logged, Bundle, Last
<1>1. CASE SaveOriginals(p)
  <2>1. /\ pc[p] = "saving" /\ Goto(p, "preparing") /\ UNCHANGED <<project, call>>
        /\ bundles' = [bundles EXCEPT ![call[p].bundle] =
              [Bundle(p) EXCEPT !.state = "prepared", !.backup = Store!BackupOf(project, plan)]]
    BY <1>1 DEF SaveOriginals, Bundle
  <2>2. Logged(p, "none") /\ Store!Fits(project, plan) /\ Bundle(p).state = "none"
    BY <1>t, <2>1 DEF WorkInv
  <2> DEFINE new == [Bundle(p) EXCEPT !.state = "prepared", !.backup = Store!BackupOf(project, plan)]
  <2>n. /\ new.state = "prepared" /\ new.backup = Store!BackupOf(project, plan)
        /\ new.wal = [phase |-> "none", tail |-> "whole"]
    BY <1>b, <2>2 DEF Logged, Bundles
  <2>m. /\ bundles'[call[p].bundle] = new
        /\ DOMAIN bundles' = DOMAIN bundles /\ Len(bundles') = Len(bundles)
        /\ \A j \in DOMAIN bundles : j # call[p].bundle => bundles'[j] = bundles[j]
    BY <1>t, <1>b, <2>1
  <2>3. /\ bundles'[call[p].bundle].state = "prepared"
        /\ bundles'[call[p].bundle].backup = Store!BackupOf(project, plan)
        /\ bundles'[call[p].bundle].wal = [phase |-> "none", tail |-> "whole"]
        /\ DOMAIN bundles' = DOMAIN bundles /\ Len(bundles') = Len(bundles)
        /\ \A j \in DOMAIN bundles : j # call[p].bundle => bundles'[j] = bundles[j]
    BY <2>n, <2>m
  <2>4. Grown /\ OnlyLastOpen'
    BY <1>t, <1>b, <2>3 DEF Grown, OnlyLastOpen, SettledBefore, Last
  <2>5. Begun(p)' /\ Logged(p, "none")'
    BY <1>b, <2>1, <2>3, <2>4 DEF Begun, Logged, Last, Bundle
  <2>6. /\ (Bundle(p).state)' = "prepared" /\ (Bundle(p).backup)' = Store!BackupOf(project, plan)
        /\ call'[p].plan = plan
    BY <2>1, <2>3 DEF Bundle
  <2>7. Store!Restored(project, Store!BackupOf(project, plan)) = project
    BY <1>t, <1>c, RestoredSaved
  <2>8. Kept(p, {})'
    BY <2>1, <2>2, <2>6, <2>7 DEF Kept, Store!BackupOf, Store!Fits
  <2>9. (project.pins = Bundle(p).backup.pins)'
    BY <2>1, <2>6 DEF Store!BackupOf
  <2>10. pc'[p] = "preparing"
    BY <1>t, <2>1 DEF Goto
  <2>11. WorkInv(p)'
    BY <2>5, <2>8, <2>9, <2>10 DEF WorkInv
  <2>. QED  BY <1>p, <1>t, <2>1, <2>4, <2>11, AtWorkStill DEF CallType, Working
<1>2. CASE LogPrepared(p)
  <2>1. /\ pc[p] = "preparing" /\ Log(p) /\ Goto(p, "writing") /\ project' = project
        /\ call' = [call EXCEPT ![p].todo = plan.changed]
    BY <1>2 DEF LogPrepared
  <2>2. Kept(p, {}) /\ Logged(p, "none") /\ project.pins = b.pins
    BY <1>t, <2>1 DEF WorkInv
  <2>3. NextPhase(p) = "open"
    BY <2>1, <2>2 DEF NextPhase, Logged
  <2>4. /\ call'[p].todo = plan.changed /\ call'[p].plan = plan
        /\ call'[p].bundle = call[p].bundle
    BY <1>t, <2>1 DEF CallType
  <2>5. /\ Grown /\ OnlyLastOpen' /\ Begun(p)' /\ Logged(p, "open")'
        /\ (Bundle(p).state)' = Bundle(p).state /\ (Bundle(p).backup)' = b
    BY <1>l, <2>1, <2>2, <2>3, <2>4
  <2>6. Kept(p, call[p].plan.changed \ call[p].todo)' /\ (project.pins = Bundle(p).backup.pins)'
    BY <2>1, <2>2, <2>4, <2>5 DEF Kept
  <2>7. pc'[p] = "writing"
    BY <1>t, <2>1 DEF Goto
  <2>8. WorkInv(p)'
    BY <2>4, <2>5, <2>6, <2>7 DEF WorkInv
  <2>. QED  BY <1>p, <1>t, <2>1, <2>4, <2>5, <2>8, AtWorkStill DEF Working
<1>3. CASE WriteSchema(p)
  <2>1. PICK c \in call[p].todo :
          /\ project' = [project EXCEPT !.schemas[c] = plan.to[c]]
          /\ call' = [call EXCEPT ![p].todo = @ \ {c}]
    BY <1>3 DEF WriteSchema
  <2>2. pc[p] = "writing" /\ Goto(p, "logging") /\ bundles' = bundles
    BY <1>3 DEF WriteSchema
  <2>3. /\ Kept(p, plan.changed \ call[p].todo) /\ Logged(p, "open")
        /\ call[p].todo \subseteq plan.changed /\ project.pins = b.pins
    BY <1>t, <2>2 DEF WorkInv
  <2>4. /\ call'[p].todo = call[p].todo \ {c} /\ call'[p].plan = plan
        /\ call'[p].bundle = call[p].bundle
    BY <1>t, <2>1 DEF CallType
  <2>5. Grown /\ OnlyLastOpen' /\ Begun(p)' /\ Logged(p, "open")' /\ Bundle(p)' = Bundle(p)
    BY <1>t, <1>b, <2>2, <2>3, <2>4
    DEF Grown, OnlyLastOpen, SettledBefore, Last, Begun, Logged, Bundle
  <2>6. /\ project'.pins = project.pins /\ project' \in Store!Stores
        /\ project'.schemas[c] = plan.to[c]
        /\ \A d \in Contracts \ {c} : project'.schemas[d] = project.schemas[d]
    BY <1>t, <1>c, <2>1, <2>3 DEF Store!Stores, Store!PlanType
  <2>7. b.changed = plan.changed /\ Store!Restored(project', b) = Store!Restored(project, b)
    BY <1>t, <1>b, <2>1, <2>3, <2>6, RestoredAnyway DEF Kept
  <2>8. \A d \in plan.changed \ call'[p].todo : project'.schemas[d] = plan.to[d]
    BY <1>c, <2>3, <2>4, <2>6 DEF Kept, Store!PlanType
  <2>9. Kept(p, call[p].plan.changed \ call[p].todo)' /\ (project.pins = Bundle(p).backup.pins)'
    BY <2>3, <2>4, <2>5, <2>6, <2>7, <2>8 DEF Kept
  <2>10. pc'[p] = "logging"
    BY <1>t, <2>2 DEF Goto
  <2>11. WorkInv(p)'
    BY <2>3, <2>4, <2>5, <2>9, <2>10 DEF WorkInv
  <2>. QED  BY <1>p, <1>t, <2>1, <2>2, <2>4, <2>5, <2>11, AtWorkStill DEF Working
<1>4. CASE LogSchema(p)
  <2>1. pc[p] = "logging" /\ Log(p) /\ Goto(p, "writing") /\ UNCHANGED <<project, call>>
    BY <1>4 DEF LogSchema
  <2>2. /\ Kept(p, plan.changed \ call[p].todo) /\ Logged(p, "open")
        /\ call[p].todo \subseteq plan.changed /\ project.pins = b.pins
    BY <1>t, <2>1 DEF WorkInv
  <2>3. NextPhase(p) = "open"
    BY <2>1, <2>2 DEF NextPhase, Logged
  <2>4. /\ Grown /\ OnlyLastOpen' /\ Begun(p)' /\ Logged(p, "open")'
        /\ (Bundle(p).state)' = Bundle(p).state /\ (Bundle(p).backup)' = b
    BY <1>l, <2>1, <2>2, <2>3
  <2>5. Kept(p, call[p].plan.changed \ call[p].todo)' /\ (project.pins = Bundle(p).backup.pins)'
    BY <2>1, <2>2, <2>4 DEF Kept
  <2>6. pc'[p] = "writing"
    BY <1>t, <2>1 DEF Goto
  <2>7. WorkInv(p)'
    BY <2>1, <2>2, <2>4, <2>5, <2>6 DEF WorkInv
  <2>. QED  BY <1>p, <1>t, <2>1, <2>4, <2>7, AtWorkStill DEF CallType, Working
<1>5. CASE WriteManifest(p)
  <2>1. /\ pc[p] = "writing" /\ call[p].todo = {} /\ Goto(p, "committing")
        /\ project' = [project EXCEPT !.pins = Store!Overlay(b.pins, plan.to, plan.changed)]
        /\ UNCHANGED <<bundles, call>>
    BY <1>5 DEF WriteManifest
  <2>2. Kept(p, plan.changed) /\ Logged(p, "open")
    BY <1>t, <2>1 DEF WorkInv
  <2>3. /\ project'.pins = Store!Overlay(b.pins, plan.to, plan.changed)
        /\ project'.schemas = project.schemas
    BY <1>t, <2>1 DEF Store!Stores
  <2>4. Store!Restored(project', b) = Store!Restored(project, b)
    BY <2>3 DEF Store!Restored
  <2>5. /\ Grown /\ OnlyLastOpen' /\ Begun(p)' /\ Logged(p, "open")' /\ Bundle(p)' = Bundle(p)
    BY <1>t, <1>b, <2>1, <2>2
    DEF Grown, OnlyLastOpen, SettledBefore, Last, Begun, Logged, Bundle
  <2>6. Kept(p, call[p].plan.changed)'
    BY <2>1, <2>2, <2>3, <2>4, <2>5 DEF Kept
  <2>7. pc'[p] = "committing"
    BY <1>t, <2>1 DEF Goto
  <2>8. WorkInv(p)'
    BY <2>1, <2>3, <2>5, <2>6, <2>7 DEF WorkInv
  <2>. QED  BY <1>p, <1>t, <2>1, <2>5, <2>8, AtWorkStill DEF CallType, Working
<1>6. CASE LogCommitted(p)
  <2>1. pc[p] = "committing" /\ Log(p) /\ Goto(p, "finishing") /\ UNCHANGED <<project, call>>
    BY <1>6 DEF LogCommitted
  <2>2. /\ Kept(p, plan.changed) /\ Logged(p, "open")
        /\ project.pins = Store!Overlay(b.pins, plan.to, plan.changed)
    BY <1>t, <2>1 DEF WorkInv
  <2>3. NextPhase(p) = "committed"
    BY <2>1, <2>2 DEF NextPhase, Logged
  <2>4. /\ Grown /\ OnlyLastOpen' /\ Begun(p)' /\ Logged(p, "committed")'
        /\ (Bundle(p).state)' = Bundle(p).state /\ (Bundle(p).backup)' = b
    BY <1>l, <2>1, <2>2, <2>3
  <2>5. Kept(p, call[p].plan.changed)'
    BY <2>1, <2>2, <2>4 DEF Kept
  <2>6. pc'[p] = "finishing"
    BY <1>t, <2>1 DEF Goto
  <2>7. WorkInv(p)'
    BY <2>1, <2>2, <2>4, <2>5, <2>6 DEF WorkInv
  <2>. QED  BY <1>p, <1>t, <2>1, <2>4, <2>7, AtWorkStill DEF CallType, Working
<1>. QED  BY <1>1, <1>2, <1>3, <1>4, <1>5, <1>6

(* The end of a migration that goes well.                                   *)
LEMMA FinishStep ==
  ASSUME IInv, NEW p \in Procs, Finish(p)
  PROVE  Grown /\ OnlyLastOpen' /\ Inv(p)'
<1> DEFINE plan == call[p].plan
           b == Bundle(p).backup
<1>1. /\ pc[p] = "finishing" /\ SetState(call[p].bundle, "committed") /\ project' = project
      /\ call' = [call EXCEPT ![p].ok = TRUE] /\ Goto(p, "leaving")
  BY DEF Finish
<1>p. pc[p] \in Working \ {"bundling"}
  BY <1>1 DEF Working
<1>2. /\ Kept(p, plan.changed) /\ Begun(p)
      /\ project.pins = Store!Overlay(b.pins, plan.to, plan.changed)
  BY <1>1, <1>p, AtWork DEF Inv, WorkInv
<1>3. /\ call'[p].ok = TRUE /\ call'[p].job = "apply" /\ call'[p].plan = plan
      /\ ~call'[p].incomplete /\ call'[p].plan \in Plans
  BY <1>1, <1>p, AtWork DEF CallType
<1>4. pc'[p] = "leaving"
  BY <1>1, <1>p, AtWork DEF Goto
<1>5. /\ DOMAIN bundles' = DOMAIN bundles /\ Len(bundles') = Len(bundles)
      /\ bundles'[Last].state = "committed"
      /\ \A j \in DOMAIN bundles \ {Last} : bundles'[j] = bundles[j]
      /\ Grown /\ OnlyLastOpen'
  BY <1>1, <1>p, AtWork, StatePut
<1>6. AllSettled'
  <2>1. DOMAIN bundles = 1..Last /\ Last \in Nat
    BY <1>p, AtWork DEF Last
  <2>2. \A j \in DOMAIN bundles \ {Last} : Settled(bundles[j])
    BY <1>2, <2>1 DEF Begun, OnlyLastOpen, SettledBefore
  <2>. QED  BY <1>5, <2>2 DEF AllSettled, Settled
<1>7. \A c \in plan.changed : project.pins[c] = plan.to[c] /\ project.schemas[c] = plan.to[c]
  BY <1>2, <1>p, AtWork DEF Kept, Store!Overlay, Store!PlanType
<1>8. AnswerInv(p)'
  BY <1>1, <1>3, <1>6, <1>7 DEF AnswerInv
<1>9. CallInv(p)' /\ WorkInv(p)' /\ RestoreInv(p)'
  BY <1>3, <1>4 DEF CallInv, WorkInv, RestoreInv, Working, TakingOver
<1>. QED  BY <1>5, <1>8, <1>9 DEF Inv

(* Bringing back what a bundle has saved.                                   *)
LEMMA AtRestore ==
  ASSUME IInv, NEW p \in Procs, pc[p] \in {"checking", "restoring", "settling"}
  PROVE  /\ pc \in [Procs -> Places] /\ call \in [Procs -> CallType] /\ call[p] \in CallType
         /\ bundles \in Seq(Bundles) /\ Inv(p) /\ TypeOK /\ OnlyLastOpen /\ project \in Store!Stores
         /\ call[p].job \in {"recovery", "rollback", "undo"} /\ ~call[p].ok
         /\ Chosen(p) /\ Bundle(p) \in Bundles /\ Bundle(p).backup \in Store!Backups
<1>1. /\ pc \in [Procs -> Places] /\ call \in [Procs -> CallType] /\ call[p] \in CallType
      /\ bundles \in Seq(Bundles) /\ Inv(p) /\ TypeOK /\ OnlyLastOpen /\ project \in Store!Stores
  BY DEF IInv, TypeOK
<1>2. call[p].job \in {"recovery", "rollback", "undo"} /\ ~call[p].ok
  BY <1>1 DEF Inv, CallInv, CallType, Jobs
<1>3. Chosen(p)
  BY <1>1, <1>2 DEF Inv, CallInv
<1>4. Bundle(p) \in Bundles
  BY <1>1, <1>3 DEF Chosen, Bundle
<1>. QED  BY <1>1, <1>2, <1>3, <1>4 DEF Bundles

(* The record of a restoration hides no earlier one, cut short or not.      *)
LEMMA RestoringLog ==
  ASSUME TypeOK, NEW p \in Procs, call[p].bundle \in DOMAIN bundles, pc[p] # "committing",
         NEW wal \in Partial(Bundle(p).wal, NextPhase(p)) \cup {Appended(Bundle(p).wal, NextPhase(p))}
  PROVE  wal.phase = "committed" <=> Bundle(p).wal.phase = "committed"
<1>1. Bundle(p).wal \in [phase : Phases, tail : Tails]
  BY PhasesAre DEF Bundles
<1>2. NextPhase(p) = IF Bundle(p).wal.phase = "none" THEN "open" ELSE Bundle(p).wal.phase
  BY DEF NextPhase
<1>. QED  BY <1>1, <1>2 DEF Partial, Appended

LEMMA RestoreStep ==
  ASSUME IInv, NEW p \in Procs,
         CheckBundle(p) \/ Restore(p) \/ LogRestored(p) \/ Settle(p) \/ SkipFile(p)
  PROVE  Grown /\ OnlyLastOpen' /\ Inv(p)'
<1>p. pc[p] \in {"checking", "restoring", "settling"}
  BY DEF CheckBundle, Restore, LogRestored, Settle, SkipFile
<1>t. /\ pc \in [Procs -> Places] /\ call \in [Procs -> CallType] /\ call[p] \in CallType
      /\ bundles \in Seq(Bundles) /\ CallInv(p) /\ RestoreInv(p) /\ TypeOK /\ OnlyLastOpen
      /\ project \in Store!Stores
      /\ call[p].job \in {"recovery", "rollback", "undo"} /\ ~call[p].ok
  BY <1>p, AtRestore DEF Inv
<1>b. /\ Chosen(p) /\ Bundle(p) \in Bundles /\ Bundle(p).backup \in Store!Backups
      /\ call[p].bundle \in DOMAIN bundles
  BY <1>p, AtRestore DEF Chosen
<1> DEFINE b == Bundle(p).backup
<1>s. ASSUME UNCHANGED bundles, call'[p].bundle = call[p].bundle
      PROVE  /\ Grown /\ OnlyLastOpen' /\ Bundle(p)' = Bundle(p) /\ Chosen(p)'
             /\ Begun(p) => Begun(p)'
  BY <1>t, <1>b, <1>s DEF Grown, OnlyLastOpen, SettledBefore, Last, Bundle, Chosen, Begun
<1>1. CASE CheckBundle(p)
  <2>1. /\ pc[p] = "checking" /\ UNCHANGED <<project, bundles>>
        /\ \/ call' = [call EXCEPT ![p].todo = Files(b)] /\ Goto(p, "restoring")
           \/ UNCHANGED call /\ Goto(p, "leaving")
    BY <1>1 DEF CheckBundle
  <2>2. /\ call'[p].job = call[p].job /\ call'[p].plan = call[p].plan /\ call'[p].ok = call[p].ok
        /\ call'[p].incomplete = call[p].incomplete /\ call'[p].bundle = call[p].bundle
        /\ call'[p].seen = call[p].seen
        /\ \/ pc'[p] = "restoring" /\ call'[p].todo = Files(b)
           \/ pc'[p] = "leaving"
    BY <1>t, <2>1 DEF CallType, Goto
  <2>3. call[p].job = "rollback" /\ ~call[p].incomplete
    BY <1>t, <2>1 DEF CallInv
  <2>4. CallInv(p)' /\ WorkInv(p)' /\ AnswerInv(p)'
    BY <1>t, <1>s, <2>1, <2>2, <2>3 DEF CallInv, WorkInv, AnswerInv, Working, TakingOver
  <2>5. RestoreInv(p)'
    BY <1>s, <2>1, <2>2, <2>3 DEF RestoreInv, BackAgain, Files
  <2>. QED  BY <1>s, <2>1, <2>2, <2>4, <2>5 DEF Inv
<1>2. CASE Restore(p) \/ SkipFile(p)
  <2>1. PICK file \in call[p].todo :
          \/ /\ project' = IF file = Manifest THEN [project EXCEPT !.pins = b.pins]
                           ELSE [project EXCEPT !.schemas[file] = b.schemas[file]]
             /\ call' = [call EXCEPT ![p].todo = @ \ {file}]
          \/ /\ "restore" \in Hazards /\ call[p].job = "undo"
             /\ call' = [call EXCEPT ![p].todo = @ \ {file}, ![p].incomplete = TRUE]
    BY <1>2 DEF Restore, SkipFile
  <2>2. pc[p] = "restoring" /\ UNCHANGED <<pc, bundles>>
    BY <1>2 DEF Restore, SkipFile
  <2>3. /\ call'[p].job = call[p].job /\ call'[p].plan = call[p].plan /\ call'[p].ok = call[p].ok
        /\ call'[p].bundle = call[p].bundle /\ call'[p].seen = call[p].seen
        /\ call'[p].todo = call[p].todo \ {file}
        /\ \/ call'[p].incomplete = call[p].incomplete
           \/ "restore" \in Hazards /\ call[p].job = "undo" /\ call'[p].incomplete = TRUE
    BY <1>t, <2>1 DEF CallType
  <2>4. CallInv(p)' /\ WorkInv(p)' /\ AnswerInv(p)'
    BY <1>t, <1>s, <2>2, <2>3 DEF CallInv, WorkInv, AnswerInv, Working, TakingOver
  <2>5. ASSUME ~call'[p].incomplete PROVE BackAgain(p, Files(Bundle(p).backup) \ call[p].todo)'
    <3>1. /\ call'[p].incomplete = call[p].incomplete
          /\ project' = IF file = Manifest THEN [project EXCEPT !.pins = b.pins]
                        ELSE [project EXCEPT !.schemas[file] = b.schemas[file]]
      BY <1>t, <2>1, <2>5 DEF CallType
    <3>2. BackAgain(p, Files(b) \ call[p].todo)
      BY <1>t, <2>2, <2>5, <3>1 DEF RestoreInv
    <3>3. /\ file \in Contracts \cup {Manifest} /\ b.changed \subseteq Contracts
          /\ Manifest \notin Contracts
      BY <1>t, <1>b, MigrationAssumption DEF CallType, Store!Backups
    <3>4. CASE file = Manifest
      <4>1. project'.pins = b.pins /\ project'.schemas = project.schemas
        BY <1>t, <3>1, <3>4 DEF Store!Stores
      <4>. QED  BY <1>s, <2>2, <2>3, <3>2, <3>3, <3>4, <4>1 DEF BackAgain, Files
    <3>5. CASE file # Manifest
      <4>1. /\ project'.pins = project.pins /\ project'.schemas[file] = b.schemas[file]
            /\ \A c \in Contracts \ {file} : project'.schemas[c] = project.schemas[c]
        BY <1>t, <3>1, <3>3, <3>5 DEF Store!Stores
      <4>. QED  BY <1>s, <2>2, <2>3, <3>2, <3>3, <3>5, <4>1 DEF BackAgain, Files
    <3>. QED  BY <3>4, <3>5
  <2>6. RestoreInv(p)'
    BY <1>t, <1>s, <2>2, <2>3, <2>5 DEF RestoreInv
  <2>. QED  BY <1>s, <2>2, <2>3, <2>4, <2>6 DEF Inv
<1>3. CASE LogRestored(p)
  <2>1. /\ pc[p] = "restoring" /\ call[p].todo = {} /\ Log(p) /\ Goto(p, "settling")
        /\ UNCHANGED <<project, call>>
    BY <1>3 DEF LogRestored
  <2>2. /\ Grown /\ OnlyLastOpen' /\ (Bundle(p).state)' = Bundle(p).state /\ (Bundle(p).backup)' = b
        /\ DOMAIN bundles' = DOMAIN bundles /\ Len(bundles') = Len(bundles)
        /\ (Bundle(p).wal)' = Appended(Bundle(p).wal, NextPhase(p))
    BY <1>t, <1>b, <2>1, LogPut DEF Bundle
  <2>3. pc'[p] = "settling"
    BY <1>t, <2>1 DEF Goto
  <2>4. Chosen(p)' /\ (Begun(p) => Begun(p)') /\ (Open(Bundle(p)) => Open(Bundle(p))')
    <3>1. (Bundle(p).wal.phase)' = "committed" => Bundle(p).wal.phase = "committed"
      BY <1>t, <1>b, <2>1, <2>2, RestoringLog
    <3>. QED  BY <1>b, <2>1, <2>2, <3>1 DEF Chosen, Begun, Open, Last
  <2>5. CallInv(p)' /\ WorkInv(p)' /\ AnswerInv(p)'
    BY <1>t, <2>1, <2>3, <2>4 DEF CallInv, WorkInv, AnswerInv, Working, TakingOver
  <2>6. RestoreInv(p)'
    BY <1>t, <2>1, <2>2, <2>3, <2>4 DEF RestoreInv, BackAgain, Files
  <2>. QED  BY <2>2, <2>5, <2>6 DEF Inv
<1>4. CASE Settle(p)
  <2>1. /\ pc[p] = "settling" /\ SetState(call[p].bundle, "rolled-back") /\ project' = project
        /\ \/ /\ call[p].job = "recovery" /\ Goto(p, "recovering")
              /\ call' = [call EXCEPT ![p].job = "apply", ![p].bundle = 0]
           \/ /\ call[p].job # "recovery" /\ Goto(p, "leaving")
              /\ call' = [call EXCEPT ![p].ok = (call[p].job = "rollback")]
    BY <1>4 DEF Settle
  <2>2. /\ Grown /\ OnlyLastOpen' /\ DOMAIN bundles' = DOMAIN bundles
        /\ bundles'[call[p].bundle].state = "rolled-back"
        /\ bundles'[call[p].bundle].backup = b
    BY <1>t, <1>b, <2>1, StatePut DEF Bundle
  <2>3. CASE call[p].job = "recovery"
    <3>1. /\ call'[p].job = "apply" /\ call'[p].plan = call[p].plan /\ call'[p].ok = call[p].ok
          /\ call'[p].incomplete = call[p].incomplete /\ pc'[p] = "recovering"
      BY <1>t, <2>1, <2>3 DEF CallType, Goto
    <3>. QED  BY <1>t, <2>2, <2>3, <3>1
              DEF Inv, CallInv, WorkInv, RestoreInv, AnswerInv, Working, TakingOver
  <2>4. CASE call[p].job # "recovery"
    <3>1. /\ call'[p].job = call[p].job /\ call'[p].plan = call[p].plan
          /\ call'[p].bundle = call[p].bundle /\ call'[p].seen = call[p].seen
          /\ call'[p].incomplete = call[p].incomplete
          /\ call'[p].ok => call[p].job = "rollback"
          /\ pc'[p] = "leaving"
      BY <1>t, <2>1, <2>4 DEF CallType, Goto
    <3>2. Chosen(p)' /\ ~Open(Bundle(p))' /\ (Bundle(p).backup)' = b
      BY <1>b, <2>2, <3>1 DEF Chosen, Bundle, Open
    <3>3. CallInv(p)' /\ WorkInv(p)' /\ RestoreInv(p)'
      BY <1>t, <2>1, <3>1, <3>2 DEF CallInv, WorkInv, RestoreInv, Working, TakingOver
    <3>4. call[p].job = "rollback" => BackAgain(p, Files(b))
      BY <1>t, <2>1 DEF RestoreInv, CallInv
    <3>5. AnswerInv(p)'
      BY <2>1, <3>1, <3>2, <3>4 DEF AnswerInv, BackAgain, Files
    <3>. QED  BY <2>2, <3>3, <3>5 DEF Inv
  <2>. QED  BY <2>3, <2>4
<1>. QED  BY <1>1, <1>2, <1>3, <1>4

(* Failures.                                                               *)
LEMMA CutShortPut ==
  ASSUME IInv, NEW p \in Procs, CutShort(p)
  PROVE  /\ Grown /\ OnlyLastOpen'
         /\ DOMAIN bundles' = DOMAIN bundles /\ Len(bundles') = Len(bundles)
         /\ \A j \in DOMAIN bundles : /\ bundles'[j].state = bundles[j].state
                                      /\ bundles'[j].backup = bundles[j].backup
         /\ ~Logs(p) => bundles' = bundles
         /\ pc[p] # "committing" => \A j \in DOMAIN bundles :
              bundles'[j].wal.phase = "committed" <=> bundles[j].wal.phase = "committed"
         /\ \A j \in DOMAIN bundles : j # call[p].bundle => bundles'[j] = bundles[j]
<1>t. TypeOK /\ OnlyLastOpen /\ Inv(p)
  BY DEF IInv
<1>1. CASE ~Logs(p)
  <2>1. bundles' = bundles
    BY <1>1 DEF CutShort
  <2>. QED  BY <1>t, <1>1, <2>1 DEF Grown, OnlyLastOpen, SettledBefore, Last
<1>2. CASE Logs(p)
  <2>1. pc[p] \in Working \ {"bundling"} \/ pc[p] = "restoring"
    BY <1>2 DEF Logs, Working
  <2>2. call[p].bundle \in DOMAIN bundles
    BY <2>1, AtWork, AtRestore DEF Chosen
  <2>3. PICK wal \in Partial(Bundle(p).wal, NextPhase(p)) :
          bundles' = [bundles EXCEPT ![call[p].bundle].wal = wal]
    BY <1>2 DEF CutShort
  <2>4. /\ DOMAIN bundles' = DOMAIN bundles /\ Len(bundles') = Len(bundles)
        /\ bundles'[call[p].bundle].wal = wal
        /\ \A j \in DOMAIN bundles : /\ bundles'[j].state = bundles[j].state
                                     /\ bundles'[j].backup = bundles[j].backup
        /\ \A j \in DOMAIN bundles \ {call[p].bundle} : bundles'[j] = bundles[j]
        /\ Grown /\ OnlyLastOpen'
    BY <1>t, <2>2, <2>3, WalPut
  <2>5. pc[p] # "committing" => (wal.phase = "committed" <=> Bundle(p).wal.phase = "committed")
    BY <1>t, <2>2, RestoringLog
  <2>. QED  BY <1>2, <2>2, <2>4, <2>5 DEF Bundle
<1>. QED  BY <1>1, <1>2

LEMMA FailStep ==
  ASSUME IInv, NEW p \in Procs, Undo(p) \/ Fault(p) \/ Crash(p)
  PROVE  Grown /\ OnlyLastOpen' /\ Inv(p)'
<1>t. /\ pc \in [Procs -> Places] /\ call \in [Procs -> CallType] /\ call[p] \in CallType
      /\ bundles \in Seq(Bundles) /\ Inv(p) /\ CallInv(p) /\ TypeOK /\ OnlyLastOpen
  BY DEF IInv, Inv, TypeOK
<1>c. CutShort(p)
  BY DEF Undo, Fault, Crash
<1>g. Grown /\ OnlyLastOpen'
  BY <1>c, CutShortPut
<1>. SUFFICES Inv(p)'
  BY <1>g
<1>k. Chosen(p) /\ call'[p].bundle = call[p].bundle => Chosen(p)'
  BY <1>g DEF Chosen, Bundle, Grown
<1>1. CASE Undo(p)
  <2>1. /\ pc[p] \in {"writing", "logging", "committing", "finishing"}
        /\ call' = [call EXCEPT ![p].job = "undo", ![p].todo = Files(Bundle(p).backup)]
        /\ Goto(p, "restoring") /\ project' = project
    BY <1>1 DEF Undo
  <2>2. pc[p] \in Working \ {"bundling"}
    BY <2>1 DEF Working
  <2>3. /\ call'[p].job = "undo" /\ call'[p].todo = Files(Bundle(p).backup)
        /\ call'[p].plan = call[p].plan /\ call'[p].ok = call[p].ok
        /\ call'[p].bundle = call[p].bundle /\ call'[p].incomplete = call[p].incomplete
        /\ pc'[p] = "restoring"
    BY <1>t, <2>1 DEF CallType, Goto
  <2>4. /\ Begun(p) /\ Bundle(p).state = "prepared" /\ call[p].bundle \in DOMAIN bundles
        /\ call[p].plan \in Plans /\ ~call[p].ok /\ ~call[p].incomplete
    BY <1>t, <2>1, <2>2, AtWork DEF Inv, WorkInv, Kept
  <2>5. /\ Begun(p)' /\ (Bundle(p).state)' = "prepared" /\ (Bundle(p).backup)' = Bundle(p).backup
    BY <1>c, <1>g, <2>3, <2>4, CutShortPut DEF Begun, Bundle, Last
  <2>6. Chosen(p)'
    BY <1>k, <2>3, <2>4 DEF Chosen
  <2>7. CallInv(p)' /\ WorkInv(p)' /\ AnswerInv(p)'
    BY <2>3, <2>4, <2>6 DEF CallInv, WorkInv, AnswerInv, Working, TakingOver
  <2>8. RestoreInv(p)'
    BY <2>3, <2>5 DEF RestoreInv, BackAgain, Files
  <2>. QED  BY <2>7, <2>8 DEF Inv
<1>2. CASE Fault(p)
  <2>1. /\ pc[p] \in {"created", "recovering", "checking", "bundling", "saving", "preparing",
                      "settling", "restoring"}
        /\ call' = [call EXCEPT ![p].incomplete = @ \/ call[p].job = "undo"]
        /\ Goto(p, "leaving")
    BY <1>2 DEF Fault
  <2>2. PICK incomplete \in BOOLEAN :
          /\ call' = [call EXCEPT ![p].incomplete = incomplete]
          /\ incomplete => call[p].incomplete \/ call[p].job = "undo"
    BY <2>1, Zenon
  <2>3. /\ call'[p].job = call[p].job /\ call'[p].plan = call[p].plan /\ call'[p].ok = call[p].ok
        /\ call'[p].bundle = call[p].bundle /\ call'[p].seen = call[p].seen
        /\ call'[p].incomplete = incomplete /\ pc'[p] = "leaving"
    BY <1>t, <2>1, <2>2 DEF CallType, Goto
  <2>4. CallInv(p)' /\ WorkInv(p)' /\ RestoreInv(p)' /\ AnswerInv(p)'
    BY <1>t, <1>k, <2>1, <2>2, <2>3
    DEF CallInv, WorkInv, RestoreInv, AnswerInv, Working, TakingOver
  <2>. QED  BY <2>4 DEF Inv
<1>3. CASE Crash(p)
  <2>1. pc'[p] = "idle" /\ call'[p] = NoCall
    BY <1>t, <1>3 DEF Crash, GiveUp, Goto
  <2>2. CallInv(p)' /\ WorkInv(p)' /\ RestoreInv(p)' /\ AnswerInv(p)'
    BY <2>1 DEF CallInv, WorkInv, RestoreInv, AnswerInv, NoCall, Working, TakingOver
  <2>. QED  BY <2>2 DEF Inv
<1>. QED  BY <1>1, <1>2, <1>3

LEMMA OneMoves ==
  ASSUME TypeOK, NEW p \in Procs, Proceed(p) \/ Crash(p)
  PROVE  \A q \in Procs \ {p} : pc'[q] = pc[q] /\ call'[q] = call[q]
<1>1. CASE Enter(p) \/ Leave(p) \/ Crash(p)
  BY <1>1 DEF TypeOK, Enter, Apply, Rollback, Acquire, Busy, FindDead, Unlink, Recreate,
              WriteOwner, Leave, Crash, GiveUp, Goto
<1>2. CASE Settling(p)
  BY <1>2 DEF TypeOK, Settling, Blocked, FinishForDead, RestoreForDead, Revalidate,
              CheckBundle, Restore, LogRestored, Settle, Goto
<1>3. CASE Migrating(p) \/ Failing(p)
  BY <1>3 DEF TypeOK, Migrating, MakeBundle, SaveOriginals, LogPrepared, WriteSchema,
              LogSchema, WriteManifest, LogCommitted, Finish, Failing, Undo, SkipFile, Fault,
              Goto
<1>. QED  BY <1>1, <1>2, <1>3 DEF Proceed

LEMMA OutsiderLeavesIt ==
  ASSUME NEW p \in Procs, Proceed(p) \/ Crash(p)
  PROVE  pc[p] \in Inside \/ UNCHANGED <<project, bundles>>
<1>1. CASE Enter(p) \/ Leave(p)
  BY <1>1 DEF Enter, Apply, Rollback, Acquire, Busy, FindDead, Unlink, Recreate, WriteOwner,
              Leave
<1>2. CASE Settling(p)
  BY <1>2 DEF Settling, Blocked, FinishForDead, RestoreForDead, Revalidate, CheckBundle,
              Restore, LogRestored, Settle, Inside
<1>3. CASE Migrating(p) \/ Failing(p)
  BY <1>3 DEF Migrating, MakeBundle, SaveOriginals, LogPrepared, WriteSchema, LogSchema,
              WriteManifest, LogCommitted, Finish, Failing, Undo, SkipFile, Fault, Inside,
              Working
<1>4. CASE Crash(p)
  BY <1>4 DEF Crash, CutShort, Logs, Inside, Working
<1>. QED  BY <1>1, <1>2, <1>3, <1>4 DEF Proceed

LEMMA IInvStep ==
  ASSUME Orderly, IInv, TypeOK', [Next]_vars
  PROVE  IInv'
<1>1. LockInv'
  BY LockInvStep DEF IInv
<1>2. CASE UNCHANGED vars
  <2>1. OnlyLastOpen'
    BY <1>2 DEF vars, IInv, OnlyLastOpen, SettledBefore, Last
  <2>2. ASSUME NEW p \in Procs PROVE Inv(p)'
    <3>1. Inv(p)
      BY DEF IInv
    <3>2. CallInv(p)' /\ AnswerInv(p)'
      BY <1>2, <3>1 DEF vars, Inv, CallInv, AnswerInv, Chosen, Bundle, AllSettled, Open,
                        BackAgain, Files
    <3>3. WorkInv(p)' /\ RestoreInv(p)'
      BY <1>2, <3>1 DEF vars, Inv, WorkInv, RestoreInv, Begun, Kept, Logged, Last, OnlyLastOpen,
                        SettledBefore, AllSettled, Bundle, Open, BackAgain, Files
    <3>. QED  BY <3>2, <3>3 DEF Inv
  <2>. QED  BY <1>1, <2>1, <2>2 DEF IInv
<1>3. ASSUME NEW p \in Procs, Proceed(p) \/ Crash(p) PROVE IInv'
  <2>1. Grown /\ OnlyLastOpen' /\ Inv(p)'
    BY <1>3, EnterStep, RecoverStep, WorkStep, FinishStep, RestoreStep, FailStep
    DEF Proceed, Settling, Migrating, Failing
  <2>2. /\ \A q \in Procs \ {p} : pc'[q] = pc[q] /\ call'[q] = call[q]
        /\ pc[p] \in Inside \/ UNCHANGED <<project, bundles>>
    BY <1>3, OneMoves, OutsiderLeavesIt DEF IInv
  <2>3. ASSUME NEW q \in Procs PROVE Inv(q)'
    BY <2>1, <2>2, OthersStand
  <2>. QED  BY <1>1, <2>1, <2>3 DEF IInv
<1>. QED  BY <1>2, <1>3 DEF Next

LEMMA IInvInit == Init => IInv
<1> SUFFICES ASSUME Init PROVE IInv
  OBVIOUS
<1>1. TypeOK
  BY TInvInit DEF TInv
<1>2. LockInv /\ OnlyLastOpen
  BY DEF Init, LockInv, TakingOver, Inside, Working, OnlyLastOpen, SettledBefore
<1>3. ASSUME NEW p \in Procs PROVE Inv(p)
  <2>1. pc[p] = "idle" /\ call[p] = NoCall
    BY DEF Init
  <2>. QED  BY <2>1 DEF Inv, CallInv, WorkInv, RestoreInv, AnswerInv, NoCall, Working, TakingOver
<1>. QED  BY <1>1, <1>2, <1>3 DEF IInv

LEMMA Invariant == ASSUME Orderly PROVE Spec => []IInv
<1>1. IInv /\ TypeOK' /\ [Next]_vars => IInv'
  BY IInvStep
<1>. QED  BY <1>1, IInvInit, MigrationTypeCorrect, PTL DEF Spec

-----------------------------------------------------------------------------
(* What the project is promised to be.                                      *)
LEMMA PromisedIs ==
  ASSUME TypeOK, OnlyLastOpen
  PROVE  /\ \/ \E i \in DOMAIN bundles : Open(bundles[i])
            \/ Promised = project
         /\ \A i \in DOMAIN bundles : Open(bundles[i]) =>
               i = Last /\ Promised = Store!Restored(project, bundles[i].backup)
<1>1. \A i \in DOMAIN bundles : Open(bundles[i]) => i = Last
  BY DEF TypeOK, OnlyLastOpen, SettledBefore, Settled, Open, Last
<1>2. ASSUME NEW i \in DOMAIN bundles, Open(bundles[i])
      PROVE  (CHOOSE j \in DOMAIN bundles : Open(bundles[j])) = i
  BY <1>1, <1>2
<1>3. ASSUME NEW i \in DOMAIN bundles, Open(bundles[i])
      PROVE  Promised = Store!Restored(project, bundles[i].backup)
  BY <1>2, <1>3 DEF Promised
<1>. QED  BY <1>1, <1>3 DEF Promised

(* "Recover interrupted pre-commit transactions, or fail closed on           *)
(* ambiguity" (migration_apply.py, line 192): whatever an earlier process   *)
(* left half-done is settled before a new bundle is made.                   *)
THEOREM WorkIsOnSettled == ASSUME Orderly PROVE Spec => []SettledBeforeWork
<1>1. ASSUME IInv PROVE SettledBeforeWork
  <2> SUFFICES ASSUME NEW p \in Procs, pc[p] \in Working, NEW i \in DOMAIN bundles
               PROVE  Settled(bundles[i]) \/ i = call[p].bundle
    BY DEF SettledBeforeWork, Settled
  <2>1. CASE pc[p] = "bundling"
    BY <1>1, <2>1 DEF IInv, Inv, WorkInv, AllSettled
  <2>2. CASE pc[p] # "bundling"
    BY <1>1, <2>2, AtWork DEF OnlyLastOpen, SettledBefore, Last
  <2>. QED  BY <2>1, <2>2
<1>. QED  BY <1>1, Invariant, PTL

(* A call that answers "applied" leaves every pin and every schema of its    *)
(* plan in place, one that answers "rolled-back" the contents of its bundle *)
(* (migration_apply.py, apply and rollback_contract_migration), whatever    *)
(* other calls died of before, and whatever writes failed on the way.       *)
THEOREM AnswersHold == ASSUME Orderly PROVE Spec => []AnswerHolds
<1>1. ASSUME IInv PROVE AnswerHolds
  <2> SUFFICES ASSUME NEW p \in Procs, call[p].ok
               PROVE  IF call[p].job = "apply"
                      THEN Promised = Store!Migrated(Promised, call[p].plan)
                      ELSE \/ Promised = Store!Restored(Promised, Bundle(p).backup)
                           \/ \E i \in DOMAIN bundles : Open(bundles[i]) /\ i # call[p].bundle
    BY DEF AnswerHolds
  <2>1. /\ Inv(p) /\ AnswerInv(p) /\ TypeOK /\ OnlyLastOpen /\ project \in Store!Stores
        /\ call[p] \in CallType
    BY <1>1 DEF IInv, Inv, TypeOK
  <2>2. CASE call[p].job = "apply"
    <3>1. AllSettled /\ \A c \in call[p].plan.changed :
            project.pins[c] = call[p].plan.to[c] /\ project.schemas[c] = call[p].plan.to[c]
      BY <2>1, <2>2 DEF AnswerInv
    <3>2. Promised = project
      BY <2>1, <3>1, PromisedIs DEF AllSettled, Settled, Open
    <3>3. /\ Store!Overlay(project.pins, call[p].plan.to, call[p].plan.changed) = project.pins
          /\ Store!Overlay(project.schemas, call[p].plan.to, call[p].plan.changed) = project.schemas
      BY <2>1, <3>1 DEF Store!Overlay, Store!Stores
    <3>4. project = [pins |-> project.pins, schemas |-> project.schemas]
      BY <2>1 DEF Store!Stores
    <3>. QED  BY <2>2, <3>2, <3>3, <3>4 DEF Store!Migrated
  <2>3. CASE call[p].job # "apply" /\ \A i \in DOMAIN bundles : ~Open(bundles[i])
    <3>1. BackAgain(p, Files(Bundle(p).backup)) /\ Promised = project
      BY <2>1, <2>3, PromisedIs DEF AnswerInv
    <3>2. /\ project.pins = Bundle(p).backup.pins
          /\ \A c \in Bundle(p).backup.changed : project.schemas[c] = Bundle(p).backup.schemas[c]
      BY <3>1 DEF BackAgain, Files
    <3>3. Store!Overlay(project.schemas, Bundle(p).backup.schemas, Bundle(p).backup.changed)
            = project.schemas
      BY <2>1, <3>2 DEF Store!Overlay, Store!Stores
    <3>4. project = [pins |-> project.pins, schemas |-> project.schemas]
      BY <2>1 DEF Store!Stores
    <3>. QED  BY <2>3, <3>1, <3>2, <3>3, <3>4 DEF Store!Restored
  <2>4. CASE call[p].job # "apply" /\ \E i \in DOMAIN bundles : Open(bundles[i])
    BY <2>1, <2>4 DEF AnswerInv, Bundle
  <2>. QED  BY <2>2, <2>3, <2>4
<1>. QED  BY <1>1, Invariant, PTL

-----------------------------------------------------------------------------
(* The refinement.  What is promised changes in the step that commits, and   *)
(* while a rollback that was asked for brings files back; every other step  *)
(* leaves it, because an open bundle hides what is done to its files.       *)
LEMMA PromisedNext ==
  ASSUME TypeOK', OnlyLastOpen'
  PROVE  /\ \/ \E i \in DOMAIN bundles' : Open(bundles'[i])
            \/ Promised' = project'
         /\ \A i \in DOMAIN bundles' : Open(bundles'[i]) =>
               i = Last' /\ Promised' = Store!Restored(project', bundles'[i].backup)
<1>1. \A i \in DOMAIN bundles' : Open(bundles'[i]) => i = Last'
  BY DEF TypeOK, OnlyLastOpen, SettledBefore, Settled, Open, Last
<1>2. ASSUME NEW i \in DOMAIN bundles', Open(bundles'[i])
      PROVE  (CHOOSE j \in DOMAIN bundles' : Open(bundles'[j])) = i
  BY <1>1, <1>2
<1>3. ASSUME NEW i \in DOMAIN bundles', Open(bundles'[i])
      PROVE  Promised' = Store!Restored(project', bundles'[i].backup)
  BY <1>2, <1>3 DEF Promised
<1>. QED  BY <1>1, <1>3 DEF Promised

(* What is pending is what the last bundle saved, while it is open.         *)
LEMMA PendingIs ==
  ASSUME TypeOK, OnlyLastOpen
  PROVE  /\ (\A i \in DOMAIN bundles : ~Open(bundles[i])) => Pending = {}
         /\ \A i \in DOMAIN bundles : Open(bundles[i]) => Pending = {bundles[i].backup}
<1>1. \A i \in DOMAIN bundles : Open(bundles[i]) => i = Last
  BY PromisedIs
<1>. QED  BY <1>1 DEF Pending

LEMMA PendingNext ==
  ASSUME TypeOK', OnlyLastOpen'
  PROVE  /\ (\A i \in DOMAIN bundles' : ~Open(bundles'[i])) => Pending' = {}
         /\ \A i \in DOMAIN bundles' : Open(bundles'[i]) => Pending' = {bundles'[i].backup}
<1>1. \A i \in DOMAIN bundles' : Open(bundles'[i]) => i = Last'
  BY PromisedNext
<1>. QED  BY <1>1 DEF Pending

LEMMA PromisedStays ==
  ASSUME IInv, IInv',
         \A i \in DOMAIN bundles' : Open(bundles'[i]) => i \in DOMAIN bundles /\ Open(bundles[i]),
         \A i \in DOMAIN bundles : Open(bundles[i]) =>
            /\ i \in DOMAIN bundles' /\ Open(bundles'[i]) /\ bundles'[i].backup = bundles[i].backup
            /\ Store!Restored(project', bundles[i].backup) = Store!Restored(project, bundles[i].backup),
         (\A i \in DOMAIN bundles : ~Open(bundles[i])) => project' = project
  PROVE  UNCHANGED <<Promised, Pending>>
<1>1. CASE \E i \in DOMAIN bundles : Open(bundles[i])
  <2>1. PICK i \in DOMAIN bundles : Open(bundles[i])
    BY <1>1
  <2>. QED  BY <2>1, PromisedIs, PromisedNext, PendingIs, PendingNext DEF IInv
<1>2. CASE \A i \in DOMAIN bundles : ~Open(bundles[i])
  BY <1>2, PromisedIs, PromisedNext, PendingIs, PendingNext DEF IInv
<1>. QED  BY <1>1, <1>2

LEMMA SavedStays ==
  ASSUME DOMAIN bundles \subseteq DOMAIN bundles',
         \A i \in DOMAIN bundles : /\ bundles'[i].backup = bundles[i].backup
                                   /\ bundles'[i].state = "none" <=> bundles[i].state = "none",
         \A i \in DOMAIN bundles' \ DOMAIN bundles : bundles'[i].state = "none"
  PROVE  Saved' = Saved
BY DEF Saved

(* Whether the backup of a call is one that is wanted back.                 *)
Wanted(p) == \/ call[p].job = "rollback"
             \/ call[p].job = "undo" /\ Bundle(p).wal.phase = "committed"

(* Whether some of it is.                                                  *)
Undoes(p) ==
  /\ pc[p] \in {"restoring", "settling"} /\ call[p].todo # Files(Bundle(p).backup)
  /\ \/ call[p].job = "rollback"
     \/ call[p].job = "undo" /\ Bundle(p).wal.phase = "committed"

LEMMA UndoingIs ==
  ASSUME IInv, NEW p \in Procs, pc[p] \in Inside
  PROVE  Undoing = IF Undoes(p) THEN {Bundle(p).backup} ELSE {}
<1>1. \A q \in Procs \ {p} : ~Undoes(q)
  BY DEF IInv, LockInv, Undoes, Inside
<1>2. Undoing = {Bundle(q).backup : q \in {r \in Procs : Undoes(r)}}
  BY DEF Undoing, Undoes
<1>. QED  BY <1>1, <1>2

LEMMA UndoingNext ==
  ASSUME IInv, NEW p \in Procs, pc[p] \in Inside, \A q \in Procs \ {p} : pc'[q] = pc[q]
  PROVE  Undoing' = IF Undoes(p)' THEN {(Bundle(p).backup)'} ELSE {}
<1>1. \A q \in Procs \ {p} : ~(Undoes(q)')
  BY DEF IInv, LockInv, Undoes, Inside
<1>2. Undoing' = {(Bundle(q).backup)' : q \in {r \in Procs : Undoes(r)'}}
  BY DEF Undoing, Undoes
<1>. QED  BY <1>1, <1>2

(* The step that commits: only the log says so, and the promise moves.      *)
LEMMA CommitIsMigration ==
  ASSUME IInv, IInv', NEW p \in Procs, pc[p] = "committing", project' = project,
         DOMAIN bundles' = DOMAIN bundles,
         \A j \in DOMAIN bundles : j # call[p].bundle => bundles'[j] = bundles[j],
         bundles'[call[p].bundle].wal.phase = "committed",
         UNCHANGED <<Saved, Undoing>>
  PROVE  Promise!StoreNext
<1> DEFINE plan == call[p].plan
           b == Bundle(p).backup
<1>w. pc[p] \in Working \ {"bundling"}
  BY DEF Working
<1>1. /\ Kept(p, plan.changed) /\ Logged(p, "open") /\ Begun(p)
      /\ project.pins = Store!Overlay(b.pins, plan.to, plan.changed)
  BY <1>w, AtWork DEF Inv, WorkInv
<1>2. /\ plan \in Plans /\ plan \in Store!PlanType /\ call[p].bundle \in DOMAIN bundles
      /\ call[p].bundle = Last /\ project \in Store!Stores /\ b \in Store!Backups
      /\ TypeOK /\ OnlyLastOpen /\ bundles \in Seq(Bundles)
  BY <1>w, AtWork
<1>3. Promised = Store!Restored(project, b) /\ Pending = {b}
  <2>1. Open(bundles[call[p].bundle])
    BY <1>1 DEF Open, Logged, Kept, Bundle
  <2>. QED  BY <1>2, <2>1, PromisedIs, PendingIs DEF Bundle
<1>4. Promised' = project /\ Pending' = {}
  <2>1. \A i \in DOMAIN bundles' : ~Open(bundles'[i])
    BY <1>2 DEF Open, OnlyLastOpen, SettledBefore, Settled, Last
  <2>. QED  BY <2>1, PromisedNext, PendingNext DEF IInv
<1>5. b = Store!BackupOf(Promised, plan) /\ b.changed = plan.changed
  BY <1>1, <1>3 DEF Kept
<1>6. Promised.pins = b.pins /\ Promised.schemas = Store!Overlay(project.schemas, b.schemas, b.changed)
  BY <1>3 DEF Store!Restored
<1>7. Store!Fits(Promised, plan)
  BY <1>1, <1>6 DEF Store!Fits, Kept
<1>8. project = Store!Migrated(Promised, plan)
  <2>1. Store!Overlay(Promised.schemas, plan.to, plan.changed) = project.schemas
    BY <1>1, <1>2, <1>5, <1>6 DEF Store!Overlay, Store!Stores, Store!PlanType, Kept
  <2>2. project = [pins |-> project.pins, schemas |-> project.schemas]
    BY <1>2 DEF Store!Stores
  <2>. QED  BY <1>1, <1>6, <2>1, <2>2 DEF Store!Migrated
<1>9. Promise!Migrate(plan)
  BY <1>3, <1>4, <1>5, <1>7, <1>8
  DEF Promise!Migrate, Promise!Fits, Store!Fits, Promise!BackupOf, Store!BackupOf,
      Promise!Migrated, Store!Migrated, Promise!Overlay, Store!Overlay
<1>. QED  BY <1>2, <1>9 DEF Promise!StoreNext

Stutter == UNCHANGED <<Promised, Saved, Pending, Undoing>>

LEMMA SmoothStep ==
  ASSUME IInv, IInv', NEW p \in Procs,
         pc[p] \in Inside \/ UNCHANGED <<project, bundles>>,
         pc'[p] \notin {"restoring", "settling"}, ~Undoes(p),
         \A q \in Procs \ {p} : pc'[q] = pc[q] /\ call'[q] = call[q],
         UNCHANGED <<Promised, Saved, Pending>>
  PROVE  Stutter
<1>1. CASE pc[p] \in Inside
  <2>1. Undoing = {} /\ Undoing' = {}
    BY <1>1, UndoingIs, UndoingNext DEF Undoes
  <2>. QED  BY <2>1 DEF Stutter
<1>2. CASE UNCHANGED <<project, bundles>>
  <2>1. \A q \in Procs : Undoes(q)' <=> Undoes(q)
    BY <1>2 DEF Undoes, Bundle
  <2>2. \A q \in Procs : Undoes(q) => (Bundle(q).backup)' = Bundle(q).backup
    BY <1>2 DEF Undoes, Bundle
  <2>3. /\ Undoing = {Bundle(q).backup : q \in {r \in Procs : Undoes(r)}}
        /\ Undoing' = {(Bundle(q).backup)' : q \in {r \in Procs : Undoes(r)'}}
    BY DEF Undoing, Undoes
  <2>. QED  BY <2>1, <2>2, <2>3 DEF Stutter
<1>. QED  BY <1>1, <1>2

(* Outside the lock, or looking for what is to be settled.                  *)
LEMMA EnterStutters ==
  ASSUME IInv, IInv', NEW p \in Procs, Enter(p) \/ Leave(p) \/ Blocked(p) \/ Revalidate(p),
         \A q \in Procs \ {p} : pc'[q] = pc[q] /\ call'[q] = call[q]
  PROVE  Stutter
<1>1. UNCHANGED <<project, bundles>>
  BY DEF Enter, Apply, Rollback, Acquire, Busy, FindDead, Unlink, Recreate, WriteOwner, Leave,
         Blocked, Revalidate
<1>2. UNCHANGED <<Promised, Saved, Pending>>
  BY <1>1 DEF Promised, Saved, Pending, Open
<1>3. pc \in [Procs -> Places]
  BY DEF IInv, TypeOK
<1>4. pc'[p] \notin {"restoring", "settling"} /\ ~Undoes(p)
  BY <1>3 DEF Enter, Apply, Rollback, Acquire, Busy, FindDead, Unlink, Recreate, WriteOwner, Leave,
         Blocked, Revalidate, GiveUp, Goto, Undoes
<1>. QED  BY <1>1, <1>2, <1>4, SmoothStep

LEMMA RecoverStutters ==
  ASSUME IInv, IInv', NEW p \in Procs, FinishForDead(p) \/ RestoreForDead(p) \/ MakeBundle(p),
         \A q \in Procs \ {p} : pc'[q] = pc[q] /\ call'[q] = call[q]
  PROVE  Stutter
<1>t. /\ pc \in [Procs -> Places] /\ call \in [Procs -> CallType] /\ bundles \in Seq(Bundles)
      /\ TypeOK /\ WorkInv(p)
  BY DEF IInv, TypeOK, Inv
<1>1. CASE FinishForDead(p)
  <2>1. PICK i \in DOMAIN bundles :
          /\ ~Settled(bundles[i]) /\ ~Unreadable(bundles[i]) /\ bundles[i].wal.phase = "committed"
          /\ SetState(i, "committed") /\ pc[p] = "recovering" /\ UNCHANGED <<pc, project>>
    BY <1>1 DEF FinishForDead, NextToSettle
  <2>2. /\ DOMAIN bundles' = DOMAIN bundles /\ bundles'[i].state = "committed"
        /\ \A j \in DOMAIN bundles : bundles'[j].wal = bundles[j].wal /\ bundles'[j].backup = bundles[j].backup
        /\ \A j \in DOMAIN bundles \ {i} : bundles'[j] = bundles[j]
    BY <1>t, <2>1, StatePut
  <2>3. \A j \in DOMAIN bundles : Open(bundles'[j]) <=> Open(bundles[j])
    BY <2>1, <2>2 DEF Open
  <2>4. UNCHANGED <<Promised, Pending>>
    BY <2>1, <2>2, <2>3, PromisedStays
  <2>5. Saved' = Saved
    BY <2>1, <2>2, SavedStays DEF Unreadable
  <2>. QED  BY <1>t, <2>1, <2>4, <2>5, SmoothStep DEF Undoes, Inside
<1>2. CASE RestoreForDead(p)
  <2>1. /\ pc[p] = "recovering" /\ UNCHANGED <<project, bundles>> /\ pc'[p] = "restoring"
    BY <1>t, <1>2 DEF RestoreForDead, Goto
  <2>2. call'[p].job = "recovery"
    BY <1>t, <1>2 DEF RestoreForDead, CallType
  <2>3. UNCHANGED <<Promised, Saved, Pending>>
    BY <2>1 DEF Promised, Saved, Pending, Open
  <2>4. Undoing = {} /\ Undoing' = {}
    BY <2>1, <2>2, UndoingIs, UndoingNext DEF Undoes, Inside
  <2>. QED  BY <2>3, <2>4 DEF Stutter
<1>3. CASE MakeBundle(p)
  <2>1. /\ pc[p] = "bundling" /\ bundles' = Append(bundles, NewBundleRecord) /\ project' = project
        /\ pc'[p] = "saving"
    BY <1>t, <1>3 DEF MakeBundle, Goto
  <2>2. /\ DOMAIN bundles' = DOMAIN bundles \cup {Len(bundles) + 1}
        /\ \A j \in DOMAIN bundles : bundles'[j] = bundles[j]
        /\ bundles'[Len(bundles) + 1] = NewBundleRecord
    BY <1>t, <2>1, RecordsAre
  <2>3. NewBundleRecord.state = "none"
    BY DEF NewBundleRecord
  <2>4. UNCHANGED <<Promised, Pending>>
    BY <2>1, <2>2, <2>3, PromisedStays DEF Open
  <2>5. Saved' = Saved
    BY <2>2, <2>3, SavedStays
  <2>. QED  BY <2>1, <2>4, <2>5, SmoothStep DEF Undoes, Inside, Working
<1>. QED  BY <1>1, <1>2, <1>3

LEMMA WorkRefines ==
  ASSUME IInv, IInv', NEW p \in Procs, Migrating(p), ~MakeBundle(p),
         \A q \in Procs \ {p} : pc'[q] = pc[q] /\ call'[q] = call[q]
  PROVE  Promise!StoreNext \/ Stutter
<1> DEFINE plan == call[p].plan
           b == Bundle(p).backup
<1>w. pc[p] \in Working \ {"bundling"} /\ pc[p] \in Inside
  BY DEF Migrating, SaveOriginals, LogPrepared, WriteSchema, LogSchema, WriteManifest,
         LogCommitted, Finish, Working, Inside
<1>t. /\ pc \in [Procs -> Places] /\ call \in [Procs -> CallType] /\ bundles \in Seq(Bundles)
      /\ TypeOK /\ OnlyLastOpen /\ WorkInv(p) /\ project \in Store!Stores /\ project' \in Store!Stores
      /\ plan \in Store!PlanType /\ plan \in Plans
      /\ call[p].bundle = Last /\ call[p].bundle \in DOMAIN bundles
      /\ Bundle(p) \in Bundles /\ b \in Store!Backups
  BY <1>w, AtWork DEF Inv, IInv, TypeOK
<1>s. /\ pc'[p] \notin {"restoring", "settling"} /\ ~Undoes(p)
      /\ Undoing = {} /\ Undoing' = {}
  <2>1. pc'[p] \notin {"restoring", "settling"} /\ ~Undoes(p)
    BY <1>w, <1>t DEF Migrating, SaveOriginals, LogPrepared, WriteSchema, LogSchema,
                      WriteManifest, LogCommitted, Finish, Goto, Undoes, Working
  <2>. QED  BY <1>w, <2>1, UndoingIs, UndoingNext DEF Undoes
<1>o. \A j \in DOMAIN bundles : Open(bundles[j]) => j = call[p].bundle
  BY <1>t, PromisedIs
<1>1. CASE SaveOriginals(p)
  <2> DEFINE new == [Bundle(p) EXCEPT !.state = "prepared", !.backup = Store!BackupOf(project, plan)]
  <2>1. /\ pc[p] = "saving" /\ project' = project
        /\ bundles' = [bundles EXCEPT ![call[p].bundle] = new]
    BY <1>1 DEF SaveOriginals, Bundle
  <2>2. Logged(p, "none") /\ Store!Fits(project, plan) /\ Bundle(p).state = "none"
    BY <1>t, <2>1 DEF WorkInv
  <2>3. /\ new.state = "prepared" /\ new.backup = Store!BackupOf(project, plan)
        /\ new.wal.phase = "none"
    BY <1>t, <2>2 DEF Logged, Bundles
  <2>4. /\ bundles'[call[p].bundle] = new /\ DOMAIN bundles' = DOMAIN bundles
        /\ \A j \in DOMAIN bundles : j # call[p].bundle => bundles'[j] = bundles[j]
    BY <1>t, <2>1
  <2>5. Promised = project /\ Pending = {}
    BY <1>t, <1>o, <2>2, PromisedIs, PendingIs DEF Open, Bundle
  <2>6. Promised' = project /\ Pending' = {Store!BackupOf(project, plan)}
    <3>1. /\ Promised' = Store!Restored(project, Store!BackupOf(project, plan))
          /\ Pending' = {Store!BackupOf(project, plan)}
      BY <1>t, <2>1, <2>3, <2>4, PromisedNext, PendingNext DEF Open, IInv
    <3>. QED  BY <1>t, <3>1, RestoredSaved
  <2>7. Saved' = Saved \cup {Store!BackupOf(project, plan)}
    <3>1. /\ bundles[call[p].bundle].state = "none" /\ bundles'[call[p].bundle].state = "prepared"
          /\ bundles'[call[p].bundle].backup = Store!BackupOf(project, plan)
      BY <2>2, <2>3, <2>4 DEF Bundle
    <3>2. ASSUME NEW c \in Saved PROVE c \in Saved'
      <4>1. PICK j \in DOMAIN bundles : bundles[j].state # "none" /\ c = bundles[j].backup
        BY <3>2 DEF Saved
      <4>. QED  BY <2>4, <3>1, <4>1 DEF Saved
    <3>3. ASSUME NEW c \in Saved' PROVE c \in Saved \/ c = Store!BackupOf(project, plan)
      <4>1. PICK j \in DOMAIN bundles' : bundles'[j].state # "none" /\ c = bundles'[j].backup
        BY <3>3 DEF Saved
      <4>2. CASE j = call[p].bundle
        BY <3>1, <4>1, <4>2
      <4>3. CASE j # call[p].bundle
        <5>1. j \in DOMAIN bundles /\ bundles'[j] = bundles[j]
          BY <2>4, <4>1, <4>3
        <5>. QED  BY <4>1, <5>1 DEF Saved
      <4>. QED  BY <4>2, <4>3
    <3>4. Store!BackupOf(project, plan) \in Saved'
      BY <1>t, <2>4, <3>1 DEF Saved
    <3>. QED  BY <3>2, <3>3, <3>4
  <2>8. Promise!Save(plan)
    BY <1>s, <2>2, <2>5, <2>6, <2>7
    DEF Promise!Save, Promise!Fits, Store!Fits, Promise!BackupOf, Store!BackupOf
  <2>. QED  BY <1>t, <2>8 DEF Promise!StoreNext
<1>2. CASE LogPrepared(p) \/ LogSchema(p)
  <2>1. pc[p] \in {"preparing", "logging"} /\ Log(p) /\ project' = project
    BY <1>2 DEF LogPrepared, LogSchema
  <2>2. /\ Bundle(p).state = "prepared" /\ Bundle(p).wal.phase # "committed"
        /\ Bundle(p).wal.tail = "whole" /\ NextPhase(p) = "open"
    BY <1>t, <2>1 DEF WorkInv, Kept, Logged, NextPhase
  <2>3. Appended(Bundle(p).wal, NextPhase(p)).phase # "committed"
    BY <1>t, <2>2 DEF Appended, Bundles
  <2>4. /\ DOMAIN bundles' = DOMAIN bundles
        /\ bundles'[call[p].bundle].wal.phase # "committed"
        /\ \A j \in DOMAIN bundles : bundles'[j].state = bundles[j].state /\ bundles'[j].backup = bundles[j].backup
        /\ \A j \in DOMAIN bundles \ {call[p].bundle} : bundles'[j] = bundles[j]
    BY <1>t, <2>1, <2>3, LogPut
  <2>5. \A j \in DOMAIN bundles : Open(bundles'[j]) <=> Open(bundles[j])
    BY <2>2, <2>4 DEF Open, Bundle
  <2>6. UNCHANGED <<Promised, Saved, Pending>>
    BY <2>1, <2>4, <2>5, PromisedStays, SavedStays
  <2>. QED  BY <1>s, <2>6 DEF Stutter
<1>3. CASE WriteSchema(p) \/ WriteManifest(p)
  <2>1. pc[p] = "writing" /\ bundles' = bundles
    BY <1>3 DEF WriteSchema, WriteManifest
  <2>2. Open(Bundle(p)) /\ b.changed = plan.changed /\ call[p].todo \subseteq plan.changed
    BY <1>t, <2>1 DEF WorkInv, Kept, Logged, Open
  <2>3. \A c \in Contracts \ b.changed : project'.schemas[c] = project.schemas[c]
    BY <1>t, <1>3, <2>2 DEF WriteSchema, WriteManifest, Store!Stores
  <2>4. Store!Restored(project', b) = Store!Restored(project, b)
    BY <1>t, <2>3, RestoredAnyway
  <2>5. UNCHANGED <<Promised, Pending>>
    BY <1>t, <1>o, <2>1, <2>2, <2>4, PromisedStays DEF Bundle
  <2>6. Saved' = Saved
    BY <2>1 DEF Saved
  <2>. QED  BY <1>s, <2>5, <2>6 DEF Stutter
<1>4. CASE LogCommitted(p)
  <2>1. pc[p] = "committing" /\ Log(p) /\ project' = project
    BY <1>4 DEF LogCommitted
  <2>2. Logged(p, "open")
    BY <1>t, <2>1 DEF WorkInv
  <2>3. Appended(Bundle(p).wal, NextPhase(p)).phase = "committed"
    BY <1>t, <2>1, <2>2 DEF Appended, Logged, NextPhase
  <2>4. /\ DOMAIN bundles' = DOMAIN bundles
        /\ bundles'[call[p].bundle].wal.phase = "committed"
        /\ \A j \in DOMAIN bundles : bundles'[j].state = bundles[j].state /\ bundles'[j].backup = bundles[j].backup
        /\ \A j \in DOMAIN bundles \ {call[p].bundle} : bundles'[j] = bundles[j]
    BY <1>t, <2>1, <2>3, LogPut
  <2>5. Saved' = Saved
    BY <2>4, SavedStays
  <2>. QED  BY <1>s, <2>1, <2>4, <2>5, CommitIsMigration
<1>5. CASE Finish(p)
  <2>1. pc[p] = "finishing" /\ SetState(call[p].bundle, "committed") /\ project' = project
    BY <1>5 DEF Finish
  <2>2. Bundle(p).state = "prepared" /\ Bundle(p).wal.phase = "committed"
    BY <1>t, <2>1 DEF WorkInv, Kept, Logged
  <2>3. /\ DOMAIN bundles' = DOMAIN bundles /\ bundles'[call[p].bundle].state = "committed"
        /\ \A j \in DOMAIN bundles : bundles'[j].wal = bundles[j].wal /\ bundles'[j].backup = bundles[j].backup
        /\ \A j \in DOMAIN bundles \ {call[p].bundle} : bundles'[j] = bundles[j]
    BY <1>t, <2>1, StatePut
  <2>4. \A j \in DOMAIN bundles : Open(bundles'[j]) <=> Open(bundles[j])
    BY <2>2, <2>3 DEF Open, Bundle
  <2>5. UNCHANGED <<Promised, Pending>>
    BY <2>1, <2>3, <2>4, PromisedStays
  <2>6. Saved' = Saved
    BY <2>2, <2>3, SavedStays DEF Bundle
  <2>. QED  BY <1>s, <2>5, <2>6 DEF Stutter
<1>. QED  BY <1>1, <1>2, <1>3, <1>4, <1>5 DEF Migrating

(* An undo may end once its files are back; of an open bundle they are       *)
(* promised to be, and another open bundle hides those it has, too.         *)
MayEnd(b) == \/ Promised = Store!Restored(Promised, b)
             \/ \E w \in Pending : Promised = Store!Restored(Store!Restored(Promised, b), w)

LEMMA RestoredTwice ==
  ASSUME NEW s \in Store!Stores, NEW b \in Store!Backups
  PROVE  Store!Restored(s, b) = Store!Restored(Store!Restored(s, b), b)
<1>1. Store!Overlay(Store!Overlay(s.schemas, b.schemas, b.changed), b.schemas, b.changed)
        = Store!Overlay(s.schemas, b.schemas, b.changed)
  BY DEF Store!Overlay
<1>. QED  BY <1>1 DEF Store!Restored

LEMMA BackMayEnd ==
  ASSUME IInv, NEW p \in Procs, pc[p] \in {"restoring", "settling"},
         Open(Bundle(p)) \/ BackAgain(p, Files(Bundle(p).backup))
  PROVE  MayEnd(Bundle(p).backup)
<1> DEFINE b == Bundle(p).backup
<1>t. /\ bundles \in Seq(Bundles) /\ TypeOK /\ OnlyLastOpen /\ project \in Store!Stores
      /\ call[p].bundle \in DOMAIN bundles /\ b \in Store!Backups
  BY AtRestore DEF Chosen
<1>1. CASE Open(Bundle(p))
  <2>1. Promised = Store!Restored(project, b)
    BY <1>t, <1>1, PromisedIs DEF Bundle
  <2>. QED  BY <1>t, <2>1, RestoredTwice DEF MayEnd
<1>2. CASE BackAgain(p, Files(b))
  <2>1. /\ b.pins = project.pins /\ \A c \in b.changed : b.schemas[c] = project.schemas[c]
        /\ b.changed \subseteq Contracts
    BY <1>t, <1>2 DEF BackAgain, Files, Store!Backups
  <2>2. Store!Overlay(project.schemas, b.schemas, b.changed) = project.schemas
    BY <1>t, <2>1 DEF Store!Overlay, Store!Stores
  <2>3. project = [pins |-> project.pins, schemas |-> project.schemas]
    BY <1>t DEF Store!Stores
  <2>4. CASE \A i \in DOMAIN bundles : ~Open(bundles[i])
    <3>1. Promised = project
      BY <1>t, <2>4, PromisedIs
    <3>. QED  BY <2>1, <2>2, <2>3, <3>1 DEF MayEnd, Store!Restored
  <2>5. ASSUME NEW i \in DOMAIN bundles, Open(bundles[i]) PROVE MayEnd(b)
    <3> DEFINE w == bundles[i].backup
    <3>1. Promised = Store!Restored(project, w)
      BY <1>t, <2>5, PromisedIs
    <3>2. w \in Pending
      BY <1>t, <2>5, PendingIs
    <3>3. Store!Overlay(Store!Overlay(Store!Overlay(project.schemas, w.schemas, w.changed),
                                      b.schemas, b.changed), w.schemas, w.changed)
            = Store!Overlay(project.schemas, w.schemas, w.changed)
      BY <1>t, <2>1 DEF Store!Overlay, Store!Stores
    <3>4. Promised = Store!Restored(Store!Restored(Promised, b), w)
      BY <2>1, <3>1, <3>3 DEF Store!Restored
    <3>. QED  BY <3>2, <3>4 DEF MayEnd
  <2>. QED  BY <2>4, <2>5
<1>. QED  BY <1>1, <1>2

LEMMA EndsUndo ==
  ASSUME NEW b, MayEnd(b), Undoing = {b}, Undoing' = {}, Pending' \in {Pending, Pending \ {b}},
         UNCHANGED <<Promised, Saved>>
  PROVE  Promise!StoreNext
<1>1. Promise!EndUndo(b)
  BY DEF MayEnd, Promise!EndUndo, Promise!Restored, Store!Restored, Promise!Overlay, Store!Overlay
<1>. QED  BY <1>1 DEF Promise!StoreNext

(* Bringing back: an open bundle hides it, and otherwise it was asked for.  *)
LEMMA RestoreRefines ==
  ASSUME IInv, IInv', "restore" \notin Hazards, NEW p \in Procs,
         CheckBundle(p) \/ Restore(p) \/ LogRestored(p) \/ Settle(p),
         \A q \in Procs \ {p} : pc'[q] = pc[q] /\ call'[q] = call[q]
  PROVE  Promise!StoreNext \/ Stutter
<1> DEFINE b == Bundle(p).backup
<1>p. pc[p] \in {"checking", "restoring", "settling"} /\ pc[p] \in Inside
  BY DEF CheckBundle, Restore, LogRestored, Settle, Inside
<1>t. /\ pc \in [Procs -> Places] /\ call \in [Procs -> CallType] /\ call[p] \in CallType
      /\ bundles \in Seq(Bundles) /\ Inv(p) /\ TypeOK /\ OnlyLastOpen
      /\ project \in Store!Stores /\ project' \in Store!Stores
      /\ call[p].job \in {"recovery", "rollback", "undo"}
      /\ Bundle(p) \in Bundles /\ b \in Store!Backups
      /\ call[p].bundle \in DOMAIN bundles /\ Bundle(p).state # "none"
  BY <1>p, AtRestore DEF Chosen, IInv, TypeOK
<1>i. ~call[p].incomplete
  BY <1>p, <1>t DEF Inv, CallInv
<1>s. b \in Saved
  BY <1>t DEF Saved, Bundle
<1>u. /\ Undoing = IF Undoes(p) THEN {b} ELSE {}
      /\ Undoing' = IF Undoes(p)' THEN {(Bundle(p).backup)'} ELSE {}
  BY <1>p, UndoingIs, UndoingNext
<1>1. CASE CheckBundle(p)
  <2>1. pc[p] = "checking" /\ UNCHANGED <<project, bundles>> /\ ~Undoes(p)
    BY <1>1 DEF CheckBundle, Undoes
  <2>2. UNCHANGED <<Promised, Saved, Pending>>
    BY <2>1 DEF Promised, Saved, Pending, Open
  <2>3. pc'[p] = "restoring" =>
          call'[p].bundle = call[p].bundle /\ call'[p].todo = Files(Bundle(p).backup)
    BY <1>t, <1>1 DEF CheckBundle, CallType, Goto
  <2>4. pc'[p] # "settling"
    BY <1>t, <1>1 DEF CheckBundle, Goto
  <2>5. Undoing = {} /\ Undoing' = {}
    BY <1>u, <2>1, <2>3, <2>4 DEF Undoes, Bundle
  <2>. QED  BY <2>2, <2>5 DEF Stutter
<1>2. CASE Restore(p)
  <2>1. PICK file \in call[p].todo :
          /\ project' = IF file = Manifest THEN [project EXCEPT !.pins = b.pins]
                        ELSE [project EXCEPT !.schemas[file] = b.schemas[file]]
          /\ call' = [call EXCEPT ![p].todo = @ \ {file}]
    BY <1>2 DEF Restore
  <2>2. /\ pc[p] = "restoring" /\ UNCHANGED <<pc, bundles>>
        /\ call'[p].job = call[p].job /\ call'[p].bundle = call[p].bundle
    BY <1>t, <1>2, <2>1 DEF Restore, CallType
  <2>3. /\ UNCHANGED <<Saved, Pending>>
        /\ Undoing \subseteq Undoing' /\ Undoing' = IF Wanted(p) THEN {b} ELSE {}
    <3>1. file \in Files(b) /\ file \notin call'[p].todo
      BY <1>t, <2>1, <2>2 DEF Inv, RestoreInv, CallType
    <3>2. UNCHANGED <<Saved, Pending>> /\ (Bundle(p))' = Bundle(p)
      BY <2>2 DEF Saved, Pending, Bundle, Open
    <3>3. /\ Undoes(p)' <=> Wanted(p)
          /\ Undoes(p) => Wanted(p)
      BY <2>2, <3>1, <3>2 DEF Undoes, Wanted
    <3>. QED  BY <1>u, <3>2, <3>3
  <2>4. file # Manifest => file \in b.changed /\ file \in Contracts
    <3>1. file \in Files(b) /\ b.changed \subseteq Contracts
      BY <1>t, <2>1, <2>2 DEF Inv, RestoreInv, Store!Backups
    <3>. QED  BY <3>1 DEF Files
  <2>5. /\ file = Manifest => project' = [project EXCEPT !.pins = b.pins]
        /\ file # Manifest => project' = [project EXCEPT !.schemas[file] = b.schemas[file]]
    BY <2>1
  <2>6. CASE \A i \in DOMAIN bundles : ~Open(bundles[i])
    <3>1. Promised = project /\ Promised' = project'
      BY <1>t, <2>2, <2>6, PromisedIs, PromisedNext DEF IInv
    <3>2. Wanted(p)
      BY <1>t, <2>2, <2>6 DEF Wanted, Inv, RestoreInv, Open, Bundle
    <3>3. Undoing \subseteq {b} /\ Undoing' = {b}
      BY <2>3, <3>2
    <3>4. CASE file = Manifest
      <4>1. Promise!RestorePins(b)
        BY <2>3, <2>5, <3>1, <3>3, <3>4 DEF Promise!RestorePins
      <4>. QED  BY <1>s, <4>1 DEF Promise!StoreNext
    <3>5. CASE file # Manifest
      <4>1. Promise!RestoreSchema(b, file)
        BY <2>3, <2>4, <2>5, <3>1, <3>3, <3>5 DEF Promise!RestoreSchema
      <4>. QED  BY <1>s, <2>4, <3>5, <4>1 DEF Promise!StoreNext
    <3>. QED  BY <3>4, <3>5
  <2>7. ASSUME NEW i \in DOMAIN bundles, Open(bundles[i]) PROVE Promise!StoreNext \/ Stutter
    <3> DEFINE open == bundles[i].backup
    <3>1. /\ i = Last /\ Promised = Store!Restored(project, open)
          /\ Promised' = Store!Restored(project', open) /\ open \in Store!Backups
      <4>1. i = Last /\ Promised = Store!Restored(project, open)
        BY <1>t, <2>7, PromisedIs
      <4>2. bundles' = bundles /\ DOMAIN bundles' = DOMAIN bundles /\ Open(bundles'[i])
        BY <2>2, <2>7
      <4>3. Promised' = Store!Restored(project', bundles'[i].backup)
        BY <4>2, PromisedNext DEF IInv
      <4>4. bundles[i] \in Bundles
        BY <1>t
      <4>. QED  BY <4>1, <4>2, <4>3, <4>4 DEF Bundles
    <3>2. CASE file = Manifest \/ file \in open.changed
      <4>1. \A c \in Contracts \ open.changed : project'.schemas[c] = project.schemas[c]
        BY <1>t, <2>5, <3>2 DEF Store!Stores
      <4>2. Promised' = Promised
        BY <1>t, <3>1, <4>1, RestoredAnyway
      <4>3. CASE Undoing' = Undoing
        BY <2>3, <4>2, <4>3 DEF Stutter
      <4>4. CASE Undoing' # Undoing
        <5>1. Undoing = {} /\ Undoing' = {b}
          BY <2>3, <4>4
        <5>2. Promise!StartUndo(b)
          BY <2>3, <4>2, <5>1 DEF Promise!StartUndo
        <5>. QED  BY <1>s, <5>2 DEF Promise!StoreNext
      <4>. QED  BY <4>3, <4>4
    <3>3. CASE file # Manifest /\ file \notin open.changed
      <4>1. file \in Contracts /\ file \in b.changed
        BY <2>4, <3>3
      <4>2. call[p].job = "rollback" /\ Undoing \subseteq {b} /\ Undoing' = {b}
        <5>1. call[p].bundle # Last
          BY <3>1, <3>3, <4>1 DEF Bundle
        <5>2. call[p].job = "rollback"
          BY <1>t, <2>2, <5>1 DEF Inv, RestoreInv, Begun
        <5>. QED  BY <2>3, <5>2 DEF Wanted
      <4>3. project'.schemas = [project.schemas EXCEPT ![file] = b.schemas[file]]
        BY <1>t, <2>5, <3>3, <4>1 DEF Store!Stores
      <4>4. Store!Overlay(project'.schemas, open.schemas, open.changed)
              = [Store!Overlay(project.schemas, open.schemas, open.changed)
                   EXCEPT ![file] = b.schemas[file]]
        BY <1>t, <3>3, <4>1, <4>3 DEF Store!Overlay, Store!Stores
      <4>5. Promised' = [Promised EXCEPT !.schemas[file] = b.schemas[file]]
        BY <3>1, <4>4 DEF Store!Restored
      <4>6. Promise!RestoreSchema(b, file)
        BY <2>3, <4>1, <4>2, <4>5 DEF Promise!RestoreSchema
      <4>. QED  BY <1>s, <4>1, <4>6 DEF Promise!StoreNext
    <3>. QED  BY <3>2, <3>3
  <2>. QED  BY <2>6, <2>7
<1>3. CASE LogRestored(p)
  <2>1. /\ pc[p] = "restoring" /\ Log(p) /\ UNCHANGED <<project, call>> /\ pc'[p] = "settling"
    BY <1>t, <1>3 DEF LogRestored, Goto
  <2>2. /\ DOMAIN bundles' = DOMAIN bundles
        /\ bundles'[call[p].bundle].wal = Appended(Bundle(p).wal, NextPhase(p))
        /\ \A j \in DOMAIN bundles : bundles'[j].state = bundles[j].state /\ bundles'[j].backup = bundles[j].backup
        /\ \A j \in DOMAIN bundles \ {call[p].bundle} : bundles'[j] = bundles[j]
    BY <1>t, <2>1, LogPut
  <2>3. bundles'[call[p].bundle].wal.phase = "committed" <=> Bundle(p).wal.phase = "committed"
    BY <1>t, <2>1, <2>2, RestoringLog
  <2>4. \A j \in DOMAIN bundles : Open(bundles'[j]) <=> Open(bundles[j])
    BY <1>t, <2>2, <2>3 DEF Open, Bundle
  <2>5. UNCHANGED <<Promised, Saved, Pending>>
    BY <2>1, <2>2, <2>4, PromisedStays, SavedStays
  <2>6. Undoing' = Undoing
    BY <1>t, <1>u, <2>1, <2>2, <2>3 DEF Undoes, Bundle
  <2>. QED  BY <2>5, <2>6 DEF Stutter
<1>4. CASE Settle(p)
  <2>1. /\ pc[p] = "settling" /\ SetState(call[p].bundle, "rolled-back") /\ project' = project
        /\ pc'[p] \in {"recovering", "leaving"}
    BY <1>t, <1>4 DEF Settle, Goto
  <2>2. /\ DOMAIN bundles' = DOMAIN bundles /\ bundles'[call[p].bundle].state = "rolled-back"
        /\ \A j \in DOMAIN bundles : bundles'[j].wal = bundles[j].wal /\ bundles'[j].backup = bundles[j].backup
        /\ \A j \in DOMAIN bundles \ {call[p].bundle} : bundles'[j] = bundles[j]
    BY <1>t, <2>1, StatePut
  <2>3. Saved' = Saved
    BY <1>t, <2>2, SavedStays DEF Bundle
  <2>4. BackAgain(p, Files(b))
    BY <1>t, <1>i, <2>1 DEF Inv, RestoreInv
  <2>5. Promised' = Promised /\ Pending' \in {Pending, {}} /\ Pending' \in {Pending, Pending \ {b}}
    <3>1. CASE Open(Bundle(p))
      <4>1. call[p].bundle = Last /\ Promised = Store!Restored(project, b) /\ Pending = {b}
        BY <1>t, <3>1, PromisedIs, PendingIs DEF Bundle
      <4>2. \A j \in DOMAIN bundles : ~Open(bundles'[j])
        BY <1>t, <2>2, <4>1, PromisedIs DEF Open
      <4>3. Promised' = project /\ Pending' = {}
        BY <2>1, <2>2, <4>2, PromisedNext, PendingNext DEF IInv
      <4>4. project.pins = b.pins /\ \A c \in b.changed : project.schemas[c] = b.schemas[c]
        BY <2>4 DEF BackAgain, Files
      <4>5. Store!Overlay(project.schemas, b.schemas, b.changed) = project.schemas
        BY <1>t, <4>4 DEF Store!Overlay, Store!Stores
      <4>6. project = [pins |-> project.pins, schemas |-> project.schemas]
        BY <1>t DEF Store!Stores
      <4>. QED  BY <4>1, <4>3, <4>4, <4>5, <4>6 DEF Store!Restored
    <3>2. CASE ~Open(Bundle(p))
      <4>1. \A j \in DOMAIN bundles : Open(bundles'[j]) <=> Open(bundles[j])
        BY <2>2, <3>2 DEF Open, Bundle
      <4>. QED  BY <2>1, <2>2, <4>1, PromisedStays
    <3>. QED  BY <3>1, <3>2
  <2>6. Undoing' = {} /\ (Undoing = {} \/ Undoing = {b})
    BY <1>u, <2>1 DEF Undoes
  <2>7. CASE Undoing = {b}
    <3>1. MayEnd(b)
      BY <2>1, <2>4, BackMayEnd
    <3>. QED  BY <2>3, <2>5, <2>6, <2>7, <3>1, EndsUndo
  <2>8. CASE Undoing = {}
    <3>1. CASE Pending' = Pending
      BY <2>3, <2>5, <2>6, <2>8, <3>1 DEF Stutter
    <3>2. CASE Pending' = {}
      <4>1. Promise!Drop
        BY <2>3, <2>5, <2>6, <2>8, <3>2 DEF Promise!Drop
      <4>. QED  BY <4>1 DEF Promise!StoreNext
    <3>. QED  BY <2>5, <3>1, <3>2
  <2>. QED  BY <2>6, <2>7, <2>8
<1>. QED  BY <1>1, <1>2, <1>3, <1>4

(* Failures.  A migration that fails at its commit may have committed, and   *)
(* is then brought back; one that fails earlier leaves an open bundle.      *)
LEMMA FailRefines ==
  ASSUME IInv, IInv', "restore" \notin Hazards, NEW p \in Procs, Undo(p) \/ Fault(p) \/ Crash(p),
         \A q \in Procs \ {p} : pc'[q] = pc[q] /\ call'[q] = call[q]
  PROVE  Promise!StoreNext \/ Stutter
<1> DEFINE b == Bundle(p).backup
<1>t. /\ pc \in [Procs -> Places] /\ call \in [Procs -> CallType] /\ call[p] \in CallType
      /\ bundles \in Seq(Bundles) /\ Inv(p) /\ TypeOK
  BY DEF IInv, TypeOK
<1>c. CutShort(p) /\ project' = project
  BY DEF Undo, Fault, Crash
<1>b. /\ DOMAIN bundles' = DOMAIN bundles
      /\ \A j \in DOMAIN bundles : bundles'[j].state = bundles[j].state /\ bundles'[j].backup = bundles[j].backup
      /\ \A j \in DOMAIN bundles : j # call[p].bundle => bundles'[j] = bundles[j]
      /\ pc[p] # "committing" => \A j \in DOMAIN bundles :
           bundles'[j].wal.phase = "committed" <=> bundles[j].wal.phase = "committed"
  BY <1>c, CutShortPut
<1>s. Saved' = Saved
  BY <1>b, SavedStays
<1>n. CASE pc[p] \notin Inside
  <2>1. Crash(p) /\ pc'[p] = "idle"
    BY <1>t, <1>n DEF Undo, Fault, Crash, Inside, Working, GiveUp, Goto
  <2>2. UNCHANGED <<project, bundles>>
    BY <1>n, <1>c DEF CutShort, Logs, Inside, Working
  <2>3. UNCHANGED <<Promised, Pending>>
    BY <2>2 DEF Promised, Pending, Open
  <2>. QED  BY <1>n, <1>s, <2>1, <2>2, <2>3, SmoothStep DEF Undoes, Inside
<1>i. CASE pc[p] \in Inside
  <2>u. /\ Undoing = IF Undoes(p) THEN {b} ELSE {}
        /\ Undoing' = IF Undoes(p)' THEN {(Bundle(p).backup)'} ELSE {}
    BY <1>i, UndoingIs, UndoingNext
  <2>1. \/ /\ Undo(p) /\ pc[p] \in {"writing", "logging", "committing", "finishing"}
           /\ call'[p].bundle = call[p].bundle
        \/ ~Undo(p) /\ pc'[p] \in {"leaving", "idle"}
    BY <1>t DEF Undo, Fault, Crash, GiveUp, Goto, CallType
  <2>2. ASSUME Undo(p) PROVE Undoing = {} /\ Undoing' = {}
    <3>1. pc[p] \in Working \ {"bundling"}
      BY <2>2 DEF Undo, Working
    <3>2. call[p].bundle \in DOMAIN bundles
      BY <3>1, AtWork
    <3>3. call'[p].bundle = call[p].bundle /\ call'[p].todo = Files(b)
      BY <1>t, <2>2 DEF Undo, CallType
    <3>4. (Bundle(p).backup)' = b
      BY <1>b, <3>2, <3>3 DEF Bundle
    <3>. QED  BY <2>u, <3>1, <3>3, <3>4 DEF Undoes, Working
  <2>3. ASSUME ~Undo(p) PROVE Undoing' = {} /\ Undoing \in {{}, {b}}
    <3>1. pc'[p] \in {"leaving", "idle"}
      BY <1>t, <2>3 DEF Fault, Crash, GiveUp, Goto
    <3>. QED  BY <2>u, <3>1 DEF Undoes
  <2>4. CASE pc[p] # "committing"
    <3>1. \A j \in DOMAIN bundles : Open(bundles'[j]) <=> Open(bundles[j])
      BY <1>b, <2>4 DEF Open
    <3>2. UNCHANGED <<Promised, Pending>>
      BY <1>b, <1>c, <3>1, PromisedStays
    <3>3. CASE Undoing = {b}
      <4>1. Undoing' = {} /\ ~Undo(p) /\ Undoes(p)
        BY <2>2, <2>3, <2>u, <3>3
      <4>2. pc[p] \in {"restoring", "settling"} /\ MayStop(p)
        BY <4>1 DEF Undoes, Fault, Crash
      <4>3. CASE "abandon" \in Hazards
        <5>1. Promise!Abandon(b) /\ b \in Undoing
          BY <1>s, <3>2, <3>3, <4>1, <4>3 DEF Promise!Abandon
        <5>. QED  BY <5>1 DEF Promise!StoreNext
      <4>4. CASE "abandon" \notin Hazards
        <5>1. ~call[p].incomplete /\ call[p].todo # Files(b)
          BY <1>t, <4>1, <4>2 DEF Inv, CallInv, Undoes
        <5>2. \/ Open(Bundle(p)) \/ pc[p] = "settling"
              \/ pc[p] = "restoring" /\ call[p].todo = {}
          BY <4>2, <4>4, <5>1 DEF MayStop, OnItsOwn
        <5>3. Open(Bundle(p)) \/ BackAgain(p, Files(b))
          <6>1. Files(b) \ {} = Files(b)
            OBVIOUS
          <6>. QED  BY <1>t, <5>1, <5>2, <6>1 DEF Inv, RestoreInv
        <5>4. MayEnd(b)
          BY <4>2, <5>3, BackMayEnd
        <5>. QED  BY <1>s, <3>2, <3>3, <4>1, <5>4, EndsUndo
      <4>. QED  BY <4>3, <4>4
    <3>4. CASE Undoing = {}
      BY <1>s, <2>2, <2>3, <3>2, <3>4 DEF Stutter
    <3>. QED  BY <2>2, <2>3, <3>3, <3>4
  <2>5. CASE pc[p] = "committing"
    <3>1. /\ pc[p] \in Working \ {"bundling"} /\ call[p].bundle \in DOMAIN bundles
          /\ Logged(p, "open") /\ Bundle(p).state = "prepared"
      BY <1>t, <2>5, AtWork DEF Working, Inv, WorkInv, Kept
    <3>2. Undoing = {} /\ Undoing' = {}
      BY <2>2, <2>3, <2>5, <2>u DEF Undoes
    <3>3. CASE bundles'[call[p].bundle].wal.phase = "committed"
      BY <1>b, <1>c, <1>s, <2>5, <3>2, <3>3, CommitIsMigration
    <3>4. CASE bundles'[call[p].bundle].wal.phase # "committed"
      <4>1. \A j \in DOMAIN bundles : Open(bundles'[j]) <=> Open(bundles[j])
        BY <1>b, <3>1, <3>4 DEF Open, Bundle, Logged
      <4>2. UNCHANGED <<Promised, Pending>>
        BY <1>b, <1>c, <4>1, PromisedStays
      <4>. QED  BY <1>s, <3>2, <4>2 DEF Stutter
    <3>. QED  BY <3>3, <3>4
  <2>. QED  BY <2>4, <2>5
<1>. QED  BY <1>n, <1>i

(* Every step is one of the abstract specification's, or none.              *)
LEMMA StoreStep ==
  ASSUME "restore" \notin Hazards, IInv, IInv', [Next]_vars
  PROVE  [Promise!StoreNext]_(Promise!storeVars)
<1>s. Stutter => UNCHANGED Promise!storeVars
  BY DEF Stutter, Promise!storeVars
<1>1. CASE UNCHANGED vars
  <2>1. UNCHANGED <<Promised, Saved, Pending>>
    BY <1>1 DEF vars, Promised, Saved, Pending, Open
  <2>2. Undoing' = Undoing
    BY <1>1 DEF vars, Undoing, Bundle
  <2>. QED  BY <1>s, <2>1, <2>2 DEF Stutter
<1>2. ASSUME NEW p \in Procs, Proceed(p) \/ Crash(p)
      PROVE  Promise!StoreNext \/ Stutter
  <2>1. \A q \in Procs \ {p} : pc'[q] = pc[q] /\ call'[q] = call[q]
    BY <1>2, OneMoves DEF IInv
  <2>2. CASE Enter(p) \/ Leave(p) \/ Blocked(p) \/ Revalidate(p)
    BY <2>1, <2>2, EnterStutters
  <2>3. CASE FinishForDead(p) \/ RestoreForDead(p) \/ MakeBundle(p)
    BY <2>1, <2>3, RecoverStutters
  <2>4. CASE Migrating(p) /\ ~MakeBundle(p)
    BY <2>1, <2>4, WorkRefines
  <2>5. CASE CheckBundle(p) \/ Restore(p) \/ LogRestored(p) \/ Settle(p)
    BY <2>1, <2>5, RestoreRefines
  <2>6. CASE Undo(p) \/ Fault(p) \/ Crash(p)
    BY <2>1, <2>6, FailRefines
  <2>7. ~SkipFile(p)
    BY DEF SkipFile
  <2>. QED  BY <1>2, <2>2, <2>3, <2>4, <2>5, <2>6, <2>7 DEF Proceed, Settling, Failing
<1>. QED  BY <1>1, <1>2, <1>s DEF Next

LEMMA StoreStart == Init => Promise!StoreInit
<1> SUFFICES ASSUME Init PROVE Promise!StoreInit
  OBVIOUS
<1>1. Promised = Original /\ Saved = {} /\ Pending = {}
  BY DEF Init, Promised, Saved, Pending
<1>2. Undoing = {}
  BY DEF Init, Undoing
<1>. QED  BY <1>1, <1>2 DEF Promise!StoreInit

(* "Transactional application of a human-reviewed contract migration plan"  *)
(* (migration_apply.py, line 1): whoever dies wherever and whatever write   *)
(* fails, the project is promised to move to a plan's targets in one step,  *)
(* the one that commits, and back, for a rollback or a failure after that   *)
(* step, file after file; unless "abandon" lets that be cut short, with     *)
(* every file of the bundle back in the end.  Restorations are taken not to *)
(* fail: when one does, the project is left mixed ("automatic rollback is   *)
(* incomplete", line 420).                                                 *)
THEOREM MigrationImplementsStore ==
  ASSUME Orderly, "restore" \notin Hazards PROVE Spec => ImplementsMigrationStore
<1>1. IInv /\ IInv' /\ [Next]_vars => [Promise!StoreNext]_(Promise!storeVars)
  BY StoreStep
<1>. QED  BY <1>1, StoreStart, Invariant, PTL DEF Spec, ImplementsMigrationStore, Promise!StoreSpec
=============================================================================
