---------------------------- MODULE MigrationStore ----------------------------
(***************************************************************************)
(* What a contract migration promises: the pins of science-project.yaml    *)
(* and the schemas they name move to a plan's targets all at once, and     *)
(* only from the very contents that were saved before.  Saved contents     *)
(* come back one file after another, for a rollback that was asked for or  *)
(* a migration that failed at its commit, and are all back when it ends,   *)
(* unless it is abandoned half-way.  MigrationApply is shown to implement  *)
(* it.                                                                     *)
(***************************************************************************)
CONSTANTS Contracts,  \* the contracts of a project (campaign, experiment, ...)
          Versions,   \* the versions a contract may be pinned at
          Absent,     \* the schema of a contract that has no file
          Plans,      \* the plans that may be applied, see PlanType
          Original,   \* the project before the first migration
          MayAbandon  \* an undo may end before everything is back

VARIABLES store,   \* the pins and the schemas of the project
          saved,   \* the contents saved so far
          pending, \* those a migration not committed yet goes back to
          undoing  \* those that are being brought back

storeVars == <<store, saved, pending, undoing>>

Stores == [pins : [Contracts -> Versions], schemas : [Contracts -> Versions \cup {Absent}]]

(* The steps of a plan that are "manual": the contracts they change, the    *)
(* pins they start from and the pins they lead to.  The schema of a        *)
(* version is the version itself.                                          *)
PlanType == [changed : SUBSET Contracts, from : [Contracts -> Versions],
             to : [Contracts -> Versions]]

Backups == [changed : SUBSET Contracts, pins : [Contracts -> Versions],
            schemas : [Contracts -> Versions \cup {Absent}]]

(* Every plan saves the manifest, and the schemas it changes. *)
BackupOf(s, plan) ==
  [changed |-> plan.changed, pins |-> s.pins,
   schemas |-> [c \in Contracts |-> IF c \in plan.changed THEN s.schemas[c] ELSE Absent]]

Overlay(old, new, cs) == [c \in Contracts |-> IF c \in cs THEN new[c] ELSE old[c]]

Fits(s, plan) == \A c \in plan.changed : s.pins[c] = plan.from[c]

Migrated(s, plan) ==
  [pins |-> Overlay(s.pins, plan.to, plan.changed),
   schemas |-> Overlay(s.schemas, plan.to, plan.changed)]

Restored(s, b) ==
  [pins |-> b.pins, schemas |-> Overlay(s.schemas, b.schemas, b.changed)]

-----------------------------------------------------------------------------
StoreInit == store = Original /\ saved = {} /\ pending = {} /\ undoing = {}

(* A migration begins when no other is pending and nothing is brought back. *)
Save(plan) ==
  /\ pending = {} /\ undoing = {}
  /\ Fits(store, plan)
  /\ pending' = {BackupOf(store, plan)}
  /\ saved' = saved \cup pending'
  /\ UNCHANGED <<store, undoing>>

Migrate(plan) ==
  /\ pending = {BackupOf(store, plan)}
  /\ Fits(store, plan)
  /\ store' = Migrated(store, plan)
  /\ pending' = {}
  /\ UNCHANGED <<saved, undoing>>

(* A migration that was interrupted or failed: the project is as it was.    *)
Drop == pending' = {} /\ UNCHANGED <<store, saved, undoing>>

(* One undo goes on at a time.  The first file it brings back may be one     *)
(* that a pending migration goes back to anyway.                            *)
StartUndo(b) ==
  /\ undoing = {} /\ undoing' = {b}
  /\ UNCHANGED <<store, saved, pending>>

RestorePins(b) ==
  /\ undoing \subseteq {b} /\ undoing' = {b}
  /\ store' = [store EXCEPT !.pins = b.pins]
  /\ UNCHANGED <<saved, pending>>

RestoreSchema(b, c) ==
  /\ undoing \subseteq {b} /\ undoing' = {b}
  /\ c \in b.changed
  /\ store' = [store EXCEPT !.schemas[c] = b.schemas[c]]
  /\ UNCHANGED <<saved, pending>>

(* Everything is back, but for what a pending migration goes back to.       *)
EndUndo(b) ==
  /\ \/ store = Restored(store, b)
     \/ \E w \in pending : store = Restored(Restored(store, b), w)
  /\ undoing' = undoing \ {b}
  /\ pending' \in {pending, pending \ {b}}
  /\ UNCHANGED <<store, saved>>

Abandon(b) ==
  /\ MayAbandon
  /\ undoing' = undoing \ {b}
  /\ UNCHANGED <<store, saved, pending>>

StoreNext ==
  \/ \E plan \in Plans : Save(plan) \/ Migrate(plan)
  \/ Drop
  \/ \E b \in saved :
        StartUndo(b) \/ RestorePins(b) \/ \E c \in b.changed : RestoreSchema(b, c)
  \/ \E b \in undoing : EndUndo(b) \/ Abandon(b)

StoreSpec == StoreInit /\ [][StoreNext]_storeVars
=============================================================================
