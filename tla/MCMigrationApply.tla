-------------------------- MODULE MCMigrationApply --------------------------
(* MigrationApply on small instances: a project without schemas of its own, *)
(* a plan that copies one schema and moves one pin, and a plan that builds *)
(* on it.                                                                  *)
EXTENDS MigrationApply, TLC

CONSTANTS p1, p2

MCOriginal == [pins |-> [c \in Contracts |-> 1], schemas |-> [c \in Contracts |-> Absent]]

First == [changed |-> {"campaign", "handoff"},
          from |-> [c \in Contracts |-> 1],
          to |-> [c \in Contracts |-> IF c = "handoff" THEN 2 ELSE 1]]
Second == [changed |-> {"campaign"},
           from |-> [c \in Contracts |-> 1],
           to |-> [c \in Contracts |-> 2]]

MCPlans == {First, Second}

(* For disks that fail on the way back, too: a plan moves one contract.    *)
BriefPlans == {[First EXCEPT !.changed = {"handoff"}], Second}

MCHazards == {"crash", "fault"}
BadDisk == {"crash", "fault", "restore", "abandon"}
WornDisk == {"fault", "restore", "abandon"}

MCSymmetry == Permutations({p1, p2})
=============================================================================
