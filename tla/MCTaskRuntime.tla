---------------------------- MODULE MCTaskRuntime ----------------------------
(* Small instances of TaskRuntime for TLC. *)
EXTENDS TaskRuntime, TLC

(* Processes that die and files that cannot be written, but no process that *)
(* outlives its own lock and no two takeovers of one lock at once.         *)
MCHazards == {"crash", "fault"}

(* A dead process and a takeover that races with another. *)
RacyHazards == {"crash", "race"}

MCLeaseSeconds == {1, 2}

MCSymmetry == Permutations(Workers)
=============================================================================
