------------------------- MODULE MCCoordinatorLock --------------------------
(* CoordinatorLock on small instances. *)
EXTENDS CoordinatorLock

MCHazards == {"crash", "fault"}
=============================================================================
