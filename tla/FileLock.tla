------------------------------ MODULE FileLock -------------------------------
(***************************************************************************)
(* What a lock file promises its users: at most one process holds it, only *)
(* the holder gives it back, and a lock that its holder left behind (by    *)
(* dying, or by an error on the way out) may be reclaimed by the others.   *)
(* CoordinatorLock implements it; Coordinator is built on it.              *)
(***************************************************************************)
CONSTANTS Procs,   \* the processes that use the lock
          Nobody,  \* the holder of a free lock
          Left     \* the holder of a lock that was left behind

VARIABLE holder

Take(p) == holder = Nobody /\ holder' = p

Give(p) == holder = p /\ holder' = Nobody

Leave(p) == holder = p /\ holder' = Left

Reclaim == holder = Left /\ holder' = Nobody

LockInit == holder = Nobody

LockNext == Reclaim \/ \E p \in Procs : Take(p) \/ Give(p) \/ Leave(p)

LockSpec == LockInit /\ [][LockNext]_holder
=============================================================================
