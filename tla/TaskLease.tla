------------------------------ MODULE TaskLease ------------------------------
(***************************************************************************)
(* What TaskRuntime promises about one campaign task: a lease that is      *)
(* read, decided on and replaced in one indivisible step.  There are no    *)
(* lock files, no half-finished calls and no crashes here; TaskRuntime is  *)
(* shown to implement this specification.                                  *)
(***************************************************************************)
EXTENDS Integers

CONSTANTS Workers,       \* the worker ids that call the runtime
          NoWorker,      \* the worker of a task nobody has claimed yet
          LeaseSeconds,  \* the lease lengths a caller may ask for
          Outcomes,      \* the outcomes a release may record
          MaxTime        \* bound: the last instant of a run

VARIABLES now,    \* the wall clock of the host
          lease   \* the contents of tasks/<id>.json

leaseVars == <<now, lease>>

(* The file before the first claim: _read returns None, attempt counts as 0. *)
NoLease == [status |-> "absent", worker |-> NoWorker, token |-> 0,
            expires |-> 0, attempt |-> 0]

Leases == [status  : {"absent", "leased"} \cup Outcomes,
           worker  : Workers \cup {NoWorker},
           token   : Nat,
           expires : Nat,
           attempt : Nat]

(* A lease is live at an instant when it is held and has not expired by it. *)
Live(l, at) == l.status = "leased" /\ l.expires > at

Claimed(l, w, token, at, secs) ==
  [status |-> "leased", worker |-> w, token |-> token,
   expires |-> at + secs, attempt |-> l.attempt + 1]

Extended(l, at, secs) == [l EXCEPT !.expires = at + secs]

Ended(l, outcome) == [l EXCEPT !.status = outcome]

-----------------------------------------------------------------------------
LeaseInit == now = 0 /\ lease = NoLease

(* A claim succeeds on a task with no live lease, and draws a token never   *)
(* used before.  The instant it judges by was read a little earlier than   *)
(* the step, hence "at most now".                                          *)
ClaimLease(w) ==
  \E at \in 0..now, secs \in LeaseSeconds :
     /\ ~Live(lease, at)
     /\ lease'.token \in Nat
     /\ lease'.token > lease.token
     /\ lease' = Claimed(lease, w, lease'.token, at, secs)
     /\ UNCHANGED now

(* Only the worker that holds the live lease extends it. *)
ExtendLease(w) ==
  \E at \in 0..now, secs \in LeaseSeconds :
     /\ Live(lease, at)
     /\ lease.worker = w
     /\ lease' = Extended(lease, at, secs)
     /\ UNCHANGED now

(* Only the worker that holds the live lease ends it. *)
EndLease(w) ==
  \E at \in 0..now, outcome \in Outcomes :
     /\ Live(lease, at)
     /\ lease.worker = w
     /\ lease' = Ended(lease, outcome)
     /\ UNCHANGED now

Pass == now < MaxTime /\ now' = now + 1 /\ UNCHANGED lease

LeaseNext ==
  \/ \E w \in Workers : ClaimLease(w) \/ ExtendLease(w) \/ EndLease(w)
  \/ Pass

LeaseSpec == LeaseInit /\ [][LeaseNext]_leaseVars
=============================================================================
