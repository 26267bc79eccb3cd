----------------------------- MODULE TaskRuntime -----------------------------
(***************************************************************************)
(* science_repo/task_runtime.py: the lease of ONE campaign task, kept in    *)
(* tasks/<id>.json, its lock file tasks/<id>.lock and its records in        *)
(* events.jsonl.  Tasks share no state but the append-only log, so the      *)
(* lease of each is an instance of this module.                             *)
(*                                                                          *)
(* A call (claim, heartbeat, release) is a sequence of steps, in the order  *)
(* of the code: lock, clock, read and decide, replace the state file,       *)
(* append to the log, unlock.  Calls of different workers interleave        *)
(* between any two of them, and a process may die between any two of them.  *)
(***************************************************************************)
EXTENDS Integers

CONSTANTS Workers,         \* worker ids; each has at most one call running
          NoWorker,        \* the worker of a task nobody has claimed yet
          LeaseSeconds,    \* the lease lengths a caller may ask for
          Outcomes,        \* the outcomes a release may record
          StaleLockAfter,  \* the age past which a lock file is taken over
          MaxTime,         \* bound: the last instant of a run
          MaxTokens,       \* bound: how many tokens may be drawn
          Hazards          \* what the environment may do, see below

(* "crash": a process may die inside a call.                               *)
(* "slow" : a process may stay inside the lock for longer than             *)
(*          StaleLockAfter, so that others find the lock it holds stale.   *)
(* "race" : other workers may run between the age test of a stale lock     *)
(*          and the unlink that follows it.                                *)
(* "fault": writing a file may fail; the call then raises.                  *)
AllHazards == {"crash", "slow", "race", "fault"}

VARIABLES now,      \* the wall clock of the host
          task,     \* the contents of tasks/<id>.json
          lock,     \* the mtime of tasks/<id>.lock, or NoLock
          audited,  \* the state in the task's last record in events.jsonl
          tokens,   \* how many tokens (uuid4) were drawn so far
          pc,       \* where each worker's call stands
          call,     \* the arguments and locals of each worker's call
          cap       \* the capability each worker was handed last

vars == <<now, task, lock, audited, tokens, pc, call, cap>>

Lease == INSTANCE TaskLease WITH lease <- task

ASSUME RuntimeAssumption ==
  /\ NoWorker \notin Workers
  /\ LeaseSeconds \subseteq Nat \ {0}
  /\ Outcomes \subseteq STRING
  /\ "absent" \notin Outcomes
  /\ StaleLockAfter \in Nat
  /\ MaxTime \in Nat
  /\ MaxTokens \in Nat
  /\ Hazards \subseteq AllHazards

-----------------------------------------------------------------------------
NoLock == -1

Kinds == {"claim", "heartbeat", "release"}

(* Where a call stands: waiting for the lock; about to unlink a lock it    *)
(* found stale; and, inside the lock: before reading the clock, before     *)
(* reading the state, before replacing it, before the log record, before   *)
(* the unlink of the lock.                                                 *)
Inside == {"entered", "clocked", "writing", "auditing", "leaving"}
Places == {"idle", "trying", "stale"} \cup Inside

NoCall == [kind |-> "claim", token |-> 0, secs |-> 0, outcome |-> "absent",
           at |-> 0, new |-> Lease!NoLease, ok |-> FALSE]
NoCap == [token |-> 0, until |-> 0]

Calls == [kind : Kinds, token : Nat, secs : Nat, outcome : {"absent"} \cup Outcomes,
          at : Nat, new : Lease!Leases, ok : BOOLEAN]
Caps == [token : Nat, until : Nat]

InLock(w) == pc[w] \in Inside

Init ==
  /\ now = 0
  /\ task = Lease!NoLease
  /\ lock = NoLock
  /\ audited = Lease!NoLease
  /\ tokens = 0
  /\ pc = [w \in Workers |-> "idle"]
  /\ call = [w \in Workers |-> NoCall]
  /\ cap = [w \in Workers |-> NoCap]

-----------------------------------------------------------------------------
(* The calls.  A worker presents the token it was handed last, which may   *)
(* long be superseded.                                                     *)

Begin(w, c) ==
  /\ pc[w] = "idle"
  /\ pc' = [pc EXCEPT ![w] = "trying"]
  /\ call' = [call EXCEPT ![w] = c]
  /\ UNCHANGED <<now, task, lock, audited, tokens>>

Claim(w) ==
  /\ tokens < MaxTokens
  /\ \E secs \in LeaseSeconds : Begin(w, [NoCall EXCEPT !.secs = secs])
  /\ UNCHANGED cap

(* While a heartbeat is under way the worker counts on no more than the    *)
(* shorter of the old lease and the one it asks for.                       *)
Heartbeat(w) ==
  /\ cap[w].token # 0
  /\ \E secs \in LeaseSeconds :
        /\ Begin(w, [NoCall EXCEPT !.kind = "heartbeat", !.token = cap[w].token,
                                   !.secs = secs])
        /\ cap' = [cap EXCEPT ![w].until =
                      IF now + secs < cap[w].until THEN now + secs ELSE cap[w].until]

(* A worker stops relying on its lease before it asks to end it. *)
Release(w) ==
  /\ cap[w].token # 0
  /\ \E outcome \in Outcomes :
        Begin(w, [NoCall EXCEPT !.kind = "release", !.token = cap[w].token,
                                !.outcome = outcome])
  /\ cap' = [cap EXCEPT ![w].until = 0]

-----------------------------------------------------------------------------
(* _lock: the lock file.                                                   *)

(* Mutant: a lock that is only just old enough counts as stale. *)
StaleTooSoon == now - lock >= StaleLockAfter

Stale == now - lock > StaleLockAfter

(* O_CREAT | O_EXCL succeeds exactly when there is no file. *)
Acquire(w) ==
  /\ pc[w] = "trying"
  /\ lock = NoLock
  /\ lock' = now
  /\ pc' = [pc EXCEPT ![w] = "entered"]
  /\ UNCHANGED <<now, task, audited, tokens, call, cap>>

FindStale(w) ==
  /\ pc[w] = "trying"
  /\ lock # NoLock
  /\ Stale
  /\ pc' = [pc EXCEPT ![w] = "stale"]
  /\ UNCHANGED <<now, task, lock, audited, tokens, call, cap>>

(* Mutant: goes back to waiting without the unlink. *)
TakeOverWithoutUnlink(w) ==
  /\ pc[w] = "stale"
  /\ pc' = [pc EXCEPT ![w] = "trying"]
  /\ UNCHANGED <<now, task, lock, audited, tokens, call, cap>>

(* The unlink goes by the path alone: whatever file is there by now goes,  *)
(* and a missing one is no error.                                          *)
TakeOver(w) ==
  /\ pc[w] = "stale"
  /\ lock' = NoLock
  /\ pc' = [pc EXCEPT ![w] = "trying"]
  /\ UNCHANGED <<now, task, audited, tokens, call, cap>>

(* The lock file is there, is not stale and the deadline has passed: the   *)
(* call raises LockTimeout.  The deadline may pass at any time.            *)
TimeOut(w) ==
  /\ pc[w] = "trying"
  /\ lock # NoLock
  /\ ~Stale
  /\ pc' = [pc EXCEPT ![w] = "idle"]
  /\ call' = [call EXCEPT ![w] = NoCall]
  /\ UNCHANGED <<now, task, lock, audited, tokens, cap>>

(* The finally clause unlinks the path, whoever created the file, and the  *)
(* call returns or raises.                                                 *)
Unlock(w) ==
  /\ pc[w] = "leaving"
  /\ lock' = NoLock
  /\ pc' = [pc EXCEPT ![w] = "idle"]
  /\ call' = [call EXCEPT ![w] = NoCall]
  /\ cap' = IF call[w].ok /\ call[w].kind # "release"
            THEN [cap EXCEPT ![w] = [token |-> call[w].new.token,
                                     until |-> call[w].new.expires]]
            ELSE cap
  /\ UNCHANGED <<now, task, audited, tokens>>

-----------------------------------------------------------------------------
(* Inside the lock.                                                        *)

ReadClock(w) ==
  /\ pc[w] = "entered"
  /\ pc' = [pc EXCEPT ![w] = "clocked"]
  /\ call' = [call EXCEPT ![w].at = now]
  /\ UNCHANGED <<now, task, lock, audited, tokens, cap>>

(* Mutant: _require_live forgets to compare worker and token. *)
PermitsAnyCaller(w, t) == (call[w].kind # "claim") = Lease!Live(t, call[w].at)

(* claim wants no live lease; _require_live wants a live one held by the   *)
(* caller under the token it presents.                                     *)
Permits(w, t) ==
  IF call[w].kind = "claim"
  THEN ~Lease!Live(t, call[w].at)
  ELSE /\ Lease!Live(t, call[w].at)
       /\ t.worker = w
       /\ t.token = call[w].token

(* Mutant: every claim starts counting attempts afresh. *)
NewStateFirstAttempt(w, t) ==
  CASE call[w].kind = "claim" ->
         Lease!Claimed(Lease!NoLease, w, tokens + 1, call[w].at, call[w].secs)
    [] call[w].kind = "heartbeat" -> Lease!Extended(t, call[w].at, call[w].secs)
    [] call[w].kind = "release" -> Lease!Ended(t, call[w].outcome)

(* Mutant: a heartbeat moves the expiry the wrong way. *)
NewStateBackwards(w, t) ==
  CASE call[w].kind = "claim" ->
         Lease!Claimed(t, w, tokens + 1, call[w].at, call[w].secs)
    [] call[w].kind = "heartbeat" -> Lease!Extended(t, call[w].at, -call[w].secs)
    [] call[w].kind = "release" -> Lease!Ended(t, call[w].outcome)

NewState(w, t) ==
  CASE call[w].kind = "claim" ->
         Lease!Claimed(t, w, tokens + 1, call[w].at, call[w].secs)
    [] call[w].kind = "heartbeat" -> Lease!Extended(t, call[w].at, call[w].secs)
    [] call[w].kind = "release" -> Lease!Ended(t, call[w].outcome)

(* _read, the decision on what was read, and the state to be written. *)
Decide(w) ==
  /\ pc[w] = "clocked"
  /\ Permits(w, task)
  /\ pc' = [pc EXCEPT ![w] = "writing"]
  /\ call' = [call EXCEPT ![w].new = NewState(w, task)]
  /\ tokens' = IF call[w].kind = "claim" THEN tokens + 1 ELSE tokens
  /\ UNCHANGED <<now, task, lock, audited, cap>>

(* LeaseConflict: nothing is written. *)
Refuse(w) ==
  /\ pc[w] = "clocked"
  /\ ~Permits(w, task)
  /\ pc' = [pc EXCEPT ![w] = "leaving"]
  /\ UNCHANGED <<now, task, lock, audited, tokens, call, cap>>

(* Mutant: the lock is dropped as soon as the state file is replaced. *)
WriteAndUnlock(w) ==
  /\ pc[w] = "writing"
  /\ task' = call[w].new
  /\ lock' = NoLock
  /\ pc' = [pc EXCEPT ![w] = "auditing"]
  /\ UNCHANGED <<now, audited, tokens, call, cap>>

(* _write: the temporary file replaces the state file in one step. *)
Write(w) ==
  /\ pc[w] = "writing"
  /\ task' = call[w].new
  /\ pc' = [pc EXCEPT ![w] = "auditing"]
  /\ UNCHANGED <<now, lock, audited, tokens, call, cap>>

(* _audit appends the state this call wrote. *)
Audit(w) ==
  /\ pc[w] = "auditing"
  /\ audited' = call[w].new
  /\ pc' = [pc EXCEPT ![w] = "leaving"]
  /\ call' = [call EXCEPT ![w].ok = TRUE]
  /\ UNCHANGED <<now, task, lock, tokens, cap>>

(* _write or _audit raises: the call leaves the lock with an error, and     *)
(* what it wrote before that stays.                                        *)
Fault(w) ==
  /\ "fault" \in Hazards
  /\ pc[w] \in {"writing", "auditing"}
  /\ pc' = [pc EXCEPT ![w] = "leaving"]
  /\ UNCHANGED <<now, task, lock, audited, tokens, call, cap>>

-----------------------------------------------------------------------------
(* The environment.                                                        *)

(* The process dies inside a call: its lock file stays, its caller learns  *)
(* nothing.                                                                *)
Crash(w) ==
  /\ "crash" \in Hazards
  /\ pc[w] # "idle"
  /\ pc' = [pc EXCEPT ![w] = "idle"]
  /\ call' = [call EXCEPT ![w] = NoCall]
  /\ UNCHANGED <<now, task, lock, audited, tokens, cap>>

(* Unless processes may be slow, nobody is left inside the lock for longer *)
(* than StaleLockAfter.                                                    *)
Tick ==
  /\ now < MaxTime
  /\ "slow" \in Hazards \/ \A w \in Workers : InLock(w) => now - lock < StaleLockAfter
  /\ now' = now + 1
  /\ UNCHANGED <<task, lock, audited, tokens, pc, call, cap>>

(* Unless takeovers may race, nobody else runs between a takeover's two    *)
(* steps.                                                                  *)
MayRun(w) == "race" \in Hazards \/ \A v \in Workers \ {w} : pc[v] # "stale"

Proceed(w) ==
  /\ MayRun(w)
  /\ \/ Acquire(w) \/ FindStale(w) \/ TakeOver(w) \/ TimeOut(w)
     \/ ReadClock(w) \/ Decide(w) \/ Refuse(w)
     \/ Write(w) \/ Audit(w) \/ Fault(w) \/ Unlock(w)

Start(w) == MayRun(w) /\ (Claim(w) \/ Heartbeat(w) \/ Release(w))

Next ==
  \/ \E w \in Workers : Start(w) \/ Proceed(w) \/ Crash(w)
  \/ Tick

Spec == Init /\ [][Next]_vars

(* A call that was started keeps running: the operating system schedules   *)
(* every process.  Nothing obliges a worker to call, to crash or not to.   *)
FairSpec == Spec /\ \A w \in Workers : WF_vars(Proceed(w))

-----------------------------------------------------------------------------
TypeOK ==
  /\ now \in Nat
  /\ task \in Lease!Leases
  /\ lock \in Nat \cup {NoLock}
  /\ audited \in Lease!Leases
  /\ tokens \in Nat
  /\ pc \in [Workers -> Places]
  /\ call \in [Workers -> Calls]
  /\ cap \in [Workers -> Caps]

(* At most one call is inside the task's lock: "State replacement and      *)
(* audit appends happen while holding the same per-task exclusive lock"    *)
(* (task_runtime.py, lines 5-6).                                           *)
ExclusiveLock == \A v, w \in Workers : InLock(v) /\ InLock(w) => v = w

(* A worker relies on a lease from the claim or heartbeat that returned it *)
(* until the instant it was told, unless it has asked to end it.           *)
Relies(w) == cap[w].token # 0 /\ now < cap[w].until

(* No two workers rely on leases of the task at the same time, whatever    *)
(* calls were refused, timed out or died half-way: "they do not prevent    *)
(* two workers from claiming the same task or an expired worker from       *)
(* submitting as the current owner" is what ADR 0004 set out to end.       *)
OneHolder == \A v, w \in Workers : Relies(v) /\ Relies(w) => v = w

(* A record appended to the log carries the state the task file has at     *)
(* that moment: no other call replaces the file between a call's write and *)
(* its record.                                                             *)
AuditMatchesState == [][audited' # audited => audited' = task]_vars

(* The runtime implements the indivisible lease. *)
ImplementsTaskLease == Lease!LeaseSpec

(* A call that waits on a stale lock does not wait for good: the lock is    *)
(* removed, unless the call dies first.  So a lock left behind by a crash  *)
(* blocks the task only until somebody wants it.                           *)
StaleLockCleared ==
  \A w \in Workers :
     (lock # NoLock /\ Stale /\ pc[w] \in {"trying", "stale"})
        ~> (lock = NoLock \/ pc[w] = "idle")
=============================================================================
