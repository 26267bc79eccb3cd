-------------------------- MODULE TaskRuntimeProofs --------------------------
(***************************************************************************)
(* What TaskRuntime guarantees for every set of workers, every lease        *)
(* length, every age limit and every bound of the model.                    *)
(***************************************************************************)
EXTENDS TaskRuntime, TLAPS

(* No process outlives its own lock and no two takeovers race; processes   *)
(* may die and writes may fail.                                            *)
Disciplined == "slow" \notin Hazards /\ "race" \notin Hazards

LEMMA NoLeaseIsLease == Lease!NoLease \in Lease!Leases
  BY DEF Lease!NoLease, Lease!Leases

LEMMA NoCallIsCall == NoCall \in Calls
  BY NoLeaseIsLease DEF NoCall, Calls, Kinds

(* The state a call is about to write is a state of the file. *)
LEMMA NewStateType ==
  ASSUME TypeOK, NEW w \in Workers
  PROVE  NewState(w, task) \in Lease!Leases
  <1>. /\ call[w].at \in Nat /\ call[w].secs \in Nat
       /\ call[w].outcome \in {"absent"} \cup Outcomes
       /\ call[w].kind \in Kinds
       /\ task \in Lease!Leases /\ tokens \in Nat
    BY DEF TypeOK, Calls
  <1>1. CASE call[w].kind = "claim"
    BY <1>1 DEF NewState, Lease!Claimed, Lease!Leases
  <1>2. CASE call[w].kind = "heartbeat"
    BY <1>2 DEF NewState, Lease!Extended, Lease!Leases
  <1>3. CASE call[w].kind = "release"
    BY <1>3 DEF NewState, Lease!Ended, Lease!Leases
  <1>. QED  BY <1>1, <1>2, <1>3 DEF Kinds

(* Type correctness: whatever the hazards, every variable keeps its type. *)
THEOREM TypeCorrect == Spec => []TypeOK
  <1>1. Init => TypeOK
    BY NoLeaseIsLease, NoCallIsCall DEF Init, TypeOK, Caps, NoCap, Places, NoLock
  <1>2. TypeOK /\ [Next]_vars => TypeOK'
    <2> SUFFICES ASSUME TypeOK, [Next]_vars PROVE TypeOK'
      OBVIOUS
    <2> USE DEF TypeOK
    <2>1. ASSUME NEW w \in Workers, Claim(w) PROVE TypeOK'
      <3>1. PICK secs \in LeaseSeconds : Begin(w, [NoCall EXCEPT !.secs = secs])
        BY <2>1 DEF Claim
      <3>2. [NoCall EXCEPT !.secs = secs] \in Calls
        BY NoCallIsCall, RuntimeAssumption DEF Calls, NoCall
      <3>. QED  BY <2>1, <3>1, <3>2 DEF Claim, Begin, Places
    <2>2. ASSUME NEW w \in Workers, Heartbeat(w) PROVE TypeOK'
      <3>1. PICK secs \in LeaseSeconds :
              /\ Begin(w, [NoCall EXCEPT !.kind = "heartbeat", !.token = cap[w].token,
                                         !.secs = secs])
              /\ cap' = [cap EXCEPT ![w].until =
                            IF now + secs < cap[w].until THEN now + secs ELSE cap[w].until]
        BY <2>2 DEF Heartbeat
      <3>2. [NoCall EXCEPT !.kind = "heartbeat", !.token = cap[w].token, !.secs = secs]
              \in Calls
        BY NoCallIsCall, RuntimeAssumption DEF Calls, NoCall, Kinds, Caps
      <3>3. cap' \in [Workers -> Caps]
        BY <3>1, RuntimeAssumption DEF Caps
      <3>. QED  BY <3>1, <3>2, <3>3 DEF Begin, Places
    <2>3. ASSUME NEW w \in Workers, Release(w) PROVE TypeOK'
      <3>1. PICK outcome \in Outcomes :
              Begin(w, [NoCall EXCEPT !.kind = "release", !.token = cap[w].token,
                                      !.outcome = outcome])
        BY <2>3 DEF Release
      <3>2. [NoCall EXCEPT !.kind = "release", !.token = cap[w].token, !.outcome = outcome]
              \in Calls
        BY NoCallIsCall DEF Calls, NoCall, Kinds, Caps
      <3>3. cap' \in [Workers -> Caps]
        BY <2>3 DEF Release, Caps
      <3>. QED  BY <3>1, <3>2, <3>3 DEF Begin, Places
    <2>4. ASSUME NEW w \in Workers, Acquire(w) PROVE TypeOK'
      BY <2>4 DEF Acquire, Places, Inside
    <2>5. ASSUME NEW w \in Workers, FindStale(w) PROVE TypeOK'
      BY <2>5 DEF FindStale, Places
    <2>6. ASSUME NEW w \in Workers, TakeOver(w) PROVE TypeOK'
      BY <2>6 DEF TakeOver, Places
    <2>7. ASSUME NEW w \in Workers, TimeOut(w) PROVE TypeOK'
      BY <2>7, NoCallIsCall DEF TimeOut, Places
    <2>8. ASSUME NEW w \in Workers, ReadClock(w) PROVE TypeOK'
      BY <2>8 DEF ReadClock, Places, Inside, Calls
    <2>9. ASSUME NEW w \in Workers, Decide(w) PROVE TypeOK'
      <3>1. NewState(w, task) \in Lease!Leases
        BY NewStateType
      <3>2. call' \in [Workers -> Calls]
        BY <2>9, <3>1 DEF Decide, Calls
      <3>. QED  BY <2>9, <3>2 DEF Decide, Places, Inside
    <2>10. ASSUME NEW w \in Workers, Refuse(w) PROVE TypeOK'
      BY <2>10 DEF Refuse, Places, Inside
    <2>11. ASSUME NEW w \in Workers, Write(w) PROVE TypeOK'
      BY <2>11 DEF Write, Places, Inside, Calls
    <2>12. ASSUME NEW w \in Workers, Audit(w) PROVE TypeOK'
      BY <2>12 DEF Audit, Places, Inside, Calls
    <2>13. ASSUME NEW w \in Workers, Fault(w) PROVE TypeOK'
      BY <2>13 DEF Fault, Places, Inside
    <2>14. ASSUME NEW w \in Workers, Unlock(w) PROVE TypeOK'
      BY <2>14, NoCallIsCall DEF Unlock, Places, Calls, Caps, Lease!Leases
    <2>15. ASSUME NEW w \in Workers, Crash(w) PROVE TypeOK'
      BY <2>15, NoCallIsCall DEF Crash, Places
    <2>16. CASE Tick
      BY <2>16 DEF Tick
    <2>17. CASE UNCHANGED vars
      BY <2>17 DEF vars
    <2>. QED
      BY <2>1, <2>2, <2>3, <2>4, <2>5, <2>6, <2>7, <2>8, <2>9, <2>10, <2>11, <2>12,
         <2>13, <2>14, <2>15, <2>16, <2>17 DEF Next, Start, Proceed
  <1>. QED  BY <1>1, <1>2, PTL DEF Spec

-----------------------------------------------------------------------------
(* The lock.  ExclusiveLock is not inductive alone: the lock of the call    *)
(* inside it must exist and be young enough for nobody to find it stale,   *)
(* and a call about to unlink a stale lock must be alone and still right.  *)
LockInv ==
  /\ ExclusiveLock
  /\ \A w \in Workers : InLock(w) => lock # NoLock /\ now - lock <= StaleLockAfter
  /\ \A w \in Workers : pc[w] = "stale" => lock # NoLock /\ now - lock > StaleLockAfter
  /\ \A v, w \in Workers : pc[v] = "stale" /\ pc[w] = "stale" => v = w

LEMMA LockInvInit == Init => LockInv
  BY DEF Init, LockInv, ExclusiveLock, InLock, Inside

LEMMA LockInvStep ==
  ASSUME Disciplined, TypeOK, LockInv, [Next]_vars
  PROVE  LockInv'
  <1>. USE DEF LockInv, ExclusiveLock, InLock, Inside
  <1>. /\ pc \in [Workers -> Places] /\ now \in Nat /\ lock \in Nat \cup {NoLock}
       /\ StaleLockAfter \in Nat /\ "slow" \notin Hazards /\ "race" \notin Hazards
    BY RuntimeAssumption DEF TypeOK, Disciplined
  <1>1. ASSUME NEW w \in Workers, NEW c, Begin(w, c) PROVE LockInv'
    BY <1>1 DEF Begin
  <1>2. ASSUME NEW w \in Workers, Acquire(w) PROVE LockInv'
    BY <1>2 DEF Acquire, NoLock
  <1>3. ASSUME NEW w \in Workers, MayRun(w), FindStale(w) PROVE LockInv'
    BY <1>3 DEF FindStale, MayRun, Stale
  <1>4. ASSUME NEW w \in Workers, TakeOver(w) PROVE LockInv'
    BY <1>4 DEF TakeOver
  <1>5. ASSUME NEW w \in Workers, TimeOut(w) \/ Crash(w) PROVE LockInv'
    BY <1>5 DEF TimeOut, Crash
  <1>6. ASSUME NEW w \in Workers,
               ReadClock(w) \/ Decide(w) \/ Refuse(w) \/ Write(w) \/ Audit(w) \/ Fault(w)
        PROVE  LockInv'
    BY <1>6 DEF ReadClock, Decide, Refuse, Write, Audit, Fault
  <1>7. ASSUME NEW w \in Workers, Unlock(w) PROVE LockInv'
    BY <1>7 DEF Unlock
  <1>8. CASE Tick
    BY <1>8 DEF Tick, NoLock
  <1>9. CASE UNCHANGED vars
    BY <1>9 DEF vars
  <1>. QED
    BY <1>1, <1>2, <1>3, <1>4, <1>5, <1>6, <1>7, <1>8, <1>9
    DEF Next, Start, Proceed, Claim, Heartbeat, Release

(* At most one call at a time is inside the lock of a task, however many   *)
(* workers contend for it and die in it: the exclusive lock the module's   *)
(* first comment speaks of.                                                *)
THEOREM LockIsExclusive ==
  ASSUME Disciplined
  PROVE  Spec => []ExclusiveLock
  <1>1. LockInv => ExclusiveLock
    BY DEF LockInv
  <1>. QED  BY <1>1, LockInvInit, LockInvStep, TypeCorrect, PTL DEF Spec

-----------------------------------------------------------------------------
(* The calls.  Inside the lock the state file is what the call last read    *)
(* or wrote, which is what makes its decision still good when it acts.     *)

(* What the call is about to write follows from what is in the file now. *)
Planned(w) ==
  /\ Permits(w, task)
  /\ call[w].kind = "claim" =>
        /\ call[w].new = Lease!Claimed(task, w, call[w].new.token, call[w].at, call[w].secs)
        /\ call[w].new.token > task.token
  /\ call[w].kind = "heartbeat" =>
        call[w].new = Lease!Extended(task, call[w].at, call[w].secs)
  /\ call[w].kind = "release" => call[w].new = Lease!Ended(task, call[w].outcome)

(* What the call wrote is what is in the file. *)
Done(w) ==
  /\ task = call[w].new
  /\ call[w].kind # "release" => task.status = "leased" /\ task.worker = w

Arguments(w) ==
  /\ call[w].kind # "release" => call[w].secs \in LeaseSeconds
  /\ call[w].kind = "release" => call[w].outcome \in Outcomes

CallInv ==
  \A w \in Workers :
     /\ pc[w] # "idle" => Arguments(w)
     /\ pc[w] \in {"clocked", "writing"} => call[w].at <= now
     /\ pc[w] = "writing" => Planned(w)
     /\ pc[w] = "auditing" => Done(w)
     /\ pc[w] = "leaving" /\ call[w].ok => Done(w)
     /\ pc[w] # "leaving" => ~call[w].ok

TokenInv ==
  /\ task.token <= tokens
  /\ \A w \in Workers : pc[w] = "writing" => call[w].new.token <= tokens

(* The holder.  A worker that relies on a lease is the one in the file, for *)
(* at least as long as it thinks.                                          *)
CapInv ==
  \A w \in Workers :
     /\ Relies(w) => /\ task.status = "leased"
                     /\ task.worker = w
                     /\ cap[w].until <= task.expires
     /\ pc[w] \in {"trying", "stale", "entered"} /\ call[w].kind = "heartbeat"
           => cap[w].until <= now + call[w].secs
     /\ pc[w] \in {"clocked", "writing"} /\ call[w].kind = "heartbeat"
           => cap[w].until <= call[w].at + call[w].secs
     /\ pc[w] # "idle" /\ call[w].kind = "release" => cap[w].until = 0

IInv == TypeOK /\ LockInv /\ CallInv /\ TokenInv /\ CapInv

LEMMA CallInvStep ==
  ASSUME Disciplined, TypeOK, LockInv, CallInv, TokenInv, [Next]_vars
  PROVE  CallInv' /\ TokenInv'
  <1>. USE DEF CallInv, TokenInv, Arguments
  <1>. /\ pc \in [Workers -> Places] /\ call \in [Workers -> Calls]
       /\ now \in Nat /\ task \in Lease!Leases /\ tokens \in Nat
    BY DEF TypeOK
  <1>0. \A v, w \in Workers : InLock(v) /\ InLock(w) => v = w
    BY DEF LockInv, ExclusiveLock
  <1>1. ASSUME NEW w \in Workers, Claim(w) PROVE CallInv' /\ TokenInv'
    BY <1>1 DEF Claim, Begin, NoCall, Planned, Done, Permits
  <1>2. ASSUME NEW w \in Workers, Heartbeat(w) PROVE CallInv' /\ TokenInv'
    BY <1>2 DEF Heartbeat, Begin, NoCall, Planned, Done, Permits
  <1>3. ASSUME NEW w \in Workers, Release(w) PROVE CallInv' /\ TokenInv'
    BY <1>3 DEF Release, Begin, NoCall, Planned, Done, Permits
  <1>4. ASSUME NEW w \in Workers, Acquire(w) \/ FindStale(w) \/ TakeOver(w)
        PROVE  CallInv' /\ TokenInv'
    BY <1>4 DEF Acquire, FindStale, TakeOver, Planned, Done, Permits
  <1>5. ASSUME NEW w \in Workers, TimeOut(w) \/ Crash(w) PROVE CallInv' /\ TokenInv'
    BY <1>5 DEF TimeOut, Crash, NoCall, Planned, Done, Permits
  <1>6. ASSUME NEW w \in Workers, ReadClock(w) PROVE CallInv' /\ TokenInv'
    BY <1>6 DEF ReadClock, Planned, Done, Permits, Calls
  <1>7. ASSUME NEW w \in Workers, Decide(w) PROVE CallInv' /\ TokenInv'
    <2>1. pc'[w] = "writing" /\ call'[w] = [call[w] EXCEPT !.new = NewState(w, task)]
          /\ task' = task /\ now' = now
      BY <1>7 DEF Decide
    <2>2. call[w] \in Calls
      OBVIOUS
    <2>3. Planned(w)'
      <3>1. CASE call[w].kind = "claim"
        BY <1>7, <2>1, <2>2, <3>1 DEF Decide, Planned, Permits, NewState, Lease!Claimed, Calls,
           Lease!Leases
      <3>2. CASE call[w].kind = "heartbeat"
        BY <1>7, <2>1, <2>2, <3>2 DEF Decide, Planned, Permits, NewState, Calls
      <3>3. CASE call[w].kind = "release"
        BY <1>7, <2>1, <2>2, <3>3 DEF Decide, Planned, Permits, NewState, Calls
      <3>. QED  BY <2>2, <3>1, <3>2, <3>3 DEF Calls, Kinds
    <2>4. tokens' >= tokens /\ call'[w].new.token <= tokens'
      <3>1. CASE call[w].kind = "claim"
        BY <1>7, <2>1, <2>2, <3>1 DEF Decide, NewState, Lease!Claimed, Calls
      <3>2. CASE call[w].kind = "heartbeat"
        BY <1>7, <2>1, <2>2, <3>2 DEF Decide, NewState, Lease!Extended, Calls, Lease!Leases
      <3>3. CASE call[w].kind = "release"
        BY <1>7, <2>1, <2>2, <3>3 DEF Decide, NewState, Lease!Ended, Calls, Lease!Leases
      <3>. QED  BY <2>2, <3>1, <3>2, <3>3 DEF Calls, Kinds
    <2>5. \A v \in Workers \ {w} : pc'[v] = pc[v] /\ call'[v] = call[v] /\ ~InLock(v)
      BY <1>0, <1>7 DEF Decide, InLock, Inside
    <2>. QED
      BY <1>7, <2>1, <2>2, <2>3, <2>4, <2>5
      DEF Decide, InLock, Inside, Calls, Lease!Leases
  <1>8. ASSUME NEW w \in Workers, Refuse(w) \/ Fault(w) PROVE CallInv' /\ TokenInv'
    BY <1>8 DEF Refuse, Fault, Planned, Done, Permits
  <1>9. ASSUME NEW w \in Workers, Write(w) PROVE CallInv' /\ TokenInv'
    <2>1. Planned(w) /\ Arguments(w) /\ task' = call[w].new /\ call' = call
      BY <1>9 DEF Write
    <2>2. call[w].kind # "release" => call[w].new.status = "leased" /\ call[w].new.worker = w
      <3>1. CASE call[w].kind = "claim"
        BY <2>1, <3>1 DEF Planned, Lease!Claimed
      <3>2. CASE call[w].kind = "heartbeat"
        BY <2>1, <3>2 DEF Planned, Permits, Lease!Live, Lease!Extended, Lease!Leases
      <3>. QED  BY <3>1, <3>2 DEF Calls, Kinds
    <2>3. \A v \in Workers \ {w} : pc'[v] = pc[v] /\ ~InLock(v)
      BY <1>0, <1>9 DEF Write, InLock, Inside
    <2>. QED
      BY <1>9, <2>1, <2>2, <2>3 DEF Write, InLock, Inside, Done
  <1>10. ASSUME NEW w \in Workers, Audit(w) PROVE CallInv' /\ TokenInv'
    BY <1>10 DEF Audit, Planned, Done, Permits, Calls
  <1>11. ASSUME NEW w \in Workers, Unlock(w) PROVE CallInv' /\ TokenInv'
    BY <1>11 DEF Unlock, NoCall, Planned, Done, Permits
  <1>12. CASE Tick
    BY <1>12 DEF Tick, Planned, Done, Permits, Calls
  <1>13. CASE UNCHANGED vars
    BY <1>13 DEF vars, Planned, Done, Permits
  <1>. QED
    BY <1>1, <1>2, <1>3, <1>4, <1>5, <1>6, <1>7, <1>8, <1>9, <1>10, <1>11, <1>12, <1>13
    DEF Next, Start, Proceed

LEMMA CapInvStep ==
  ASSUME Disciplined, TypeOK, LockInv, CallInv, CapInv, [Next]_vars
  PROVE  CapInv'
  <1>. USE DEF CapInv, Relies
  <1>. /\ pc \in [Workers -> Places] /\ call \in [Workers -> Calls]
       /\ now \in Nat /\ task \in Lease!Leases /\ cap \in [Workers -> Caps]
       /\ LeaseSeconds \subseteq Nat
    BY RuntimeAssumption DEF TypeOK
  <1>1. ASSUME NEW w \in Workers, Claim(w) PROVE CapInv'
    BY <1>1 DEF Claim, Begin, NoCall
  <1>2. ASSUME NEW w \in Workers, Heartbeat(w) PROVE CapInv'
    <2>1. PICK secs \in LeaseSeconds :
            /\ Begin(w, [NoCall EXCEPT !.kind = "heartbeat", !.token = cap[w].token,
                                       !.secs = secs])
            /\ cap' = [cap EXCEPT ![w].until =
                          IF now + secs < cap[w].until THEN now + secs ELSE cap[w].until]
      BY <1>2 DEF Heartbeat
    <2>2. /\ pc'[w] = "trying" /\ call'[w].kind = "heartbeat" /\ call'[w].secs = secs
          /\ now' = now /\ task' = task
      BY <2>1 DEF Begin, NoCall
    <2>3. /\ cap'[w].until <= now + secs /\ cap'[w].until <= cap[w].until
          /\ cap'[w].until \in Nat /\ cap[w].until \in Nat
          /\ cap'[w].token = cap[w].token
      BY <2>1 DEF Caps
    <2>4. \A v \in Workers \ {w} : cap'[v] = cap[v] /\ pc'[v] = pc[v] /\ call'[v] = call[v]
      BY <2>1 DEF Begin
    <2>. QED  BY <2>2, <2>3, <2>4 DEF Lease!Leases
  <1>3. ASSUME NEW w \in Workers, Release(w) PROVE CapInv'
    BY <1>3 DEF Release, Begin, NoCall, Caps
  <1>4. ASSUME NEW w \in Workers, Acquire(w) \/ FindStale(w) \/ TakeOver(w) PROVE CapInv'
    BY <1>4 DEF Acquire, FindStale, TakeOver
  <1>5. ASSUME NEW w \in Workers, TimeOut(w) \/ Crash(w) PROVE CapInv'
    BY <1>5 DEF TimeOut, Crash
  <1>6. ASSUME NEW w \in Workers, ReadClock(w) PROVE CapInv'
    BY <1>6 DEF ReadClock, Calls
  <1>7. ASSUME NEW w \in Workers, Decide(w) PROVE CapInv'
    BY <1>7 DEF Decide, Calls
  <1>8. ASSUME NEW w \in Workers, Refuse(w) \/ Audit(w) \/ Fault(w) PROVE CapInv'
    BY <1>8 DEF Refuse, Audit, Fault, Calls
  <1>9. ASSUME NEW w \in Workers, Write(w) PROVE CapInv'
    <2>1. Planned(w) /\ task' = call[w].new /\ call[w].at <= now
      BY <1>9 DEF Write, CallInv
    <2>2. ASSUME NEW v \in Workers, Relies(v)
          PROVE  /\ task'.status = "leased"
                 /\ task'.worker = v
                 /\ cap[v].until <= task'.expires
      <3>1. task.expires > now /\ call[w].at \in Nat /\ task.expires \in Nat
            /\ cap[v].until \in Nat
        BY <2>2 DEF Calls, Lease!Leases, Caps
      <3>2. CASE call[w].kind = "claim"
        BY <2>1, <2>2, <3>1, <3>2 DEF Planned, Permits, Lease!Live
      <3>3. CASE call[w].kind = "heartbeat"
        <4>1. v = w
          BY <2>1, <2>2, <3>3 DEF Planned, Permits
        <4>2. cap[w].until <= call[w].at + call[w].secs
          BY <1>9, <3>3 DEF Write
        <4>. QED
          BY <2>1, <2>2, <3>3, <4>1, <4>2 DEF Planned, Lease!Extended, Lease!Leases
      <3>4. CASE call[w].kind = "release"
        BY <1>9, <2>1, <2>2, <3>1, <3>4 DEF Planned, Permits, Write
      <3>. QED  BY <3>2, <3>3, <3>4 DEF Calls, Kinds
    <2>. QED  BY <1>9, <2>2 DEF Write
  <1>10. ASSUME NEW w \in Workers, Unlock(w) PROVE CapInv'
    <2>1. CASE call[w].ok /\ call[w].kind # "release"
      <3>1. Done(w) /\ task' = task /\ now' = now
        BY <1>10, <2>1 DEF Unlock, CallInv
      <3>2. cap'[w].until = task.expires /\ pc'[w] = "idle"
        BY <1>10, <2>1, <3>1 DEF Unlock, Done
      <3>3. \A v \in Workers \ {w} : cap'[v] = cap[v] /\ pc'[v] = pc[v] /\ call'[v] = call[v]
        BY <1>10, <2>1 DEF Unlock
      <3>. QED  BY <2>1, <3>1, <3>2, <3>3 DEF Done, Lease!Leases
    <2>2. CASE ~(call[w].ok /\ call[w].kind # "release")
      BY <1>10, <2>2 DEF Unlock
    <2>. QED  BY <2>1, <2>2
  <1>11. CASE Tick
    BY <1>11 DEF Tick, Calls, Caps
  <1>12. CASE UNCHANGED vars
    BY <1>12 DEF vars
  <1>. QED
    BY <1>1, <1>2, <1>3, <1>4, <1>5, <1>6, <1>7, <1>8, <1>9, <1>10, <1>11, <1>12
    DEF Next, Start, Proceed

LEMMA IInvInit == Init => LockInv /\ CallInv /\ TokenInv /\ CapInv
  <1>1. Init => LockInv
    BY LockInvInit
  <1>2. Init => CallInv /\ TokenInv /\ CapInv
    BY DEF Init, CallInv, TokenInv, CapInv, NoCall, NoCap, Relies, Lease!NoLease
  <1>. QED  BY <1>1, <1>2

LEMMA Invariant ==
  ASSUME Disciplined
  PROVE  Spec => []IInv
  <1>1. Init => LockInv /\ CallInv /\ TokenInv /\ CapInv
    BY IInvInit
  <1>2. TypeOK /\ LockInv /\ CallInv /\ TokenInv /\ CapInv /\ [Next]_vars
          => LockInv' /\ CallInv' /\ TokenInv' /\ CapInv'
    BY LockInvStep, CallInvStep, CapInvStep
  <1>3. IInv <=> TypeOK /\ LockInv /\ CallInv /\ TokenInv /\ CapInv
    BY DEF IInv
  <1>. QED  BY <1>1, <1>2, <1>3, TypeCorrect, PTL DEF Spec

(* No two workers ever rely on a lease of the task at the same time.  The   *)
(* state file names one worker, and CapInv keeps everyone who relies on a  *)
(* lease in agreement with it.                                             *)
THEOREM HolderIsUnique ==
  ASSUME Disciplined
  PROVE  Spec => []OneHolder
  <1>1. IInv => OneHolder
    BY DEF IInv, CapInv, OneHolder
  <1>. QED  BY <1>1, Invariant, PTL

(* Every record in the log carries the state the file has when the record  *)
(* is appended.                                                            *)
THEOREM AuditIsCurrent ==
  ASSUME Disciplined
  PROVE  Spec => AuditMatchesState
  <1>1. IInv /\ [Next]_vars => [audited' # audited => audited' = task]_vars
    <2> SUFFICES ASSUME IInv, Next, audited' # audited PROVE audited' = task
      BY DEF vars
    <2>1. PICK w \in Workers : Audit(w)
      BY DEF Next, Start, Proceed, Claim, Heartbeat, Release, Begin, Acquire, FindStale,
         TakeOver, TimeOut, ReadClock, Decide, Refuse, Write, Fault, Unlock, Crash, Tick
    <2>. QED  BY <2>1 DEF Audit, IInv, CallInv, Done
  <1>. QED  BY <1>1, Invariant, PTL DEF Spec, AuditMatchesState

-----------------------------------------------------------------------------
(* The refinement.  The replacement of the state file is the one step that *)
(* the indivisible lease sees; every other step of a call is a stutter.    *)
LEMMA WriteIsLeaseStep ==
  ASSUME IInv, NEW w \in Workers, Write(w)
  PROVE  Lease!ClaimLease(w) \/ Lease!ExtendLease(w) \/ Lease!EndLease(w)
  <1>. /\ Planned(w) /\ Arguments(w) /\ call[w].at \in 0..now
       /\ task' = call[w].new /\ now' = now
       /\ call[w] \in Calls /\ task \in Lease!Leases
    BY DEF Write, IInv, CallInv, TypeOK, Calls
  <1>1. CASE call[w].kind = "claim"
    <2>1. /\ ~Lease!Live(task, call[w].at)
          /\ task' = Lease!Claimed(task, w, task'.token, call[w].at, call[w].secs)
          /\ task'.token \in Nat /\ task'.token > task.token
          /\ call[w].secs \in LeaseSeconds
      BY <1>1 DEF Planned, Permits, Arguments, Calls, Lease!Leases
    <2>. QED  BY <2>1 DEF Lease!ClaimLease
  <1>2. CASE call[w].kind = "heartbeat"
    <2>1. /\ Lease!Live(task, call[w].at) /\ task.worker = w
          /\ task' = Lease!Extended(task, call[w].at, call[w].secs)
          /\ call[w].secs \in LeaseSeconds
      BY <1>2 DEF Planned, Permits, Arguments
    <2>. QED  BY <2>1 DEF Lease!ExtendLease
  <1>3. CASE call[w].kind = "release"
    <2>1. /\ Lease!Live(task, call[w].at) /\ task.worker = w
          /\ task' = Lease!Ended(task, call[w].outcome)
          /\ call[w].outcome \in Outcomes
      BY <1>3 DEF Planned, Permits, Arguments
    <2>. QED  BY <2>1 DEF Lease!EndLease
  <1>. QED  BY <1>1, <1>2, <1>3 DEF Calls, Kinds

LEMMA LeaseStep ==
  ASSUME IInv, [Next]_vars
  PROVE  [Lease!LeaseNext]_(Lease!leaseVars)
  <1>1. ASSUME NEW w \in Workers, Write(w) PROVE Lease!LeaseNext
    BY <1>1, WriteIsLeaseStep DEF Lease!LeaseNext
  <1>2. CASE Tick
    BY <1>2 DEF Tick, Lease!LeaseNext, Lease!Pass
  <1>3. ASSUME NEW w \in Workers, Start(w) \/ Crash(w) PROVE UNCHANGED Lease!leaseVars
    BY <1>3 DEF Start, Claim, Heartbeat, Release, Begin, Crash, Lease!leaseVars
  <1>4. ASSUME NEW w \in Workers, Proceed(w), ~Write(w) PROVE UNCHANGED Lease!leaseVars
    BY <1>4 DEF Proceed, Acquire, FindStale, TakeOver, TimeOut, ReadClock, Decide, Refuse,
       Audit, Fault, Unlock, Lease!leaseVars
  <1>5. CASE UNCHANGED vars
    BY <1>5 DEF vars, Lease!leaseVars
  <1>. QED  BY <1>1, <1>2, <1>3, <1>4, <1>5 DEF Next

(* The runtime implements the lease that is claimed, extended and ended in  *)
(* one indivisible step.                                                   *)
THEOREM RuntimeImplementsLease ==
  ASSUME Disciplined
  PROVE  Spec => ImplementsTaskLease
  <1>1. Init => Lease!LeaseInit
    BY DEF Init, Lease!LeaseInit
  <1>2. IInv /\ [Next]_vars => [Lease!LeaseNext]_(Lease!leaseVars)
    BY LeaseStep
  <1>. QED  BY <1>1, <1>2, Invariant, PTL DEF Spec, ImplementsTaskLease, Lease!LeaseSpec
=============================================================================
