--------------------------- MODULE CoordinatorLock ---------------------------
(***************************************************************************)
(* CampaignCoordinator._lock (science_repo/coordinator.py): the lock file   *)
(* coordinator.lock, which names the process that created it.  A waiting   *)
(* process removes the file when it is old and its owner is dead; it reads *)
(* the file a second time before it does.                                  *)
(*                                                                          *)
(* Every access to the file is a step of its own.  A process may die in    *)
(* any of them and come back with the same pid, as a new incarnation.      *)
(***************************************************************************)
EXTENDS Naturals

CONSTANTS Procs,      \* process ids; each has at most one call running
          Nobody,     \* not a process: the holder of a free lock
          Left,       \* not a process: the holder of a lock left behind
          MaxStarts,  \* bound: how often a process is started
          MaxNonces,  \* bound: how many nonces may be drawn
          Hazards     \* what the environment may do, see below

(* "crash": a process may die at any step.                                 *)
(* "fault": writing or removing the lock file may fail; the call raises.   *)
(* "race" : other processes may run between the second reading of the      *)
(*          file and the unlink that follows it.                           *)
AllHazards == {"crash", "fault", "race"}

ASSUME LockAssumption ==
  /\ Nobody \notin Procs
  /\ Left \notin Procs
  /\ Nobody # Left
  /\ MaxStarts \in Nat
  /\ MaxNonces \in Nat
  /\ Hazards \subseteq AllHazards

VARIABLES file,    \* coordinator.lock: its contents, and whether it is older
                   \* than stale_lock_after; or NoFile
          start,   \* the incarnation each process is in
          up,      \* the processes that are running
          nonces,  \* how many nonces (uuid4) were drawn so far
          nonce,   \* the nonce of each process's call
          seen,    \* what each call read from the file
          pc       \* where each process's call stands

vars == <<file, start, up, nonces, nonce, seen, pc>>

-----------------------------------------------------------------------------
(* Where a call stands: before the create; after a create that found a     *)
(* file; after the first reading; before the second reading; before the    *)
(* unlink; before the deadline test; and, having created the file: before  *)
(* writing its contents, inside, before the unlink on the way out.         *)
Inside == {"created", "inside", "leaving"}
Places == {"idle", "trying", "refused", "read", "judged", "confirmed", "waiting"}
            \cup Inside

(* The contents are written after the file was created: until then a       *)
(* reader finds an empty file.  Nonces number the calls, 0 is none.        *)
NoFile == [nonce |-> 0, pid |-> Nobody, start |-> 0, written |-> FALSE, old |-> FALSE]

Files == [nonce : Nat, pid : Procs, start : Nat, written : BOOLEAN, old : BOOLEAN]
           \cup {NoFile}

Contents(f) == [nonce |-> f.nonce, pid |-> f.pid, start |-> f.start]
Nothing == Contents(NoFile)

(* Mutant: an owner is dead only while no process runs under its pid. *)
OwnerIsDeadByPid(c) == c.pid \notin up

(* _owner_is_dead: no process runs under the pid, or a later incarnation.  *)
OwnerIsDead(c) == c.pid \notin up \/ start[c.pid] # c.start

Init ==
  /\ file = NoFile
  /\ start = [p \in Procs |-> 1]
  /\ up = Procs
  /\ nonces = 0
  /\ nonce = [p \in Procs |-> 0]
  /\ seen = [p \in Procs |-> Nothing]
  /\ pc = [p \in Procs |-> "idle"]

Goto(p, place) == pc' = [pc EXCEPT ![p] = place]

-----------------------------------------------------------------------------
(* Getting in.                                                             *)

Begin(p) ==
  /\ p \in up
  /\ pc[p] = "idle"
  /\ nonces < MaxNonces
  /\ nonces' = nonces + 1
  /\ nonce' = [nonce EXCEPT ![p] = nonces + 1]
  /\ Goto(p, "trying")
  /\ UNCHANGED <<file, start, up, seen>>

(* Mutant: the file does not tell the pid of its owner. *)
CreateAnonymous(p) ==
  /\ pc[p] = "trying"
  /\ file = NoFile
  /\ file' = [nonce |-> nonce[p], pid |-> Nobody, start |-> start[p],
              written |-> FALSE, old |-> FALSE]
  /\ Goto(p, "created")
  /\ UNCHANGED <<start, up, nonces, nonce, seen>>

(* O_CREAT | O_EXCL. *)
Create(p) ==
  /\ pc[p] = "trying"
  /\ \/ /\ file = NoFile
        /\ file' = [nonce |-> nonce[p], pid |-> p, start |-> start[p],
                    written |-> FALSE, old |-> FALSE]
        /\ Goto(p, "created")
     \/ /\ file # NoFile
        /\ Goto(p, "refused")
        /\ UNCHANGED file
  /\ UNCHANGED <<start, up, nonces, nonce, seen>>

WriteOwner(p) ==
  /\ pc[p] = "created"
  /\ file' = IF file # NoFile /\ file.nonce = nonce[p]
             THEN [file EXCEPT !.written = TRUE] ELSE file
  /\ Goto(p, "inside")
  /\ UNCHANGED <<start, up, nonces, nonce, seen>>

(* The first reading.  A missing or an empty file ends the attempt. *)
Read(p) ==
  /\ pc[p] = "refused"
  /\ \/ /\ file.written
        /\ seen' = [seen EXCEPT ![p] = Contents(file)]
        /\ Goto(p, "read")
     \/ /\ ~file.written
        /\ Goto(p, "waiting")
        /\ UNCHANGED seen
  /\ UNCHANGED <<file, start, up, nonces, nonce>>

(* Mutant: only the age of the file counts. *)
JudgeByAge(p) ==
  /\ pc[p] = "read"
  /\ Goto(p, IF file.old THEN "judged" ELSE "waiting")
  /\ UNCHANGED <<file, start, up, nonces, nonce, seen>>

(* The age is that of the file there is by now; the owner is the one read. *)
Judge(p) ==
  /\ pc[p] = "read"
  /\ Goto(p, IF file.old /\ OwnerIsDead(seen[p]) THEN "judged" ELSE "waiting")
  /\ UNCHANGED <<file, start, up, nonces, nonce, seen>>

(* Mutant: the unlink follows without a second look. *)
DoNotReread(p) ==
  /\ pc[p] = "judged"
  /\ Goto(p, "confirmed")
  /\ UNCHANGED <<file, start, up, nonces, nonce, seen>>

Reread(p) ==
  /\ pc[p] = "judged"
  /\ Goto(p, IF file.written /\ Contents(file) = seen[p] THEN "confirmed" ELSE "waiting")
  /\ UNCHANGED <<file, start, up, nonces, nonce, seen>>

(* The unlink goes by the path alone.  When it succeeds the call tries     *)
(* again at once; a missing file ends the attempt.                         *)
Remove(p) ==
  /\ pc[p] = "confirmed"
  /\ file' = NoFile
  /\ Goto(p, IF file = NoFile THEN "waiting" ELSE "trying")
  /\ UNCHANGED <<start, up, nonces, nonce, seen>>

(* Mutant: a call that finds no lock to remove tries again for good. *)
NoTimeOut(p) == FALSE

(* The deadline test: the call raises, or sleeps and tries again. *)
TimeOut(p) ==
  /\ pc[p] = "waiting"
  /\ Goto(p, "idle")
  /\ seen' = [seen EXCEPT ![p] = Nothing]
  /\ UNCHANGED <<file, start, up, nonces, nonce>>

TryAgain(p) ==
  /\ pc[p] = "waiting"
  /\ Goto(p, "trying")
  /\ seen' = [seen EXCEPT ![p] = Nothing]
  /\ UNCHANGED <<file, start, up, nonces, nonce>>

-----------------------------------------------------------------------------
(* Getting out.                                                            *)

(* The finally clause reads the file, and goes on to remove it when it     *)
(* holds the nonce of this call.  (An empty file, of another call, raises.) *)
CheckNonce(p) ==
  /\ pc[p] = "inside"
  /\ Goto(p, IF file.written /\ file.nonce = nonce[p] THEN "leaving" ELSE "idle")
  /\ seen' = [seen EXCEPT ![p] = Nothing]
  /\ UNCHANGED <<file, start, up, nonces, nonce>>

Unlock(p) ==
  /\ pc[p] = "leaving"
  /\ file' = NoFile
  /\ Goto(p, "idle")
  /\ UNCHANGED <<start, up, nonces, nonce, seen>>

(* Writing or removing the file raises: the call ends and the file stays.  *)
Fault(p) ==
  /\ "fault" \in Hazards
  /\ pc[p] \in {"created", "leaving"}
  /\ Goto(p, "idle")
  /\ UNCHANGED <<file, start, up, nonces, nonce, seen>>

-----------------------------------------------------------------------------
(* The environment.                                                        *)

Kill(p) ==
  /\ "crash" \in Hazards
  /\ p \in up
  /\ up' = up \ {p}
  /\ Goto(p, "idle")
  /\ seen' = [seen EXCEPT ![p] = Nothing]
  /\ UNCHANGED <<file, start, nonces, nonce>>

Restart(p) ==
  /\ p \notin up
  /\ start[p] < MaxStarts
  /\ up' = up \cup {p}
  /\ start' = [start EXCEPT ![p] = @ + 1]
  /\ UNCHANGED <<file, nonces, nonce, seen, pc>>

(* The file grows older than stale_lock_after, whether its owner lives or  *)
(* not: nothing bounds the time a call stays inside.                       *)
GrowOld ==
  /\ file # NoFile
  /\ ~file.old
  /\ file' = [file EXCEPT !.old = TRUE]
  /\ UNCHANGED <<start, up, nonces, nonce, seen, pc>>

(* Unless removals may race, nobody runs between a second reading and the  *)
(* unlink that follows it.                                                 *)
MayRun(p) == "race" \in Hazards \/ \A q \in Procs \ {p} : pc[q] # "confirmed"

Enter(p) == Create(p) \/ WriteOwner(p) \/ Read(p) \/ Judge(p) \/ Reread(p)
              \/ Remove(p) \/ TimeOut(p) \/ TryAgain(p)

Exit(p) == CheckNonce(p) \/ Unlock(p) \/ Fault(p)

Proceed(p) == MayRun(p) /\ (Enter(p) \/ Exit(p))

Start(p) == MayRun(p) /\ Begin(p)

Next ==
  \/ \E p \in Procs : Start(p) \/ Proceed(p) \/ Kill(p) \/ Restart(p)
  \/ GrowOld

Spec == Init /\ [][Next]_vars

(* A running process keeps running, and a call that comes to the deadline  *)
(* test over and over finds the deadline passed in the end.                *)
FairSpec ==
  /\ Spec
  /\ \A p \in Procs : WF_vars(Proceed(p)) /\ SF_vars(MayRun(p) /\ TimeOut(p))

-----------------------------------------------------------------------------
TypeOK ==
  /\ file \in Files
  /\ start \in [Procs -> Nat]
  /\ up \in SUBSET Procs
  /\ nonces \in Nat
  /\ nonce \in [Procs -> Nat]
  /\ seen \in [Procs -> [nonce : Nat, pid : Procs \cup {Nobody}, start : Nat]]
  /\ pc \in [Procs -> Places]

InLock(p) == pc[p] \in Inside

(* At most one process is inside the coordinator's lock, however long it   *)
(* stays there and however often others judge its file.                    *)
MutualExclusion == \A p, q \in Procs : InLock(p) /\ InLock(q) => p = q

(* The lock belongs to whoever is inside, whatever became of the file; a    *)
(* file that is there although nobody is inside was left behind.           *)
Holder ==
  IF \E p \in Procs : InLock(p) THEN CHOOSE p \in Procs : InLock(p)
  ELSE IF file = NoFile THEN Nobody ELSE Left

Abstract == INSTANCE FileLock WITH holder <- Holder

(* The lock file implements the abstract lock: it is freed by its holder,  *)
(* or reclaimed after its holder left it behind, and in no other way.      *)
ImplementsFileLock == Abstract!LockSpec

(* A lock whose owner is dead does not keep anybody out for good: a call   *)
(* that finds it old and complete removes it, unless it is gone already or *)
(* the call dies first.                                                    *)
Abandoned ==
  /\ file.written
  /\ file.old
  /\ file.pid \in up => start[file.pid] # file.start

DeadOwnersLockReclaimed ==
  \A p \in Procs : (pc[p] = "trying" /\ Abandoned) ~> (~Abandoned \/ p \notin up)

(* Whatever happens to the lock file, a call that waits for it comes back: *)
(* it gets in and out, raises the timeout, or dies.                        *)
CallsEnd == \A p \in Procs : (pc[p] # "idle") ~> (pc[p] = "idle")
=============================================================================
