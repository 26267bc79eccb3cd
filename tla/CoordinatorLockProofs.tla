----------------------- MODULE CoordinatorLockProofs ------------------------
(***************************************************************************)
(* What CoordinatorLock guarantees for every set of processes and every     *)
(* bound of the model.                                                      *)
(***************************************************************************)
EXTENDS CoordinatorLock, TLAPS

(* Nobody runs between a second reading and the unlink that follows it;    *)
(* processes may die and writes and unlinks may fail.                      *)
Orderly == "race" \notin Hazards

LEMMA NoFileIsFile == NoFile \in Files
  BY DEF Files

(* Type correctness: whatever the hazards, every variable keeps its type. *)
THEOREM TypeCorrect == Spec => []TypeOK
  <1>1. Init => TypeOK
    BY NoFileIsFile DEF Init, TypeOK, Places, Nothing, Contents, NoFile
  <1>2. TypeOK /\ [Next]_vars => TypeOK'
    <2> SUFFICES ASSUME TypeOK, [Next]_vars PROVE TypeOK'
      OBVIOUS
    <2> USE DEF TypeOK, Goto
    <2>0. Nothing \in [nonce : Nat, pid : Procs \cup {Nobody}, start : Nat]
      BY DEF Nothing, Contents, NoFile
    <2>1. ASSUME NEW p \in Procs, Begin(p) PROVE TypeOK'
      BY <2>1 DEF Begin, Places
    <2>2. ASSUME NEW p \in Procs, Create(p) PROVE TypeOK'
      <3>1. [nonce |-> nonce[p], pid |-> p, start |-> start[p],
             written |-> FALSE, old |-> FALSE] \in Files
        BY DEF Files
      <3>. QED  BY <2>2, <3>1 DEF Create, Places, Inside
    <2>3. ASSUME NEW p \in Procs, WriteOwner(p) PROVE TypeOK'
      <3>1. file # NoFile => [file EXCEPT !.written = TRUE] \in Files
        BY DEF Files
      <3>. QED  BY <2>3, <3>1 DEF WriteOwner, Places, Inside
    <2>4. ASSUME NEW p \in Procs, Read(p) PROVE TypeOK'
      <3>1. Contents(file) \in [nonce : Nat, pid : Procs \cup {Nobody}, start : Nat]
        BY DEF Contents, Files, NoFile
      <3>. QED  BY <2>4, <3>1 DEF Read, Places
    <2>5. ASSUME NEW p \in Procs, Judge(p) PROVE TypeOK'
      BY <2>5 DEF Judge, Places
    <2>6. ASSUME NEW p \in Procs, Reread(p) PROVE TypeOK'
      BY <2>6 DEF Reread, Places
    <2>7. ASSUME NEW p \in Procs, Remove(p) PROVE TypeOK'
      BY <2>7, NoFileIsFile DEF Remove, Places
    <2>8. ASSUME NEW p \in Procs, TimeOut(p) \/ TryAgain(p) PROVE TypeOK'
      BY <2>0, <2>8 DEF TimeOut, TryAgain, Places
    <2>9. ASSUME NEW p \in Procs, CheckNonce(p) PROVE TypeOK'
      BY <2>0, <2>9 DEF CheckNonce, Places, Inside
    <2>10. ASSUME NEW p \in Procs, Unlock(p) \/ Fault(p) PROVE TypeOK'
      BY <2>10, NoFileIsFile DEF Unlock, Fault, Places
    <2>11. ASSUME NEW p \in Procs, Kill(p) PROVE TypeOK'
      BY <2>0, <2>11 DEF Kill, Places
    <2>12. ASSUME NEW p \in Procs, Restart(p) PROVE TypeOK'
      BY <2>12 DEF Restart
    <2>13. CASE GrowOld
      <3>1. file # NoFile => [file EXCEPT !.old = TRUE] \in Files
        BY DEF Files
      <3>. QED  BY <2>13, <3>1 DEF GrowOld
    <2>14. CASE UNCHANGED vars
      BY <2>14 DEF vars
    <2>. QED
      BY <2>1, <2>2, <2>3, <2>4, <2>5, <2>6, <2>7, <2>8, <2>9, <2>10, <2>11, <2>12,
         <2>13, <2>14 DEF Next, Start, Proceed, Enter, Exit
  <1>. QED  BY <1>1, <1>2, PTL DEF Spec

-----------------------------------------------------------------------------
(* Nonces.  Every call draws a new one, so a call whose nonce the file has *)
(* is the call that created it.                                            *)
NonceInv ==
  /\ \A p \in Procs : nonce[p] <= nonces
  /\ \A p \in Procs : pc[p] # "idle" => nonce[p] # 0 /\ p \in up
  /\ \A p, q \in Procs : nonce[p] = nonce[q] /\ nonce[p] # 0 => p = q
  /\ file.nonce <= nonces
  /\ file # NoFile => file.nonce # 0

(* A call inside the lock owns the file, which tells its living owner from *)
(* the moment it is written.                                               *)
OwnerInv ==
  \A p \in Procs : InLock(p) =>
     /\ file # NoFile
     /\ file.nonce = nonce[p]
     /\ file.pid = p
     /\ file.start = start[p]
     /\ pc[p] # "created" => file.written

(* Once dead, an incarnation stays dead: that is why a judgement made on   *)
(* what was read long ago still holds.  A call about to unlink the file    *)
(* looks at the very file it judged.                                       *)
SeenInv ==
  /\ file # NoFile => file.start <= start[file.pid]
  /\ \A p \in Procs : seen[p].pid \in Procs => seen[p].start <= start[seen[p].pid]
  /\ \A p \in Procs : pc[p] \in {"read", "judged", "confirmed"} => seen[p].pid \in Procs
  /\ \A p \in Procs : pc[p] \in {"judged", "confirmed"} => OwnerIsDead(seen[p])
  /\ \A p \in Procs : pc[p] = "confirmed" => file # NoFile /\ Contents(file) = seen[p]

IInv == TypeOK /\ NonceInv /\ OwnerInv /\ SeenInv

LEMMA IInvInit == Init => NonceInv /\ OwnerInv /\ SeenInv
  BY LockAssumption
     DEF Init, NonceInv, OwnerInv, SeenInv, InLock, Inside, NoFile, Nothing, Contents

LEMMA NonceStep ==
  ASSUME TypeOK, NonceInv, [Next]_vars
  PROVE  NonceInv'
  <1>. USE DEF NonceInv, Goto
  <1>. /\ pc \in [Procs -> Places] /\ nonce \in [Procs -> Nat] /\ nonces \in Nat
       /\ file \in Files /\ up \in SUBSET Procs
    BY DEF TypeOK
  <1>1. ASSUME NEW p \in Procs, Begin(p) PROVE NonceInv'
    <2>1. file.nonce \in Nat
      BY DEF Files, NoFile
    <2>. QED  BY <1>1, <2>1 DEF Begin
  <1>2. ASSUME NEW p \in Procs, Create(p) PROVE NonceInv'
    BY <1>2 DEF Create
  <1>3. ASSUME NEW p \in Procs, WriteOwner(p) PROVE NonceInv'
    <2>1. file' = file \/ (file # NoFile /\ file' = [file EXCEPT !.written = TRUE])
      BY <1>3 DEF WriteOwner
    <2>2. file'.nonce = file.nonce /\ (file' # NoFile => file # NoFile)
      BY <2>1 DEF Files, NoFile
    <2>. QED  BY <1>3, <2>2 DEF WriteOwner
  <1>4. ASSUME NEW p \in Procs, Read(p) \/ Judge(p) \/ Reread(p) PROVE NonceInv'
    BY <1>4 DEF Read, Judge, Reread
  <1>5. ASSUME NEW p \in Procs, Remove(p) \/ Unlock(p) PROVE NonceInv'
    BY <1>5 DEF Remove, Unlock, NoFile
  <1>6. ASSUME NEW p \in Procs, TimeOut(p) \/ TryAgain(p) \/ CheckNonce(p) \/ Fault(p)
        PROVE  NonceInv'
    BY <1>6 DEF TimeOut, TryAgain, CheckNonce, Fault
  <1>7. ASSUME NEW p \in Procs, Kill(p) PROVE NonceInv'
    BY <1>7 DEF Kill
  <1>8. ASSUME NEW p \in Procs, Restart(p) PROVE NonceInv'
    BY <1>8 DEF Restart
  <1>9. CASE GrowOld
    <2>1. file'.nonce = file.nonce
      BY <1>9 DEF GrowOld, Files, NoFile
    <2>. QED  BY <1>9, <2>1 DEF GrowOld
  <1>10. CASE UNCHANGED vars
    BY <1>10 DEF vars
  <1>. QED
    BY <1>1, <1>2, <1>3, <1>4, <1>5, <1>6, <1>7, <1>8, <1>9, <1>10
       DEF Next, Start, Proceed, Enter, Exit

(* A file about to be unlinked by a waiting call belongs to nobody inside. *)
LEMMA RemovesDeadLock ==
  ASSUME IInv, NEW p \in Procs, pc[p] = "confirmed", NEW q \in Procs
  PROVE  file # NoFile /\ ~InLock(q)
  <1>1. Contents(file) = seen[p] /\ OwnerIsDead(seen[p]) /\ file # NoFile
    BY DEF IInv, SeenInv
  <1>2. OwnerIsDead(file)
    BY <1>1 DEF Contents, OwnerIsDead
  <1>3. InLock(q) => q \in up /\ file.pid = q /\ file.start = start[q]
    BY DEF IInv, OwnerInv, NonceInv, InLock, Inside
  <1>. QED  BY <1>1, <1>2, <1>3 DEF OwnerIsDead

LEMMA OwnerStep ==
  ASSUME Orderly, IInv, [Next]_vars
  PROVE  OwnerInv'
  <1>. USE DEF OwnerInv, InLock, Inside, Goto
  <1>. /\ pc \in [Procs -> Places] /\ nonce \in [Procs -> Nat] /\ nonces \in Nat
       /\ file \in Files /\ up \in SUBSET Procs /\ start \in [Procs -> Nat]
       /\ OwnerInv /\ NonceInv
    BY DEF IInv, TypeOK
  <1>1. ASSUME NEW p \in Procs, Begin(p) PROVE OwnerInv'
    BY <1>1 DEF Begin
  <1>2. ASSUME NEW p \in Procs, Create(p) PROVE OwnerInv'
    <2>1. CASE file = NoFile
      <3>1. /\ \A q \in Procs : ~InLock(q)
            /\ file' = [nonce |-> nonce[p], pid |-> p, start |-> start[p],
                        written |-> FALSE, old |-> FALSE]
            /\ pc' = [pc EXCEPT ![p] = "created"]
        BY <1>2, <2>1 DEF Create
      <3>2. file' # NoFile
        BY <3>1, LockAssumption DEF NoFile
      <3>. QED  BY <1>2, <3>1, <3>2 DEF Create
    <2>2. CASE file # NoFile
      BY <1>2, <2>2 DEF Create
    <2>. QED  BY <2>1, <2>2
  <1>3. ASSUME NEW p \in Procs, WriteOwner(p) PROVE OwnerInv'
    <2>1. /\ file # NoFile /\ file.nonce = nonce[p]
          /\ file' = [file EXCEPT !.written = TRUE]
      BY <1>3 DEF WriteOwner
    <2>2. /\ file'.nonce = file.nonce /\ file'.pid = file.pid /\ file'.start = file.start
          /\ file'.written /\ file' # NoFile
      BY <2>1, LockAssumption DEF Files, NoFile
    <2>. QED  BY <1>3, <2>2 DEF WriteOwner
  <1>4. ASSUME NEW p \in Procs, Read(p) \/ Judge(p) \/ Reread(p) PROVE OwnerInv'
    BY <1>4 DEF Read, Judge, Reread
  <1>5. ASSUME NEW p \in Procs, Remove(p) PROVE OwnerInv'
    <2>1. \A q \in Procs : ~InLock(q)
      BY <1>5, RemovesDeadLock DEF Remove
    <2>. QED  BY <1>5, <2>1 DEF Remove
  <1>6. ASSUME NEW p \in Procs, Unlock(p) PROVE OwnerInv'
    <2>1. \A q \in Procs : InLock(q) => q = p
      BY <1>6 DEF Unlock, NonceInv
    <2>. QED  BY <1>6, <2>1 DEF Unlock
  <1>7. ASSUME NEW p \in Procs, TimeOut(p) \/ TryAgain(p) \/ CheckNonce(p) \/ Fault(p)
        PROVE  OwnerInv'
    BY <1>7 DEF TimeOut, TryAgain, CheckNonce, Fault
  <1>8. ASSUME NEW p \in Procs, Kill(p) PROVE OwnerInv'
    BY <1>8 DEF Kill
  <1>9. ASSUME NEW p \in Procs, Restart(p) PROVE OwnerInv'
    <2>1. ~InLock(p)
      BY <1>9 DEF Restart, NonceInv
    <2>. QED  BY <1>9, <2>1 DEF Restart
  <1>10. CASE GrowOld
    <2>1. /\ file'.nonce = file.nonce /\ file'.pid = file.pid /\ file'.start = file.start
          /\ file'.written = file.written /\ file' # NoFile
      BY <1>10 DEF GrowOld, Files, NoFile
    <2>. QED  BY <1>10, <2>1 DEF GrowOld
  <1>11. CASE UNCHANGED vars
    BY <1>11 DEF vars
  <1>. QED
    BY <1>1, <1>2, <1>3, <1>4, <1>5, <1>6, <1>7, <1>8, <1>9, <1>10, <1>11
       DEF Next, Start, Proceed, Enter, Exit

LEMMA SeenStep ==
  ASSUME Orderly, IInv, [Next]_vars
  PROVE  SeenInv'
  <1>. USE DEF SeenInv, Goto, OwnerIsDead
  <1>. /\ pc \in [Procs -> Places] /\ file \in Files /\ up \in SUBSET Procs
       /\ start \in [Procs -> Nat] /\ SeenInv /\ NonceInv
       /\ seen \in [Procs -> [nonce : Nat, pid : Procs \cup {Nobody}, start : Nat]]
    BY DEF IInv, TypeOK
  <1>0. Nothing.pid \notin Procs
    BY LockAssumption DEF Nothing, Contents, NoFile
  <1>1. ASSUME NEW p \in Procs, Begin(p) PROVE SeenInv'
    BY <1>1 DEF Begin
  <1>2. ASSUME NEW p \in Procs, MayRun(p), Create(p) PROVE SeenInv'
    <2>1. CASE file = NoFile
      BY <1>2, <2>1 DEF Create
    <2>2. CASE file # NoFile
      BY <1>2, <2>2 DEF Create
    <2>. QED  BY <2>1, <2>2
  <1>3. ASSUME NEW p \in Procs, MayRun(p), WriteOwner(p) PROVE SeenInv'
    <2>1. file' = file \/ (file # NoFile /\ file' = [file EXCEPT !.written = TRUE])
      BY <1>3 DEF WriteOwner
    <2>2. /\ file' # NoFile => file # NoFile
          /\ file' # NoFile => file'.start = file.start /\ file'.pid = file.pid
      BY <2>1 DEF Files, NoFile
    <2>3. \A q \in Procs \ {p} : pc[q] # "confirmed"
      BY <1>3 DEF MayRun, Orderly
    <2>. QED  BY <1>3, <2>2, <2>3 DEF WriteOwner
  <1>4. ASSUME NEW p \in Procs, Read(p) PROVE SeenInv'
    <2>1. CASE file.written
      <3>1. file # NoFile /\ Contents(file).pid \in Procs
            /\ Contents(file).pid = file.pid /\ Contents(file).start = file.start
        BY <2>1 DEF Files, NoFile, Contents
      <3>. QED  BY <1>4, <2>1, <3>1 DEF Read
    <2>2. CASE ~file.written
      BY <1>4, <2>2 DEF Read
    <2>. QED  BY <2>1, <2>2
  <1>5. ASSUME NEW p \in Procs, Judge(p) PROVE SeenInv'
    BY <1>5 DEF Judge
  <1>6. ASSUME NEW p \in Procs, Reread(p) PROVE SeenInv'
    <2>1. file.written => file # NoFile
      BY DEF NoFile
    <2>. QED  BY <1>6, <2>1 DEF Reread
  <1>7. ASSUME NEW p \in Procs, MayRun(p), Remove(p) \/ Unlock(p) PROVE SeenInv'
    <2>1. \A q \in Procs \ {p} : pc[q] # "confirmed"
      BY <1>7 DEF MayRun, Orderly
    <2>. QED  BY <1>7, <2>1 DEF Remove, Unlock
  <1>8. ASSUME NEW p \in Procs, TimeOut(p) \/ TryAgain(p) \/ CheckNonce(p) \/ Fault(p)
        PROVE  SeenInv'
    BY <1>0, <1>8 DEF TimeOut, TryAgain, CheckNonce, Fault
  <1>9. ASSUME NEW p \in Procs, Kill(p) PROVE SeenInv'
    BY <1>0, <1>9 DEF Kill
  <1>10. ASSUME NEW p \in Procs, Restart(p) PROVE SeenInv'
    <2>1. file # NoFile => file.pid \in Procs /\ file.start \in Nat
      BY DEF Files
    <2>2. /\ up' = up \cup {p} /\ start' = [start EXCEPT ![p] = @ + 1]
          /\ UNCHANGED <<file, seen, pc>>
      BY <1>10 DEF Restart
    <2>3. \A q \in Procs : start[q] <= start'[q] /\ (q = p => start[q] < start'[q])
      BY <2>2
    <2>4. \A q \in Procs : pc[q] \in {"judged", "confirmed"} =>
             seen[q].pid \notin up' \/ start'[seen[q].pid] # seen[q].start
      BY <2>2, <2>3
    <2>. QED  BY <2>1, <2>2, <2>3, <2>4
  <1>11. CASE GrowOld
    <2>1. /\ file'.pid = file.pid /\ file'.start = file.start /\ file' # NoFile
          /\ Contents(file') = Contents(file)
      BY <1>11 DEF GrowOld, Files, NoFile, Contents
    <2>. QED  BY <1>11, <2>1 DEF GrowOld
  <1>12. CASE UNCHANGED vars
    BY <1>12 DEF vars
  <1>. QED
    BY <1>1, <1>2, <1>3, <1>4, <1>5, <1>6, <1>7, <1>8, <1>9, <1>10, <1>11, <1>12
       DEF Next, Start, Proceed, Enter, Exit

LEMMA Invariant ==
  ASSUME Orderly
  PROVE  Spec => []IInv
  <1>1. TypeOK /\ Init => IInv
    BY IInvInit DEF IInv
  <1>2. TypeOK /\ TypeOK' /\ IInv /\ [Next]_vars => IInv'
    BY NonceStep, OwnerStep, SeenStep DEF IInv
  <1>. QED  BY <1>1, <1>2, TypeCorrect, PTL DEF Spec

-----------------------------------------------------------------------------
(* Mutual exclusion: two calls inside would both have the nonce of the file. *)
THEOREM LockIsExclusive ==
  ASSUME Orderly
  PROVE  Spec => []MutualExclusion
  <1>1. IInv => MutualExclusion
    BY DEF IInv, NonceInv, OwnerInv, MutualExclusion
  <1>. QED  BY <1>1, Invariant, PTL

-----------------------------------------------------------------------------
(* The refinement: the holder of the abstract lock, seen from the file.     *)
HolderFacts ==
  /\ file = NoFile => Holder = Nobody
  /\ \A p \in Procs : InLock(p) => Holder = p
  /\ file # NoFile /\ (\A p \in Procs : ~InLock(p)) => Holder = Left
  /\ file = NoFile => \A p \in Procs : ~InLock(p)
  /\ \A p, q \in Procs : InLock(p) /\ InLock(q) => p = q

LEMMA HolderCases == IInv => HolderFacts
  <1> SUFFICES ASSUME IInv PROVE HolderFacts
    OBVIOUS
  <1>1. \A p \in Procs : InLock(p) =>
           file # NoFile /\ file.nonce = nonce[p] /\ nonce[p] # 0
    BY DEF IInv, OwnerInv, NonceInv, InLock, Inside
  <1>2. \A p, q \in Procs : InLock(p) /\ InLock(q) => p = q
    BY <1>1 DEF IInv, NonceInv
  <1>3. ASSUME NEW p \in Procs, InLock(p) PROVE Holder = p
    <2>1. \A q \in Procs : InLock(q) <=> q = p
      BY <1>2, <1>3
    <2>. QED  BY <2>1 DEF Holder
  <1>. QED  BY <1>1, <1>2, <1>3 DEF Holder, HolderFacts

(* A step that neither creates nor removes the file, and neither begins     *)
(* nor ends anybody's stay inside, leaves the holder alone.                *)
LEMMA HolderUnchanged ==
  ASSUME HolderFacts, HolderFacts', (file = NoFile) <=> (file' = NoFile),
         \A p \in Procs : InLock(p) <=> InLock(p)'
  PROVE  Holder' = Holder
  <1>1. CASE file = NoFile
    BY <1>1 DEF HolderFacts
  <1>2. CASE file # NoFile /\ \A p \in Procs : ~InLock(p)
    BY <1>2 DEF HolderFacts
  <1>3. CASE \E p \in Procs : InLock(p)
    BY <1>3 DEF HolderFacts
  <1>. QED  BY <1>1, <1>2, <1>3

LEMMA FileLockStep ==
  ASSUME Orderly, IInv, HolderFacts, HolderFacts', [Next]_vars
  PROVE  [Abstract!LockNext]_Holder
  <1>. USE DEF Goto
  <1>. /\ pc \in [Procs -> Places] /\ file \in Files
    BY DEF IInv, TypeOK
  <1>1. ASSUME NEW p \in Procs, Begin(p) PROVE Holder' = Holder
    <2>1. \A q \in Procs : InLock(q) <=> InLock(q)'
      BY <1>1 DEF Begin, InLock, Inside
    <2>. QED  BY <1>1, <2>1, HolderUnchanged DEF Begin
  <1>2. ASSUME NEW p \in Procs, Create(p) PROVE [Abstract!LockNext]_Holder
    <2>1. CASE file = NoFile
      <3>1. InLock(p)'
        BY <1>2, <2>1 DEF Create, InLock, Inside
      <3>2. Holder = Nobody /\ Holder' = p
        BY <2>1, <3>1 DEF HolderFacts
      <3>. QED  BY <3>2 DEF Abstract!LockNext, Abstract!Take
    <2>2. CASE file # NoFile
      <3>1. \A q \in Procs : InLock(q) <=> InLock(q)'
        BY <1>2, <2>2 DEF Create, InLock, Inside
      <3>. QED  BY <1>2, <2>2, <3>1, HolderUnchanged DEF Create
    <2>. QED  BY <2>1, <2>2
  <1>3. ASSUME NEW p \in Procs, WriteOwner(p) PROVE Holder' = Holder
    <2>1. \A q \in Procs : InLock(q) <=> InLock(q)'
      BY <1>3 DEF WriteOwner, InLock, Inside
    <2>2. file' = file \/ (file # NoFile /\ file' = [file EXCEPT !.written = TRUE])
      BY <1>3 DEF WriteOwner
    <2>3. (file = NoFile) <=> (file' = NoFile)
      BY <2>2 DEF NoFile, Files
    <2>. QED  BY <2>1, <2>3, HolderUnchanged
  <1>4. ASSUME NEW p \in Procs, Read(p) \/ Judge(p) \/ Reread(p) \/ TimeOut(p) \/ TryAgain(p)
        PROVE  Holder' = Holder
    <2>1. \A q \in Procs : InLock(q) <=> InLock(q)'
      BY <1>4 DEF Read, Judge, Reread, TimeOut, TryAgain, InLock, Inside
    <2>. QED  BY <1>4, <2>1, HolderUnchanged DEF Read, Judge, Reread, TimeOut, TryAgain
  <1>5. ASSUME NEW p \in Procs, Remove(p) PROVE Abstract!Reclaim
    <2>1. file # NoFile /\ \A q \in Procs : ~InLock(q)
      BY <1>5, RemovesDeadLock DEF Remove
    <2>2. file' = NoFile
      BY <1>5 DEF Remove
    <2>. QED  BY <2>1, <2>2 DEF Abstract!Reclaim, HolderFacts
  <1>6. ASSUME NEW p \in Procs, CheckNonce(p) PROVE Holder' = Holder
    <2>1. file.written /\ file.nonce = nonce[p]
      BY <1>6 DEF CheckNonce, IInv, OwnerInv, InLock, Inside
    <2>2. \A q \in Procs : InLock(q) <=> InLock(q)'
      BY <1>6, <2>1 DEF CheckNonce, InLock, Inside
    <2>. QED  BY <1>6, <2>2, HolderUnchanged DEF CheckNonce
  <1>7. ASSUME NEW p \in Procs, Unlock(p) PROVE Abstract!Give(p)
    <2>1. InLock(p) /\ file' = NoFile
      BY <1>7 DEF Unlock, InLock, Inside
    <2>. QED  BY <2>1 DEF Abstract!Give, HolderFacts
  <1>8. ASSUME NEW p \in Procs, Fault(p) \/ Kill(p), InLock(p) PROVE Abstract!Leave(p)
    <2>1. file # NoFile /\ file' = file
      BY <1>8 DEF Fault, Kill, HolderFacts
    <2>2. \A q \in Procs : ~InLock(q)'
      BY <1>8 DEF Fault, Kill, InLock, Inside, HolderFacts
    <2>. QED  BY <1>8, <2>1, <2>2 DEF Abstract!Leave, HolderFacts
  <1>9. ASSUME NEW p \in Procs, Fault(p) \/ Kill(p), ~InLock(p) PROVE Holder' = Holder
    <2>1. \A q \in Procs : InLock(q) <=> InLock(q)'
      BY <1>9 DEF Fault, Kill, InLock, Inside
    <2>. QED  BY <1>9, <2>1, HolderUnchanged DEF Fault, Kill
  <1>10. ASSUME NEW p \in Procs, Restart(p) PROVE Holder' = Holder
    <2>1. \A q \in Procs : InLock(q) <=> InLock(q)'
      BY <1>10 DEF Restart, InLock
    <2>. QED  BY <1>10, <2>1, HolderUnchanged DEF Restart
  <1>11. CASE GrowOld
    <2>1. \A q \in Procs : InLock(q) <=> InLock(q)'
      BY <1>11 DEF GrowOld, InLock
    <2>2. file # NoFile /\ file' # NoFile
      BY <1>11 DEF GrowOld, Files, NoFile
    <2>. QED  BY <2>1, <2>2, HolderUnchanged
  <1>12. CASE UNCHANGED vars
    <2>1. \A q \in Procs : InLock(q) <=> InLock(q)'
      BY <1>12 DEF vars, InLock
    <2>. QED  BY <1>12, <2>1, HolderUnchanged DEF vars
  <1>. QED
    BY <1>1, <1>2, <1>3, <1>4, <1>5, <1>6, <1>7, <1>8, <1>9, <1>10, <1>11, <1>12
       DEF Next, Start, Proceed, Enter, Exit, Abstract!LockNext

(* The lock file implements the abstract lock: nobody but its holder gives  *)
(* it back, and only a lock that was left behind is reclaimed.             *)
THEOREM LockImplementsFileLock ==
  ASSUME Orderly
  PROVE  Spec => ImplementsFileLock
  <1>1. Init => Abstract!LockInit
    BY DEF Init, Abstract!LockInit, Holder, InLock, Inside
  <1>2. Orderly /\ IInv /\ HolderFacts /\ HolderFacts' /\ [Next]_vars
          => [Abstract!LockNext]_Holder
    BY FileLockStep
  <1>3. IInv => HolderFacts
    BY HolderCases
  <1>. QED
    BY <1>1, <1>2, <1>3, Invariant, PTL DEF Spec, ImplementsFileLock, Abstract!LockSpec
=============================================================================
