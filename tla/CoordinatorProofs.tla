------------------------- MODULE CoordinatorProofs --------------------------
(***************************************************************************)
(* What Coordinator guarantees for every set of processes, tasks and        *)
(* requests, every bound, and whatever crashes and failing writes occur.    *)
(***************************************************************************)
EXTENDS Coordinator, SequenceTheorems, TLAPS

(* What the provers need of a sequence that grew at its end. *)
LEMMA AppendFacts ==
  ASSUME NEW S, NEW s \in Seq(S), NEW e \in S
  PROVE  /\ Append(s, e) \in Seq(S)
         /\ DOMAIN s = 1..Len(s) /\ Len(s) \in Nat
         /\ DOMAIN Append(s, e) = 1..(Len(s) + 1)
         /\ \A i \in DOMAIN s : Append(s, e)[i] = s[i]
         /\ Append(s, e)[Len(s) + 1] = e
  OBVIOUS

LEMMA FingerprintFacts ==
  ASSUME NEW fp \in Fingerprints
  PROVE  /\ fp.request \in Requests /\ fp.request \in RequestType
         /\ fp.request.task \in Tasks /\ fp.request.campaign # NoCampaign
         /\ fp # NoFingerprint
         /\ Outcome(fp) \in Statuses
  <1>1. fp.request \in Requests /\ fp.request \in RequestType
    BY CoordinatorAssumption DEF Fingerprints
  <1>2. fp.request.task \in Tasks /\ fp.request.campaign # NoCampaign
        /\ fp.request.status \in HandoffStatuses
    BY <1>1, CoordinatorAssumption DEF RequestType
  <1>3. fp # NoFingerprint
    BY <1>2, CoordinatorAssumption DEF NoFingerprint, Fingerprint, NoRequest
  <1>4. Outcome(fp) \in Statuses
    BY <1>2 DEF Outcome, Statuses, HandoffStatuses
  <1>. QED  BY <1>1, <1>2, <1>3, <1>4

-----------------------------------------------------------------------------
(* Type correctness needs to know that a call that was started has its     *)
(* arguments, and that a call about to write has an entry to write.        *)
Started ==
  \A p \in Procs :
     /\ pc[p] # "idle" => call[p].fp \in Fingerprints
     /\ pc[p] \in {"repairing", "appending", "writing"} => call[p].entry \in Entries

LEMMA NoEntryTyped ==
  /\ EmptyState \in States
  /\ NoCall \in CallType
  /\ NoEntry \notin Entries
  BY CoordinatorAssumption
     DEF EmptyState, States, NoCall, CallType, NoEntry, Entries, Statuses

(* The log grows by the record of the call that is appending, or by what   *)
(* such a record makes of a tail that was not repaired.                    *)
LEMMA AppendedTyped ==
  ASSUME TypeOK, Started, NEW p \in Procs, pc[p] = "appending"
  PROVE  /\ Event(p) \in Events
         /\ Appended(Event(p)) \in Seq(Events \cup {Corrupt})
  <1>1. Event(p) \in Events
    BY FingerprintFacts DEF Started, Event, Events, Task, Request
  <1>2. Append(log, Event(p)) \in Seq(Events \cup {Corrupt})
        /\ Append(log, Corrupt) \in Seq(Events \cup {Corrupt})
    BY <1>1 DEF TypeOK
  <1>3. Append(SubSeq(log, 1, Len(log) - 1), Corrupt) \in Seq(Events \cup {Corrupt})
    BY DEF TypeOK
  <1>. QED  BY <1>1, <1>2, <1>3 DEF Appended, TypeOK, Tails

LEMMA PartTyped ==
  ASSUME TypeOK, Started, NEW p \in Procs, pc[p] = "appending", PartOfEvent(p)
  PROVE  log' \in Seq(Events \cup {Corrupt}) /\ tail' \in Tails
  BY AppendedTyped DEF PartOfEvent, Tails, TypeOK

LEMMA TypeStep ==
  ASSUME TypeOK, Started, [Next]_vars
  PROVE  TypeOK' /\ Started'
  <1>. USE DEF TypeOK, Started, Goto, disk
  <1>1. ASSUME NEW p \in Procs, Submit(p) PROVE TypeOK' /\ Started'
    <2>1. PICK r \in Requests : call' = [call EXCEPT ![p].fp = Fingerprint(r, FALSE)]
      BY <1>1 DEF Submit
    <2>2. Fingerprint(r, FALSE) \in Fingerprints
      BY DEF Fingerprint, Fingerprints
    <2>3. /\ call' \in [Procs -> CallType]
          /\ call'[p].fp \in Fingerprints
          /\ \A q \in Procs \ {p} : call'[q] = call[q]
      BY <2>1, <2>2 DEF CallType
    <2>4. /\ pc' = [pc EXCEPT ![p] = "checking"] /\ calls' = calls + 1
          /\ UNCHANGED <<state, log, tail, lock, attested>>
      BY <1>1 DEF Submit
    <2>5. Started'
      BY <2>3, <2>4
    <2>. QED  BY <2>3, <2>4, <2>5 DEF Places
  <1>2. ASSUME NEW p \in Procs, Check(p) PROVE TypeOK' /\ Started'
    <2>1. PICK v \in {FALSE, Request(p).approval} :
            /\ call' = [call EXCEPT ![p].fp.verified = v]
            /\ attested' = IF v THEN attested \cup {<<Task(p), Request(p).handoff>>}
                                ELSE attested
      BY <1>2 DEF Check
    <2>2. /\ call[p].fp \in Fingerprints /\ Request(p) \in RequestType
      BY <1>2, FingerprintFacts DEF Check, Request
    <2>3. v \in BOOLEAN /\ Task(p) \in Tasks /\ Request(p).handoff \in STRING
      BY <2>1, <2>2 DEF RequestType, Task
    <2>4. [call[p].fp EXCEPT !.verified = v] \in Fingerprints
      BY <2>2, <2>3 DEF Fingerprints
    <2>5. call' \in [Procs -> CallType] /\ \A q \in Procs : call'[q].fp =
             IF q = p THEN [call[p].fp EXCEPT !.verified = v] ELSE call[q].fp
      BY <2>1, <2>4 DEF CallType
    <2>6. attested' \in SUBSET (Tasks \X STRING)
      BY <2>1, <2>3
    <2>. QED  BY <1>2, <2>4, <2>5, <2>6 DEF Check, Places
  <1>3. ASSUME NEW p \in Procs, Reject(p) \/ TimeOut(p) \/ Return(p)
        PROVE  TypeOK' /\ Started'
    BY <1>3, NoEntryTyped DEF Reject, TimeOut, Return, Places, Lock!Give, Lock!Leave
  <1>4. ASSUME NEW p \in Procs, Enter(p) PROVE TypeOK' /\ Started'
    BY <1>4 DEF Enter, Places, Inside, Lock!Take
  <1>5. ASSUME NEW p \in Procs, Refuse(p) \/ Repeat(p) PROVE TypeOK' /\ Started'
    BY <1>5 DEF Refuse, Repeat, Places, Inside
  <1>6. ASSUME NEW p \in Procs, Recover(p) PROVE TypeOK' /\ Started'
    <2>1. PICK i \in DOMAIN log :
            call' = [call EXCEPT ![p].base = state, ![p].entry = log[i].entry]
      BY <1>6 DEF Recover
    <2>2. log[i].entry \in Entries
      BY <1>6 DEF Recover, Readable, Events
    <2>5. /\ call' \in [Procs -> CallType]
          /\ call'[p].fp = call[p].fp /\ call'[p].entry \in Entries
          /\ \A q \in Procs \ {p} : call'[q] = call[q]
      BY <2>1, <2>2 DEF CallType
    <2>. QED  BY <1>6, <2>5 DEF Recover, Places, Inside
  <1>7. ASSUME NEW p \in Procs, Propose(p) PROVE TypeOK' /\ Started'
    <2>1. PICK a \in Attempts \cup {state.tasks[Task(p)].attempt} :
            call' = [call EXCEPT ![p].base = state, ![p].entry = Proposed(p, a)]
      BY <1>7 DEF Propose
    <2>2. call[p].fp \in Fingerprints /\ Task(p) \in Tasks
      BY <1>7, FingerprintFacts DEF Propose, Task, Request
    <2>3. a \in Nat
      BY <2>1, <2>2, CoordinatorAssumption DEF States, Entries, NoEntry
    <2>4. Proposed(p, a) \in Entries
      BY <2>2, <2>3, FingerprintFacts DEF Proposed, Entries
    <2>5. /\ call' \in [Procs -> CallType]
          /\ call'[p].fp = call[p].fp /\ call'[p].entry \in Entries
          /\ \A q \in Procs \ {p} : call'[q] = call[q]
      BY <2>1, <2>4 DEF CallType
    <2>. QED  BY <1>7, <2>5 DEF Propose, Places, Inside
  <1>8. ASSUME NEW p \in Procs, Repair(p) PROVE TypeOK' /\ Started'
    BY <1>8 DEF Repair, Places, Inside, Tails
  <1>9. ASSUME NEW p \in Procs, Log(p) PROVE TypeOK' /\ Started'
    <2>1. log' \in Seq(Events \cup {Corrupt}) /\ tail' \in Tails
      BY <1>9, AppendedTyped DEF Log, Tails
    <2>. QED  BY <1>9, <2>1 DEF Log, Places, Inside
  <1>10. ASSUME NEW p \in Procs, Write(p) PROVE TypeOK' /\ Started'
    <2>1. /\ Request(p).campaign \in STRING /\ Task(p) \in Tasks
          /\ call[p].entry \in Entries /\ call[p].base \in States
      BY <1>10, FingerprintFacts DEF Write, Request, Task, RequestType, CallType
    <2>2. state' \in States
      BY <1>10, <2>1 DEF Write, States
    <2>. QED  BY <1>10, <2>2 DEF Write, Places, Inside
  <1>11. ASSUME NEW p \in Procs, Answer(p) PROVE TypeOK' /\ Started'
    BY <1>11 DEF Answer, CallType, Places, Inside
  <1>12. ASSUME NEW p \in Procs, Fault(p) PROVE TypeOK' /\ Started'
    <2>1. log' \in Seq(Events \cup {Corrupt}) /\ tail' \in Tails
      BY <1>12, PartTyped DEF Fault
    <2>. QED  BY <1>12, <2>1 DEF Fault, Places, Inside
  <1>13. ASSUME NEW p \in Procs, Crash(p) PROVE TypeOK' /\ Started'
    <2>1. log' \in Seq(Events \cup {Corrupt}) /\ tail' \in Tails
      BY <1>13, PartTyped DEF Crash
    <2>2. lock' \in Procs \cup {Nobody, Left}
      BY <1>13 DEF Crash, Lock!Leave
    <2>. QED  BY <1>13, <2>1, <2>2, NoEntryTyped DEF Crash, Places
  <1>14. CASE Reclaim
    BY <1>14 DEF Reclaim, Lock!Reclaim
  <1>15. CASE UNCHANGED vars
    BY <1>15 DEF vars
  <1>. QED
    BY <1>1, <1>2, <1>3, <1>4, <1>5, <1>6, <1>7, <1>8, <1>9, <1>10, <1>11, <1>12,
       <1>13, <1>14, <1>15 DEF Next

LEMMA Typed == Spec => [](TypeOK /\ Started)
  <1>1. Init => TypeOK /\ Started
    BY NoEntryTyped DEF Init, TypeOK, Started, Lock!LockInit, Tails, Places
  <1>2. TypeOK /\ Started /\ [Next]_vars => TypeOK' /\ Started'
    BY TypeStep
  <1>. QED  BY <1>1, <1>2, PTL DEF Spec

(* Type correctness: whatever fails, every variable keeps its type. *)
THEOREM TypeCorrect == Spec => []TypeOK
  BY Typed, PTL

-----------------------------------------------------------------------------
(* The inductive invariant.  A record, and an entry about to become one,   *)
(* comes from a call that passed _validate_authority and carries what the  *)
(* verifier said; its status is the outcome of the code's rule.            *)
Vouched(fp, t) ==
  /\ fp \in Fingerprints
  /\ fp.request.task = t
  /\ fp.request.audited
  /\ fp.verified => <<t, fp.request.handoff>> \in attested

Sound(e, t) == e \in Entries /\ e.status = Outcome(e.fp) /\ Vouched(e.fp, t)

LogInv == \A i \in DOMAIN log : log[i] \in Events /\ Sound(log[i].entry, log[i].task)

(* A call that is about to write still has the state as it was read. *)
Planned(p) ==
  /\ call[p].base = state
  /\ SameCampaign(p)
  /\ Sound(call[p].entry, Task(p))
  /\ call[p].entry.fp = call[p].fp

CallOK(p) ==
  /\ pc[p] \in Inside => lock = p
  /\ pc[p] \in {"waiting"} \cup Inside => Vouched(call[p].fp, Task(p))
  /\ pc[p] \in {"repairing", "appending", "writing"} => Planned(p)
  /\ pc[p] \in {"repairing", "appending"} => \A i \in DOMAIN log : ~Pending(p, i)
  /\ pc[p] = "appending" => tail = "whole"
  /\ pc[p] = "writing" =>
       \E i \in DOMAIN log : IsLatest(i, Task(p)) /\ log[i].entry = call[p].entry
  /\ pc[p] = "scheduling" => Accepted(p)
  /\ call[p].ok => pc[p] = "leaving" /\ Accepted(p)

CallInv == \A p \in Procs : CallOK(p)

IInv ==
  /\ TypeOK /\ Started
  /\ LogInv /\ CallInv
  /\ StateIsLogged /\ OneCampaign /\ NoRecordRepeated

LEMMA IInvInit == Init => LogInv /\ CallInv /\ StateIsLogged /\ OneCampaign /\ NoRecordRepeated
  BY CoordinatorAssumption
     DEF Init, LogInv, CallInv, CallOK, StateIsLogged, OneCampaign, NoRecordRepeated, Inside,
         EmptyState, NoCall, Lock!LockInit

(* How the log changes: by the record of the one call that is appending. *)
LEMMA LogStep ==
  ASSUME IInv, [Next]_vars
  PROVE  \/ log' = log
         \/ \E p \in Procs : pc[p] = "appending" /\ log' = Append(log, Event(p))
  <1>1. ASSUME NEW p \in Procs, pc[p] = "appending" PROVE Appended(Event(p)) = Append(log, Event(p))
    BY <1>1 DEF IInv, CallInv, CallOK, Appended
  <1>2. ASSUME NEW p \in Procs, Log(p)
        PROVE  pc[p] = "appending" /\ log' = Append(log, Event(p))
    BY <1>1, <1>2 DEF Log
  <1>3. ASSUME NEW p \in Procs, Fault(p) \/ Crash(p)
        PROVE  log' = log \/ (pc[p] = "appending" /\ log' = Append(log, Event(p)))
    BY <1>1, <1>3 DEF Fault, Crash, PartOfEvent
  <1>4. ASSUME NEW p \in Procs,
               \/ Submit(p) \/ Check(p) \/ Reject(p) \/ Enter(p) \/ TimeOut(p) \/ Refuse(p)
               \/ Repeat(p) \/ Recover(p) \/ Propose(p) \/ Repair(p) \/ Write(p) \/ Answer(p)
               \/ Return(p)
        PROVE  log' = log
    BY <1>4 DEF Submit, Check, Reject, Enter, TimeOut, Refuse, Repeat, Recover, Propose,
                Repair, Write, Answer, Return, disk
  <1>5. CASE Reclaim \/ UNCHANGED vars
    BY <1>5 DEF Reclaim, vars, disk
  <1>. QED  BY <1>2, <1>3, <1>4, <1>5 DEF Next

(* How the state changes: by the entry of the one call that is writing. *)
LEMMA StateStep ==
  ASSUME IInv, [Next]_vars
  PROVE  \/ state' = state
         \/ \E p \in Procs : Write(p)
  BY DEF Next, Submit, Check, Reject, Enter, TimeOut, Refuse, Repeat, Recover, Propose, Repair,
         Log, Answer, Fault, Return, Crash, Reclaim, vars, disk

(* What the verifier vouched for is never forgotten. *)
LEMMA AttestedGrows ==
  ASSUME [Next]_vars
  PROVE  attested \subseteq attested'
  <1>1. ASSUME NEW p \in Procs, Check(p) PROVE attested \subseteq attested'
    BY <1>1 DEF Check
  <1>. QED
    BY <1>1 DEF Next, Submit, Reject, Enter, TimeOut, Refuse, Repeat, Recover, Propose, Repair,
         Log, Write, Answer, Fault, Return, Crash, Reclaim, vars, disk

LEMMA SoundStays ==
  ASSUME [Next]_vars, NEW e, NEW t, Sound(e, t)
  PROVE  Sound(e, t)'
  BY AttestedGrows DEF Sound, Vouched

LEMMA EventSound ==
  ASSUME IInv, NEW p \in Procs, pc[p] = "appending"
  PROVE  /\ Event(p) \in Events /\ Event(p) \in Events \cup {Corrupt}
         /\ Event(p).task = Task(p) /\ Event(p).entry = call[p].entry
         /\ Sound(Event(p).entry, Event(p).task)
         /\ log \in Seq(Events \cup {Corrupt})
  BY AppendedTyped DEF IInv, CallInv, CallOK, Planned, Event, TypeOK

LEMMA LogInvStep ==
  ASSUME IInv, [Next]_vars
  PROVE  LogInv'
  <1>. \A i \in DOMAIN log : log[i] \in Events /\ Sound(log[i].entry, log[i].task)
    BY DEF IInv, LogInv
  <1>1. CASE log' = log
    BY <1>1, SoundStays DEF LogInv
  <1>2. ASSUME NEW p \in Procs, pc[p] = "appending", log' = Append(log, Event(p))
        PROVE  LogInv'
    <2>1. \A i \in DOMAIN log' : log'[i] \in Events /\ Sound(log'[i].entry, log'[i].task)
      BY <1>2, EventSound, AppendFacts
    <2>. QED  BY <2>1, SoundStays DEF LogInv
  <1>. QED  BY <1>1, <1>2, LogStep

LEMMA RecordStep ==
  ASSUME IInv, [Next]_vars
  PROVE  NoRecordRepeated'
  <1>1. CASE log' = log
    BY <1>1 DEF IInv, NoRecordRepeated
  <1>2. ASSUME NEW p \in Procs, pc[p] = "appending", log' = Append(log, Event(p))
        PROVE  NoRecordRepeated'
    <2> SUFFICES ASSUME NEW i \in DOMAIN log', NEW j \in DOMAIN log',
                        i < j, log'[i].task = log'[j].task,
                        \A k \in DOMAIN log' : i < k /\ k < j => log'[k].task # log'[i].task
                 PROVE  log'[i].entry.fp # log'[j].entry.fp
      BY DEF NoRecordRepeated
    <2>1. /\ DOMAIN log = 1..Len(log) /\ Len(log) \in Nat
          /\ DOMAIN log' = 1..(Len(log) + 1)
          /\ \A k \in DOMAIN log : log'[k] = log[k]
          /\ log'[Len(log) + 1] = Event(p)
      BY <1>2, EventSound, AppendFacts
    <2>2. i \in DOMAIN log /\ log'[i] = log[i]
      BY <2>1
    <2>3. CASE j \in DOMAIN log
      BY <2>1, <2>2, <2>3 DEF IInv, NoRecordRepeated
    <2>4. CASE j = Len(log) + 1
      <3>1. log'[j].task = Task(p) /\ log'[j].entry = call[p].entry
        BY <1>2, <2>1, <2>4, EventSound
      <3>2. IsLatest(i, Task(p))
        BY <2>1, <2>2, <2>4, <3>1 DEF IsLatest
      <3>3. log[i].entry.fp # call[p].fp
        BY <1>2, <2>2, <3>2 DEF IInv, CallInv, CallOK, Pending
      <3>. QED  BY <1>2, <2>2, <3>1, <3>3 DEF IInv, CallInv, CallOK, Planned
    <2>. QED  BY <2>1, <2>3, <2>4
  <1>. QED  BY <1>1, <1>2, LogStep

LEMMA StateInvStep ==
  ASSUME IInv, [Next]_vars
  PROVE  StateIsLogged' /\ OneCampaign'
  <1>1. \A e : (\E i \in DOMAIN log : log[i] = e) => \E i \in DOMAIN log' : log'[i] = e
    <2>1. ASSUME NEW p \in Procs, pc[p] = "appending", log' = Append(log, Event(p))
          PROVE  \A i \in DOMAIN log : i \in DOMAIN log' /\ log'[i] = log[i]
      BY <2>1, EventSound, AppendFacts
    <2>. QED  BY <2>1, LogStep
  <1>2. CASE state' = state
    BY <1>1, <1>2 DEF IInv, StateIsLogged, OneCampaign
  <1>3. ASSUME NEW p \in Procs, Write(p) PROVE StateIsLogged' /\ OneCampaign'
    <2>1. /\ call[p].base = state /\ SameCampaign(p) /\ call[p].entry.fp = call[p].fp
          /\ call[p].entry \in Entries
      BY <1>3 DEF Write, IInv, CallInv, CallOK, Planned, Sound
    <2>2. PICK i \in DOMAIN log : IsLatest(i, Task(p)) /\ log[i].entry = call[p].entry
      BY <1>3 DEF Write, IInv, CallInv, CallOK
    <2>3. log[i] = [task |-> Task(p), entry |-> call[p].entry]
      BY <2>2 DEF IInv, LogInv, IsLatest, Events
    <2>4. /\ state'.campaign = Request(p).campaign
          /\ state'.tasks = [state.tasks EXCEPT ![Task(p)] = call[p].entry]
          /\ state.tasks \in [Tasks -> Entries \cup {NoEntry}]
      BY <1>3, <2>1 DEF Write, IInv, TypeOK, States
    <2>5. StateIsLogged'
      BY <1>1, <2>3, <2>4 DEF IInv, StateIsLogged
    <2>6. ASSUME NEW t \in Tasks, t # Task(p), state.tasks[t] # NoEntry
          PROVE  state.tasks[t].fp.request.campaign = Request(p).campaign
      <3>1. state.tasks[t].fp.request.campaign = state.campaign
        BY <2>6 DEF IInv, OneCampaign
      <3>2. state.tasks[t].fp \in Fingerprints
        BY <2>4, <2>6 DEF Entries
      <3>. QED  BY <2>1, <3>1, <3>2, FingerprintFacts DEF SameCampaign
    <2>7. OneCampaign'
      BY <2>1, <2>4, <2>6 DEF OneCampaign, Request
    <2>. QED  BY <2>5, <2>7
  <1>. QED  BY <1>2, <1>3, StateStep

(* A step of one call leaves the others alone: it changes the files only   *)
(* inside the lock, where no other call is.                                *)
LEMMA OthersKeep ==
  ASSUME IInv, [Next]_vars, NEW p \in Procs, NEW q \in Procs \ {p},
         pc'[q] = pc[q], call'[q] = call[q],
         UNCHANGED <<state, log, tail>> \/ pc[p] \in Inside,
         lock' = lock \/ lock \in {p, Nobody, Left}
  PROVE  CallOK(q)'
  <1>1. Vouched(call[q].fp, Task(q)) => Vouched(call[q].fp, Task(q))'
    BY AttestedGrows DEF Vouched, Task, Request
  <1>2. CASE pc[q] \in Inside
    <2>1. lock = q /\ pc[p] \notin Inside
      BY <1>2 DEF IInv, CallInv, CallOK
    <2>2. UNCHANGED <<state, log, tail, lock>>
      BY <2>1, CoordinatorAssumption
    <2>3. Planned(q) => Planned(q)'
      BY <2>2, SoundStays DEF Planned, SameCampaign, Task, Request, Sound, Vouched
    <2>. QED
      BY <1>1, <1>2, <2>2, <2>3
         DEF IInv, CallInv, CallOK, Pending, IsLatest, Accepted, Task, Request
  <1>3. CASE pc[q] \notin Inside
    BY <1>1, <1>3 DEF IInv, CallInv, CallOK, Inside
  <1>. QED  BY <1>2, <1>3

LEMMA CallStep ==
  ASSUME IInv, [Next]_vars
  PROVE  CallInv'
  <1>. USE DEF Goto, disk
  <1>. /\ pc \in [Procs -> Places] /\ call \in [Procs -> CallType]
       /\ \A p \in Procs : CallOK(p)
    BY DEF IInv, TypeOK, CallInv
  <1>1. ASSUME NEW p \in Procs, Submit(p) PROVE CallInv'
    <2>1. /\ pc'[p] = "checking" /\ call'[p].ok = call[p].ok /\ ~call[p].ok
          /\ \A q \in Procs \ {p} : pc'[q] = pc[q] /\ call'[q] = call[q]
      BY <1>1 DEF Submit, CallType, CallOK
    <2>2. CallOK(p)'
      BY <2>1 DEF CallOK, Inside
    <2>. QED  BY <1>1, <2>1, <2>2, OthersKeep DEF Submit, CallInv
  <1>2. ASSUME NEW p \in Procs, Check(p) PROVE CallInv'
    <2>1. PICK v \in {FALSE, Request(p).approval} :
            /\ call' = [call EXCEPT ![p].fp.verified = v]
            /\ attested' = IF v THEN attested \cup {<<Task(p), Request(p).handoff>>}
                                ELSE attested
      BY <1>2 DEF Check
    <2>2. /\ call[p].fp \in Fingerprints /\ Request(p).audited
      BY <1>2 DEF Check, IInv, Started
    <2>3. v \in BOOLEAN
      BY <2>1, <2>2, FingerprintFacts DEF Request, RequestType
    <2>4. [call[p].fp EXCEPT !.verified = v] \in Fingerprints
      BY <2>2, <2>3 DEF Fingerprints
    <2>5. /\ call'[p].fp = [call[p].fp EXCEPT !.verified = v]
          /\ call'[p].ok = call[p].ok /\ ~call[p].ok
          /\ pc'[p] = "waiting"
          /\ \A q \in Procs \ {p} : pc'[q] = pc[q] /\ call'[q] = call[q]
      BY <1>2, <2>1 DEF Check, CallType, CallOK
    <2>6. /\ call'[p].fp.request = call[p].fp.request /\ call'[p].fp.verified = v
      BY <2>2, <2>5 DEF Fingerprints
    <2>7. CallOK(p)'
      BY <2>1, <2>2, <2>4, <2>5, <2>6 DEF CallOK, Inside, Vouched, Task, Request
    <2>. QED  BY <1>2, <2>5, <2>7, OthersKeep DEF Check, CallInv
  <1>3. ASSUME NEW p \in Procs, Reject(p) \/ TimeOut(p) \/ Return(p) \/ Crash(p)
        PROVE  CallInv'
    <2>1. /\ pc'[p] = "idle" /\ ~call'[p].ok
          /\ \A q \in Procs \ {p} : pc'[q] = pc[q] /\ call'[q] = call[q]
      BY <1>3 DEF Reject, TimeOut, Return, Crash, NoCall
    <2>2. CallOK(p)'
      BY <2>1 DEF CallOK, Inside
    <2>3. UNCHANGED <<state, log, tail>> \/ pc[p] \in Inside
      BY <1>3 DEF Reject, TimeOut, Return, Crash, Inside
    <2>4. lock' = lock \/ lock \in {p, Nobody, Left}
      BY <1>3 DEF Reject, TimeOut, Return, Crash, Lock!Give, Lock!Leave
    <2>. QED  BY <2>1, <2>2, <2>3, <2>4, OthersKeep DEF CallInv
  <1>4. ASSUME NEW p \in Procs, Enter(p) PROVE CallInv'
    <2>1. /\ pc'[p] = "entered" /\ pc[p] = "waiting" /\ call' = call
          /\ lock = Nobody /\ lock' = p /\ UNCHANGED <<state, log, tail, attested>>
          /\ \A q \in Procs \ {p} : pc'[q] = pc[q]
      BY <1>4 DEF Enter, Lock!Take
    <2>2. CallOK(p)'
      BY <2>1 DEF CallOK, Inside, Vouched, Task, Request
    <2>. QED  BY <2>1, <2>2, OthersKeep DEF CallInv
  <1>5. ASSUME NEW p \in Procs, Refuse(p) \/ Repeat(p) PROVE CallInv'
    <2>1. /\ pc[p] = "entered" /\ call' = call
          /\ pc'[p] = "leaving" \/ (pc'[p] = "scheduling" /\ Accepted(p))
          /\ UNCHANGED <<state, log, tail, lock, attested>>
          /\ \A q \in Procs \ {p} : pc'[q] = pc[q]
      BY <1>5 DEF Refuse, Repeat
    <2>2. CallOK(p)'
      BY <2>1 DEF CallOK, Inside, Vouched, Task, Request, Accepted
    <2>. QED  BY <2>1, <2>2, OthersKeep DEF CallInv
  <1>6. ASSUME NEW p \in Procs, Recover(p) PROVE CallInv'
    <2>1. PICK i \in DOMAIN log :
            /\ Pending(p, i)
            /\ call' = [call EXCEPT ![p].base = state, ![p].entry = log[i].entry]
      BY <1>6 DEF Recover
    <2>2. /\ call'[p].base = state /\ call'[p].entry = log[i].entry
          /\ call'[p].fp = call[p].fp /\ call'[p].ok = call[p].ok /\ ~call[p].ok
          /\ pc[p] = "entered" /\ pc'[p] = "writing" /\ SameCampaign(p)
          /\ UNCHANGED <<state, log, tail, lock, attested>>
          /\ \A q \in Procs \ {p} : pc'[q] = pc[q] /\ call'[q] = call[q]
      BY <1>6, <2>1 DEF Recover, CallType, CallOK
    <2>3. /\ Sound(log[i].entry, Task(p)) /\ log[i].entry.fp = call[p].fp
          /\ IsLatest(i, Task(p))
      BY <2>1 DEF Pending, IsLatest, IInv, LogInv
    <2>4. Planned(p)'
      BY <2>2, <2>3 DEF Planned, Sound, Vouched, SameCampaign, Task, Request
    <2>5. \E j \in DOMAIN log' : IsLatest(j, Task(p))' /\ log'[j].entry = call'[p].entry
      BY <2>2, <2>3 DEF IsLatest, Task, Request
    <2>6. CallOK(p)'
      BY <2>2, <2>4, <2>5 DEF CallOK, Inside, Vouched, Task, Request
    <2>. QED  BY <2>2, <2>6, OthersKeep DEF CallInv
  <1>7. ASSUME NEW p \in Procs, Propose(p) PROVE CallInv'
    <2>1. PICK a \in Attempts \cup {state.tasks[Task(p)].attempt} :
            call' = [call EXCEPT ![p].base = state, ![p].entry = Proposed(p, a)]
      BY <1>7 DEF Propose
    <2>2. /\ call'[p].base = state /\ call'[p].entry = Proposed(p, a)
          /\ call'[p].fp = call[p].fp /\ call'[p].ok = call[p].ok /\ ~call[p].ok
          /\ pc[p] = "entered" /\ pc'[p] = "repairing" /\ SameCampaign(p)
          /\ \A i \in DOMAIN log : ~Pending(p, i)
          /\ UNCHANGED <<state, log, tail, lock, attested>>
          /\ \A q \in Procs \ {p} : pc'[q] = pc[q] /\ call'[q] = call[q]
      BY <1>7, <2>1 DEF Propose, CallType, CallOK
    <2>3. call'[p].entry \in Entries
      BY <2>2, TypeStep DEF IInv, Started
    <2>4. Planned(p)'
      <3>1. Vouched(call[p].fp, Task(p))
        BY <2>2 DEF CallOK, Inside
      <3>2. call'[p].entry.fp = call[p].fp /\ call'[p].entry.status = Outcome(call[p].fp)
        BY <2>2 DEF Proposed
      <3>3. Sound(call[p].entry, Task(p))'
        BY <2>2, <2>3, <3>1, <3>2 DEF Sound, Vouched, Task, Request
      <3>. QED  BY <2>2, <3>2, <3>3 DEF Planned, SameCampaign, Request
    <2>5. \A i \in DOMAIN log' : ~Pending(p, i)'
      BY <2>2 DEF Pending, IsLatest, Task, Request
    <2>6. CallOK(p)'
      BY <2>2, <2>4, <2>5 DEF CallOK, Inside, Vouched, Task, Request
    <2>. QED  BY <2>2, <2>6, OthersKeep DEF CallInv
  <1>8. ASSUME NEW p \in Procs, Repair(p) PROVE CallInv'
    <2>1. /\ pc[p] = "repairing" /\ pc'[p] = "appending" /\ tail' = "whole" /\ call' = call
          /\ UNCHANGED <<state, log, lock, attested>>
          /\ \A q \in Procs \ {p} : pc'[q] = pc[q]
      BY <1>8 DEF Repair
    <2>2. Planned(p)'
      BY <2>1 DEF CallOK, Planned, Sound, Vouched, SameCampaign, Task, Request
    <2>3. \A i \in DOMAIN log : ~Pending(p, i)
      BY <2>1 DEF CallOK
    <2>4. \A i \in DOMAIN log' : ~Pending(p, i)'
      BY <2>1, <2>3 DEF Pending, IsLatest, Task, Request
    <2>5. CallOK(p)'
      BY <2>1, <2>2, <2>4 DEF CallOK, Inside, Vouched, Task, Request
    <2>. QED  BY <2>1, <2>5, OthersKeep DEF CallInv, Inside
  <1>9. ASSUME NEW p \in Procs, Log(p) PROVE CallInv'
    <2>1. /\ pc[p] = "appending" /\ pc'[p] = "writing" /\ call' = call
          /\ log' = Append(log, Event(p))
          /\ UNCHANGED <<state, lock, attested>>
          /\ \A q \in Procs \ {p} : pc'[q] = pc[q]
      BY <1>9 DEF Log, CallOK, Appended
    <2>2. Planned(p)'
      BY <2>1 DEF CallOK, Planned, Sound, Vouched, SameCampaign, Task, Request
    <2>3. /\ Len(log) + 1 \in DOMAIN log' /\ DOMAIN log' = 1..(Len(log) + 1)
          /\ Len(log) \in Nat /\ log'[Len(log) + 1] = Event(p)
      BY <2>1, EventSound, AppendFacts
    <2>4. /\ Event(p).task = Task(p) /\ Event(p).entry = call[p].entry
          /\ Task(p)' = Task(p)
      BY <2>1, EventSound DEF Task, Request
    <2>5. \A k \in DOMAIN log' : ~(k > Len(log) + 1)
      BY <2>3
    <2>6. \E j \in DOMAIN log' : IsLatest(j, Task(p))' /\ log'[j].entry = call'[p].entry
      BY <2>1, <2>3, <2>4, <2>5 DEF IsLatest
    <2>7. CallOK(p)'
      BY <2>1, <2>2, <2>6 DEF CallOK, Inside, Vouched, Task, Request
    <2>. QED  BY <2>1, <2>7, OthersKeep DEF CallInv, Inside
  <1>10. ASSUME NEW p \in Procs, Write(p) PROVE CallInv'
    <2>1. /\ pc[p] = "writing" /\ pc'[p] = "scheduling" /\ call' = call
          /\ state'.tasks = [state.tasks EXCEPT ![Task(p)] = call[p].entry]
          /\ state.tasks \in [Tasks -> Entries \cup {NoEntry}]
          /\ call[p].entry.fp = call[p].fp
          /\ UNCHANGED <<log, tail, lock, attested>>
          /\ \A q \in Procs \ {p} : pc'[q] = pc[q]
      BY <1>10 DEF Write, CallOK, Planned, IInv, TypeOK, States
    <2>2. Task(p) \in Tasks
      BY <2>1, FingerprintFacts DEF CallOK, Inside, Vouched, Task, Request
    <2>3. Accepted(p)'
      BY <2>1, <2>2 DEF Accepted, Task, Request
    <2>4. CallOK(p)'
      BY <2>1, <2>3 DEF CallOK, Inside, Vouched, Task, Request
    <2>. QED  BY <2>1, <2>4, OthersKeep DEF CallInv, Inside
  <1>11. ASSUME NEW p \in Procs, Answer(p) PROVE CallInv'
    <2>1. /\ pc[p] = "scheduling" /\ pc'[p] = "leaving" /\ call'[p].fp = call[p].fp
          /\ UNCHANGED <<state, log, tail, lock, attested>>
          /\ \A q \in Procs \ {p} : pc'[q] = pc[q] /\ call'[q] = call[q]
      BY <1>11 DEF Answer, CallType
    <2>2. CallOK(p)'
      BY <2>1 DEF CallOK, Inside, Vouched, Accepted, Task, Request
    <2>. QED  BY <2>1, <2>2, OthersKeep DEF CallInv
  <1>12. ASSUME NEW p \in Procs, Fault(p) PROVE CallInv'
    <2>1. /\ pc[p] \in Inside /\ pc'[p] = "leaving" /\ call' = call /\ ~call[p].ok
          /\ UNCHANGED <<state, lock, attested>>
          /\ \A q \in Procs \ {p} : pc'[q] = pc[q]
      BY <1>12 DEF Fault, Inside, CallOK
    <2>2. CallOK(p)'
      BY <2>1 DEF CallOK, Inside, Vouched, Task, Request
    <2>. QED  BY <2>1, <2>2, OthersKeep DEF CallInv
  <1>13. CASE Reclaim
    BY <1>13, CoordinatorAssumption
       DEF Reclaim, Lock!Reclaim, CallInv, CallOK, Vouched, Planned, Sound, SameCampaign,
           Pending, IsLatest, Accepted, Task, Request
  <1>14. CASE UNCHANGED vars
    BY <1>14 DEF vars, CallInv, CallOK, Vouched, Planned, Sound, SameCampaign, Pending,
                 IsLatest, Accepted, Task, Request
  <1>. QED
    BY <1>1, <1>2, <1>3, <1>4, <1>5, <1>6, <1>7, <1>8, <1>9, <1>10, <1>11, <1>12,
       <1>13, <1>14 DEF Next

LEMMA Invariant == Spec => []IInv
  <1>1. Init /\ TypeOK /\ Started => IInv
    BY IInvInit DEF IInv
  <1>2. TypeOK' /\ Started' /\ IInv /\ [Next]_vars => IInv'
    BY LogInvStep, CallStep, StateInvStep, RecordStep DEF IInv
  <1>. QED  BY <1>1, <1>2, Typed, PTL DEF Spec

-----------------------------------------------------------------------------
(* The log is written ahead of the state. *)
THEOREM WriteAhead == Spec => []StateIsLogged
  <1>1. IInv => StateIsLogged
    BY DEF IInv
  <1>. QED  BY <1>1, Invariant, PTL

(* No acceptance has two records in a row, however often it is retried. *)
THEOREM RetryAddsNoRecord == Spec => []NoRecordRepeated
  <1>1. IInv => NoRecordRepeated
    BY DEF IInv
  <1>. QED  BY <1>1, Invariant, PTL

(* Outcomes of two campaigns never meet in the state. *)
THEOREM CampaignsNotMixed == Spec => []OneCampaign
  <1>1. IInv => OneCampaign
    BY DEF IInv
  <1>. QED  BY <1>1, Invariant, PTL

(* No append ever joins a record to a torn one. *)
THEOREM LogReadable == Spec => []LogStaysReadable
  <1>1. ASSUME IInv PROVE LogStaysReadable
    <2>1. Corrupt \notin Events
      BY CoordinatorAssumption DEF Corrupt, Events
    <2>. QED  BY <1>1, <2>1 DEF IInv, LogInv, LogStaysReadable, Readable
  <1>. QED  BY <1>1, Invariant, PTL

(* Callers are told the truth about what was accepted. *)
THEOREM AnswersMaterialised == Spec => []AnswerIsMaterialised
  <1>1. IInv => AnswerIsMaterialised
    BY DEF IInv, CallInv, CallOK, AnswerIsMaterialised, Accepted
  <1>. QED  BY <1>1, Invariant, PTL

(* Gates fail closed: an entry of the state is one of the log's, and every  *)
(* record of the log is sound.                                             *)
THEOREM GatesClosed == Spec => []GatesFailClosed
  <1>1. ASSUME IInv PROVE GatesFailClosed
    <2> SUFFICES ASSUME NEW t \in Tasks, state.tasks[t].status = "completed"
                 PROVE  LET r == state.tasks[t].fp.request
                        IN  /\ r.status = "complete" /\ r.audited
                            /\ t \in NeedsReview => r.reviewer
                            /\ t \in NeedsHuman => <<t, r.handoff>> \in attested
      BY DEF GatesFailClosed
    <2>1. PICK i \in DOMAIN log : log[i] = [task |-> t, entry |-> state.tasks[t]]
      BY <1>1 DEF IInv, StateIsLogged, NoEntry
    <2>2. Sound(state.tasks[t], t)
      BY <1>1, <2>1 DEF IInv, LogInv
    <2>3. /\ state.tasks[t].fp.request.status \in HandoffStatuses
          /\ state.tasks[t].fp.request.task = t
          /\ Outcome(state.tasks[t].fp) = "completed"
      BY <2>2, FingerprintFacts DEF Sound, Vouched, RequestType
    <2>. QED  BY <2>2, <2>3 DEF Sound, Vouched, Outcome, HandoffStatuses
  <1>. QED  BY <1>1, Invariant, PTL

(* The state of a task moves to the latest record of the task and nowhere   *)
(* else.                                                                   *)
THEOREM StateMovesWithLog == Spec => StateFollowsLog
  <1>1. ASSUME IInv, [Next]_vars,
               NEW t \in Tasks, state'.tasks[t] # state.tasks[t]
        PROVE  \E i \in DOMAIN log : IsLatest(i, t) /\ log[i].entry = state'.tasks[t]
    <2>1. PICK p \in Procs : Write(p)
      BY <1>1, StateStep
    <2>2. /\ state'.tasks = [state.tasks EXCEPT ![Task(p)] = call[p].entry]
          /\ state.tasks \in [Tasks -> Entries \cup {NoEntry}]
      BY <1>1, <2>1 DEF Write, IInv, CallInv, CallOK, Planned, TypeOK, States
    <2>3. t = Task(p) /\ state'.tasks[t] = call[p].entry
      BY <1>1, <2>2
    <2>. QED  BY <1>1, <2>1, <2>3 DEF Write, IInv, CallInv, CallOK
  <1>2. IInv /\ [Next]_vars =>
          [\A t \in Tasks : state'.tasks[t] # state.tasks[t] =>
             \E i \in DOMAIN log : IsLatest(i, t) /\ log[i].entry = state'.tasks[t]]_vars
    BY <1>1
  <1>. QED  BY <1>2, Invariant, PTL DEF Spec, StateFollowsLog
=============================================================================
