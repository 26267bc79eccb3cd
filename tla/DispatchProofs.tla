---------------------------- MODULE DispatchProofs ----------------------------
(***************************************************************************)
(* What the workspace manager keeps, for every set of processes, sessions   *)
(* and commits: with overlapping calls there is a record of every worktree; *)
(* without, the record is right about it and its session id is used once.  *)
(*                                                                          *)
(* And what a local dispatch acceptance stands for, for every policy and    *)
(* packet set as well.  A step of Dispatch is one of the workspace manager  *)
(* or leaves its state alone, so what is shown of that holds here too; the  *)
(* rest is about the documents.                                            *)
(***************************************************************************)
EXTENDS Dispatch, TLAPS

(* A session that never saw two calls at a time has one at most.           *)
Alone ==
  \A s \in Sessions : ~contended[s] =>
    \A p, q \in Procs : call[p].session = s /\ call[q].session = s => p = q

(* From its first write on a call has a record in the file, and it will     *)
(* not write "removed" before it is there.                                 *)
CallInv ==
  \A p \in Procs :
    /\ call[p].step \notin {"idle", "begin"} => record[call[p].session] # None
    /\ call[p].step # "removed" => call[p].copy.status # "removed"

(* What an undisturbed call can count on.                                  *)
PlaceInv ==
  \A p \in Procs :
    call[p].step # "idle" /\ ~contended[call[p].session] =>
      /\ call[p].step = "adding" => record[call[p].session].status # "removed"
      /\ call[p].step = "removed" => tree[call[p].session] = None
      /\ call[p].step \in {"begin", "resolve", "add", "adding"} => made[call[p].session] = 0

(* What is known of a session's worktree.                                  *)
TreeInv ==
  \A s \in Sessions :
    /\ tree[s] # None => made[s] > 0
    /\ made[s] > 0 => record[s] # None
    /\ ~contended[s] => /\ tree[s] # None => record[s].status # "removed"
                        /\ made[s] <= 1

IInv == WsTypeOK /\ Alone /\ CallInv /\ PlaceInv /\ TreeInv

-----------------------------------------------------------------------------
LEMMA StepsAre ==
  /\ DOMAIN After = {"begin", "add", "head", "ready", "failed", "unregister", "removed"}
  /\ Steps = {"begin", "add", "head", "ready", "failed", "unregister", "removed",
               "idle", "resolve", "adding", "reading", "removing"}
  BY DEF Steps, After

LEMMA SaveLeads ==
  ASSUME NEW x \in DOMAIN After
  PROVE  /\ After[x] \in {"idle", "resolve", "adding", "reading", "removing"}
         /\ x = "begin" <=> After[x] = "resolve"
         /\ x = "add" <=> After[x] = "adding"
         /\ x = "removed" => After[x] = "idle"
  BY DEF After

(* The three ways a call goes on: to a step, to a step with a status of its  *)
(* own, to its end.                                                        *)
LEMMA GotoIs ==
  ASSUME WsTypeOK, NEW p \in Procs, NEW x \in Steps, call[p].session \in Sessions, Goto(p, x)
  PROVE  /\ call' \in [Procs -> Calls]
         /\ call'[p].step = x /\ call'[p].session = call[p].session
         /\ call'[p].copy = call[p].copy
         /\ \A q \in Procs \ {p} : call'[q] = call[q]
  BY DEF Goto, WsTypeOK, Calls

LEMMA ConcludeIs ==
  ASSUME WsTypeOK, NEW p \in Procs, NEW x \in {"ready", "failed", "removed"},
         call[p].session \in Sessions, Conclude(p, x)
  PROVE  /\ call' \in [Procs -> Calls]
         /\ call'[p].step = x /\ call'[p].session = call[p].session
         /\ call'[p].copy.status = x
         /\ \A q \in Procs \ {p} : call'[q] = call[q]
<1>1. /\ call[p] \in Calls /\ call[p].copy \in Records /\ x \in Steps
      /\ x \in {"creating", "ready", "failed", "removed"}
  BY StepsAre DEF WsTypeOK, Calls
<1>2. call' = [call EXCEPT ![p] = [step |-> x, session |-> call[p].session,
                            copy |-> [status |-> x, head |-> call[p].copy.head]]]
  BY DEF Conclude
<1>3. [step |-> x, session |-> call[p].session,
       copy |-> [status |-> x, head |-> call[p].copy.head]] \in Calls
  BY <1>1 DEF Calls, Records
<1>. QED  BY <1>2, <1>3 DEF WsTypeOK

LEMMA EndIs ==
  ASSUME WsTypeOK, NEW p \in Procs, End(p)
  PROVE  /\ call' \in [Procs -> Calls]
         /\ call'[p].step = "idle" /\ call'[p].session = None
         /\ call'[p].copy.status = "creating"
         /\ \A q \in Procs \ {p} : call'[q] = call[q]
<1>1. Idle \in Calls
  BY StepsAre DEF Idle, Calls, Fresh, Records
<1>. QED  BY <1>1 DEF End, WsTypeOK, Idle, Fresh

(* An exception leads to a last write that says "failed", or ends the call. *)
LEMMA RaiseIs ==
  ASSUME WsTypeOK, NEW p \in Procs, call[p].step # "idle", Raise(p)
  PROVE  /\ call' \in [Procs -> Calls]
         /\ \/ /\ call'[p].step = "failed" /\ call'[p].session = call[p].session
               /\ call'[p].copy.status = "failed"
               /\ call[p].step \in {"resolve", "add", "head", "ready", "adding", "reading"}
            \/ /\ call'[p].step = "idle" /\ call'[p].session = None
               /\ call'[p].copy.status = "creating"
         /\ \A q \in Procs \ {p} : call'[q] = call[q]
<1>1. CASE call[p].step \in Guarded \cup {"adding", "reading"}
  <2>1. Conclude(p, "failed")
    BY <1>1 DEF Raise
  <2>. QED  BY <2>1, <1>1, ConcludeIs DEF WsTypeOK, Guarded
<1>2. CASE call[p].step \notin Guarded \cup {"adding", "reading"}
  BY <1>2, EndIs DEF Raise
<1>. QED  BY <1>1, <1>2

LEMMA StartIs ==
  ASSUME WsTypeOK, NEW p \in Procs, NEW s \in Sessions, NEW x \in {"begin", "unregister"},
         NEW copy \in Records, Start(p, s, x, copy)
  PROVE  /\ call[p].step = "idle"
         /\ call' \in [Procs -> Calls]
         /\ call'[p].step = x /\ call'[p].session = s /\ call'[p].copy = copy
         /\ \A q \in Procs \ {p} : call'[q] = call[q]
         /\ contended' \in [Sessions -> BOOLEAN]
         /\ \A r \in Sessions \ {s} : contended'[r] = contended[r]
         /\ ~contended'[s] => ~contended[s] /\ \A q \in Procs : call[q].session # s
         /\ UNCHANGED <<record, tree, made>>
<1>1. [step |-> x, session |-> s, copy |-> copy] \in Calls
  BY StepsAre DEF Calls
<1>2. /\ call[p].step = "idle"
      /\ call' = [call EXCEPT ![p] = [step |-> x, session |-> s, copy |-> copy]]
      /\ contended' = [contended EXCEPT ![s] = @ \/ \E q \in Procs : call[q].session = s]
      /\ UNCHANGED <<record, tree, made>>
  BY DEF Start
<1>3. contended' \in [Sessions -> BOOLEAN]
  BY <1>2, Zenon DEF WsTypeOK
<1>4. /\ \A r \in Sessions \ {s} : contended'[r] = contended[r]
      /\ contended'[s] <=> contended[s] \/ \E q \in Procs : call[q].session = s
  BY <1>2 DEF WsTypeOK
<1>. QED  BY <1>1, <1>2, <1>3, <1>4 DEF WsTypeOK

-----------------------------------------------------------------------------
(* A step keeps the invariant; each action by what it makes of its call.   *)
LEMMA InvStep == IInv /\ [WsNext]_wsVars => IInv'
<1> SUFFICES ASSUME IInv, [WsNext]_wsVars PROVE IInv'
  OBVIOUS
<1> USE WorkspaceAssumption DEF IInv
<1>1. ASSUME NEW p \in Procs, NEW s \in Sessions, Create(p, s) \/ Remove(p, s)
      PROVE  IInv'
  <2>1. PICK x \in {"begin", "unregister"}, copy \in Records :
          /\ Start(p, s, x, copy) /\ copy.status # "removed"
          /\ x = "begin" => record[s] = None
          /\ x = "unregister" => record[s] # None
    <3>1. CASE Create(p, s)
      BY <3>1 DEF Create, Unused, Fresh, Records
    <3>2. CASE Remove(p, s)
      BY <3>2 DEF Remove, Known, WsTypeOK
    <3>. QED  BY <1>1, <3>1, <3>2
  <2>. USE <2>1, StartIs
  <2>1a. WsTypeOK'  BY DEF WsTypeOK
  <2>2. Alone'      BY DEF Alone, WsTypeOK
  <2>3. CallInv'    BY DEF CallInv
  <2>4. PlaceInv'   BY DEF PlaceInv, TreeInv, WsTypeOK
  <2>5. TreeInv'    BY DEF TreeInv
  <2>. QED  BY <2>1a, <2>2, <2>3, <2>4, <2>5
<1>2. ASSUME NEW p \in Procs, Save(p) PROVE IInv'
  <2>1. /\ call[p].step \in DOMAIN After /\ call[p].session \in Sessions
        /\ record' = [record EXCEPT ![call[p].session] = call[p].copy]
        /\ call[p].copy \in Records
        /\ UNCHANGED <<tree, made, contended>>
    BY <1>2, StepsAre DEF Save, Write, WsTypeOK, Calls
  <2>1a. /\ call' \in [Procs -> Calls]
         /\ \/ /\ call'[p].step = After[call[p].step] /\ call'[p].session = call[p].session
               /\ call'[p].copy = call[p].copy /\ call'[p].step # "idle"
            \/ /\ call'[p].step = "idle" /\ call'[p].session = None
               /\ call'[p].copy.status = "creating"
         /\ \A q \in Procs \ {p} : call'[q] = call[q]
    BY <1>2, <2>1, GotoIs, EndIs, SaveLeads, StepsAre DEF Save
  <2>2. WsTypeOK'  BY <2>1, <2>1a, SaveLeads, StepsAre DEF WsTypeOK
  <2>3. Alone'     BY <2>1, <2>1a, SaveLeads, StepsAre DEF Alone, WsTypeOK
  <2>4. CallInv'   BY <2>1, <2>1a, SaveLeads, StepsAre DEF CallInv, WsTypeOK
  <2>5. PlaceInv'  BY <2>1, <2>1a, SaveLeads, StepsAre DEF PlaceInv, CallInv, Alone, WsTypeOK
  <2>6. TreeInv'   BY <2>1, <2>1a, SaveLeads, StepsAre DEF TreeInv, CallInv, PlaceInv, WsTypeOK
  <2>. QED  BY <2>2, <2>3, <2>4, <2>5, <2>6
<1>3. ASSUME NEW p \in Procs, WriteFails(p) PROVE IInv'
  <2>1. call[p].step # "idle" /\ Raise(p) /\ UNCHANGED <<record, tree, made, contended>>
    BY <1>3, StepsAre DEF WriteFails
  <2>2. WsTypeOK'  BY <2>1, RaiseIs DEF WsTypeOK
  <2>3. Alone'     BY <2>1, RaiseIs DEF Alone, WsTypeOK
  <2>4. CallInv'   BY <2>1, RaiseIs DEF CallInv, WsTypeOK
  <2>5. PlaceInv'  BY <2>1, RaiseIs DEF PlaceInv, CallInv, Alone, WsTypeOK
  <2>6. TreeInv'   BY <2>1, RaiseIs DEF TreeInv, CallInv, PlaceInv, WsTypeOK
  <2>. QED  BY <2>2, <2>3, <2>4, <2>5, <2>6
<1>4. ASSUME NEW p \in Procs, Resolve(p) PROVE IInv'
  <2>1. /\ call[p].step = "resolve" /\ call[p].session \in Sessions
        /\ record' = [record EXCEPT ![call[p].session] = call[p].copy]
        /\ call[p].copy \in Records
        /\ UNCHANGED <<tree, made, contended>>
    BY <1>4 DEF Resolve, Write, WsTypeOK, Calls
  <2>1a. /\ call' \in [Procs -> Calls]
         /\ \/ /\ call'[p].step \in {"add", "failed"} /\ call'[p].session = call[p].session
               /\ call'[p].copy.status # "removed"
            \/ /\ call'[p].step = "idle" /\ call'[p].session = None
               /\ call'[p].copy.status = "creating"
         /\ \A q \in Procs \ {p} : call'[q] = call[q]
    <3>1. CASE Raise(p)
      BY <3>1, <2>1, RaiseIs
    <3>2. ASSUME NEW c \in Commits,
                 call' = [call EXCEPT ![p] = [step |-> "add", session |-> @.session,
                   copy |-> [status |-> @.copy.status, head |-> c]]]
          PROVE  /\ call' \in [Procs -> Calls]
                 /\ call'[p].step = "add" /\ call'[p].session = call[p].session
                 /\ call'[p].copy.status = call[p].copy.status
                 /\ \A q \in Procs \ {p} : call'[q] = call[q]
      <4>1. [step |-> "add", session |-> call[p].session,
             copy |-> [status |-> call[p].copy.status, head |-> c]] \in Calls
        BY <2>1, StepsAre DEF Calls, Records
      <4>. QED  BY <3>2, <4>1 DEF WsTypeOK
    <3>. QED  BY <1>4, <2>1, <3>1, <3>2 DEF Resolve, CallInv
  <2>2. WsTypeOK'  BY <2>1, <2>1a DEF WsTypeOK
  <2>3. Alone'     BY <2>1, <2>1a DEF Alone, WsTypeOK
  <2>4. CallInv'   BY <2>1, <2>1a DEF CallInv, WsTypeOK
  <2>5. PlaceInv'  BY <2>1, <2>1a DEF PlaceInv, CallInv, Alone, WsTypeOK
  <2>6. TreeInv'   BY <2>1, <2>1a DEF TreeInv, CallInv, PlaceInv, WsTypeOK
  <2>. QED  BY <2>2, <2>3, <2>4, <2>5, <2>6
<1>5. ASSUME NEW p \in Procs, GitAdd(p) PROVE IInv'
  <2>1. /\ call[p].step = "adding" /\ call[p].session \in Sessions
        /\ call[p].copy.head \in Commits \cup {None}
        /\ MakeTree(p) \/ UNCHANGED <<tree, made>>
        /\ UNCHANGED <<record, contended>>
    BY <1>5 DEF GitAdd, WsTypeOK, Calls, Records
  <2>1a. /\ call' \in [Procs -> Calls]
         /\ \/ /\ call'[p].step \in {"head", "failed"} /\ call'[p].session = call[p].session
               /\ call'[p].copy.status # "removed"
            \/ /\ call'[p].step = "idle" /\ call'[p].session = None
               /\ call'[p].copy.status = "creating"
         /\ \A q \in Procs \ {p} : call'[q] = call[q]
    BY <1>5, <2>1, GotoIs, RaiseIs, StepsAre DEF GitAdd, CallInv
  <2>1b. /\ tree' \in [Sessions -> Commits \cup {None}] /\ made' \in [Sessions -> Nat]
         /\ \A s \in Sessions \ {call[p].session} : tree'[s] = tree[s] /\ made'[s] = made[s]
         /\ LET s == call[p].session
            IN \/ made'[s] = made[s] + 1
               \/ tree'[s] = tree[s] /\ made'[s] = made[s]
    BY <2>1 DEF MakeTree, WsTypeOK
  <2>2. WsTypeOK'  BY <2>1, <2>1a, <2>1b DEF WsTypeOK
  <2>3. Alone'     BY <2>1, <2>1a, <2>1b DEF Alone, WsTypeOK
  <2>4. CallInv'   BY <2>1, <2>1a, <2>1b DEF CallInv, WsTypeOK
  <2>5. PlaceInv'  BY <2>1, <2>1a, <2>1b DEF PlaceInv, CallInv, Alone, WsTypeOK
  <2>6. TreeInv'   BY <2>1, <2>1a, <2>1b DEF TreeInv, CallInv, PlaceInv, WsTypeOK
  <2>. QED  BY <2>2, <2>3, <2>4, <2>5, <2>6
<1>6. ASSUME NEW p \in Procs, ReadHead(p) PROVE IInv'
  <2>1. /\ call[p].step = "reading" /\ call[p].session \in Sessions
        /\ UNCHANGED <<record, tree, made, contended>>
    BY <1>6 DEF ReadHead, WsTypeOK
  <2>1a. /\ call' \in [Procs -> Calls]
         /\ \/ /\ call'[p].step \in {"ready", "failed"} /\ call'[p].session = call[p].session
               /\ call'[p].copy.status # "removed"
            \/ /\ call'[p].step = "idle" /\ call'[p].session = None
               /\ call'[p].copy.status = "creating"
         /\ \A q \in Procs \ {p} : call'[q] = call[q]
    BY <1>6, <2>1, ConcludeIs, RaiseIs DEF ReadHead
  <2>2. WsTypeOK'  BY <2>1, <2>1a DEF WsTypeOK
  <2>3. Alone'     BY <2>1, <2>1a DEF Alone, WsTypeOK
  <2>4. CallInv'   BY <2>1, <2>1a DEF CallInv, WsTypeOK
  <2>5. PlaceInv'  BY <2>1, <2>1a DEF PlaceInv, CallInv, Alone, WsTypeOK
  <2>6. TreeInv'   BY <2>1, <2>1a DEF TreeInv, CallInv, PlaceInv, WsTypeOK
  <2>. QED  BY <2>2, <2>3, <2>4, <2>5, <2>6
<1>7. ASSUME NEW p \in Procs, GitRemove(p) PROVE IInv'
  <2>1. /\ call[p].step = "removing" /\ call[p].session \in Sessions
        /\ DropTree(p) \/ UNCHANGED tree
        /\ UNCHANGED <<record, made, contended>>
    BY <1>7 DEF GitRemove, WsTypeOK
  <2>1a. /\ call' \in [Procs -> Calls]
         /\ \/ /\ call'[p].step = "removed" /\ call'[p].session = call[p].session
               /\ tree'[call[p].session] = None
            \/ /\ call'[p].step = "idle" /\ call'[p].session = None
               /\ call'[p].copy.status = "creating"
         /\ \A q \in Procs \ {p} : call'[q] = call[q]
    BY <1>7, <2>1, ConcludeIs, RaiseIs DEF GitRemove, DropTree, WsTypeOK
  <2>1b. /\ tree' \in [Sessions -> Commits \cup {None}]
         /\ \A s \in Sessions : tree'[s] \in {tree[s], None}
    BY <2>1 DEF DropTree, WsTypeOK
  <2>2. WsTypeOK'  BY <2>1, <2>1a, <2>1b DEF WsTypeOK
  <2>3. Alone'     BY <2>1, <2>1a, <2>1b DEF Alone, WsTypeOK
  <2>4. CallInv'   BY <2>1, <2>1a, <2>1b DEF CallInv, WsTypeOK
  <2>5. PlaceInv'  BY <2>1, <2>1a, <2>1b DEF PlaceInv, CallInv, Alone, WsTypeOK
  <2>6. TreeInv'   BY <2>1, <2>1a, <2>1b DEF TreeInv, CallInv, PlaceInv, WsTypeOK
  <2>. QED  BY <2>2, <2>3, <2>4, <2>5, <2>6
<1>8. ASSUME NEW p \in Procs, Crash(p) PROVE IInv'
  <2>1. /\ call[p].step # "idle" /\ call[p].session \in Sessions /\ End(p)
        /\ UNCHANGED <<record, contended>>
        /\ call[p].copy.head \in Commits \cup {None}
    BY <1>8 DEF Crash, WsTypeOK, Calls, Records
  <2>1b. /\ tree' \in [Sessions -> Commits \cup {None}] /\ made' \in [Sessions -> Nat]
         /\ \A s \in Sessions \ {call[p].session} : tree'[s] = tree[s] /\ made'[s] = made[s]
         /\ LET s == call[p].session
            IN \/ call[p].step = "adding" /\ made'[s] = made[s] + 1
               \/ tree'[s] \in {tree[s], None} /\ made'[s] = made[s]
    BY <1>8, <2>1 DEF Crash, MakeTree, DropTree, WsTypeOK
  <2>2. WsTypeOK'  BY <2>1, EndIs, <2>1b DEF WsTypeOK
  <2>3. Alone'     BY <2>1, EndIs, <2>1b DEF Alone, WsTypeOK
  <2>4. CallInv'   BY <2>1, EndIs, <2>1b DEF CallInv, WsTypeOK
  <2>5. PlaceInv'  BY <2>1, EndIs, <2>1b DEF PlaceInv, CallInv, Alone, WsTypeOK
  <2>6. TreeInv'   BY <2>1, EndIs, <2>1b DEF TreeInv, CallInv, PlaceInv, WsTypeOK
  <2>. QED  BY <2>2, <2>3, <2>4, <2>5, <2>6
<1>9. ASSUME NEW s \in Sessions, Work(s) PROVE IInv'
  BY <1>9 DEF Work, WsTypeOK, Alone, CallInv, PlaceInv, TreeInv
<1>10. CASE UNCHANGED wsVars
  BY <1>10 DEF wsVars, WsTypeOK, Alone, CallInv, PlaceInv, TreeInv
<1>. QED  BY <1>1, <1>2, <1>3, <1>4, <1>5, <1>6, <1>7, <1>8, <1>9, <1>10 DEF WsNext

LEMMA InvInit == WsInit => IInv
  BY WorkspaceAssumption, StepsAre
     DEF WsInit, IInv, WsTypeOK, Alone, CallInv, PlaceInv, TreeInv, Calls, Records, Idle, Fresh

LEMMA Invariant == WsSpec => []IInv
<1>. QED  BY InvInit, InvStep, PTL DEF WsSpec

(* Every variable of the manager keeps its type.                           *)
THEOREM WorkspaceTypeCorrect == WsSpec => []WsTypeOK
<1>1. IInv => WsTypeOK
  BY DEF IInv
<1>. QED  BY <1>1, Invariant, PTL

LEMMA InvMeans == IInv => Removable /\ UsedOnce
  BY DEF IInv, TreeInv, Removable, UsedOnce, WsTypeOK

(* Whatever died or failed, there is a record of every worktree, and unless *)
(* calls for the session overlapped it is one that `remove` accepts.       *)
THEOREM WorktreesRemovable == WsSpec => []Removable
<1>. QED  BY InvMeans, Invariant, PTL

(* A session id names at most one worktree, ever, unless calls overlapped.  *)
THEOREM SessionUsedOnce == WsSpec => []UsedOnce
<1>. QED  BY InvMeans, Invariant, PTL

-----------------------------------------------------------------------------
(* The documents of a dispatch.                                            *)

(* What a built acceptance says of the policy, the receipt and the worktree *)
(* it was built from, at any later moment.                                 *)
Sound(a, t, trees) ==
  /\ a.at <= t /\ a.receipt.at <= a.at
  /\ PolicyHolds(a.policy, a.at) /\ a.expires = Expiry(a.policy, a.at)
  /\ a.policy.cohort = a.packets.cohort
  /\ IsReceipt(a.receipt) /\ a.receipt.env.session # a.session
  /\ a.sight.head = a.policy.head
  /\ 1 <= a.sight.nth /\ a.sight.nth <= trees[a.session]

(* Of the receipt's file and of what the commands hold.                    *)
DeskInv ==
  /\ receipt # None => receipt.at <= now
  /\ \A p \in Procs :
       /\ desk[p].step = "receipt" => desk[p].doc.at <= now
       /\ desk[p].step = "seen" =>
            1 <= desk[p].sight.nth /\ desk[p].sight.nth <= made[desk[p].session]
       /\ desk[p].step \in {"create", "write"} => Sound(desk[p].doc, now, made)

(* The file of a whole acceptance holds one of its own session; a file is   *)
(* written by the one command that has created it.                         *)
FileInv ==
  /\ \A s \in Sessions : /\ Whole(s) => accepted[s].session = s /\ Sound(accepted[s], now, made)
                         /\ answered[s] # None => accepted[s] = answered[s]
  /\ \A p \in Procs : desk[p].step = "write" =>
       /\ accepted[desk[p].doc.session] = Torn
       /\ \A q \in Procs \ {p} :
            desk[q].step = "write" => desk[q].doc.session # desk[p].doc.session

DInv == IInv /\ TypeOK /\ DeskInv /\ FileInv

-----------------------------------------------------------------------------
LEMMA DeskIs ==
  ASSUME NEW d \in Desks
  PROVE  /\ d.step \in {"free", "receipt", "seen", "create", "write"}
         /\ d.step = "free" <=> d = Free
         /\ d.step = "receipt" => d.doc \in Receipts
         /\ d.step = "seen" => d.session \in Sessions /\ d.sight \in Sights
         /\ d.step \in {"create", "write"} => d.doc \in Acceptances
  BY DEF Desks, Free

LEMMA AcceptanceIs ==
  ASSUME NEW a \in Acceptances
  PROVE  /\ a.session \in Sessions /\ a.at \in Nat /\ a.receipt.at \in Nat
         /\ a.policy.selected \in Int /\ a.policy.expires \in Int
         /\ a.policy.seconds \in Nat
         /\ a.sight.nth \in Nat /\ a.expires \in Int
         /\ a.receipt \in Receipts /\ a.policy \in Policies /\ a.packets \in PacketSets
  BY DispatchAssumption DEF Acceptances, Receipts, Sights, PolicyType, Times

(* A step of the composition is one of the workspace manager or leaves it.  *)
LEMMA StepIsWorkspaces == [Next]_vars => [WsNext]_wsVars
  BY DEF Next, vars, Tick, Workspaces, Receive, SaveReceipt, Observe, Accept, CreateFile,
         WriteFile, GiveUp, Quiet, WsNext, wsVars

(* Nothing takes a worktree back from the count.                           *)
LEMMA MadeGrows ==
  ASSUME WsTypeOK, [WsNext]_wsVars
  PROVE  made' \in [Sessions -> Nat] /\ \A s \in Sessions : made[s] <= made'[s]
<1> DEFINE Grows == made' \in [Sessions -> Nat] /\ \A s \in Sessions : made[s] <= made'[s]
<1>1. /\ made \in [Sessions -> Nat]
      /\ \A p \in Procs : call[p].step # "idle" => call[p].session \in Sessions
  BY DEF WsTypeOK
<1>2. ASSUME NEW p \in Procs, MakeTree(p), call[p].step = "adding" PROVE Grows
  BY <1>1, <1>2 DEF MakeTree
<1>3. ASSUME UNCHANGED made PROVE Grows
  BY <1>1, <1>3
<1>. QED
  BY <1>2, <1>3 DEF WsNext, wsVars, Create, Remove, Start, Save, WriteFails, Resolve,
                    GitAdd, ReadHead, GitRemove, Crash, Work

(* A document stays sound while time goes on and worktrees come and go.     *)
LEMMA SoundStays ==
  ASSUME NEW a \in Acceptances, NEW t \in Nat, NEW u \in Nat, t <= u,
         NEW m \in [Sessions -> Nat], NEW n \in [Sessions -> Nat],
         \A s \in Sessions : m[s] <= n[s], Sound(a, t, m)
  PROVE  Sound(a, u, n)
<1>1. m[a.session] \in Nat /\ n[a.session] \in Nat /\ m[a.session] <= n[a.session]
  BY AcceptanceIs
<1>. QED  BY <1>1, AcceptanceIs DEF Sound

(* One that is built now is sound.                                         *)
LEMMA BuildsIsSound ==
  ASSUME TypeOK, NEW a \in Acceptances, Builds(a, now), a.receipt.at <= now,
         1 <= a.sight.nth, a.sight.nth <= made[a.session]
  PROVE  Sound(a, now, made)
<1>1. now \in Nat
  BY DispatchAssumption DEF TypeOK, Times
<1>. QED  BY <1>1, AcceptanceIs DEF Builds, Bootstraps, Sound

-----------------------------------------------------------------------------
(* What each step makes of the documents.                                  *)
LEMMA DocStep == DInv /\ [Next]_vars => TypeOK' /\ DeskInv' /\ FileInv'
<1> SUFFICES ASSUME DInv, [Next]_vars PROVE TypeOK' /\ DeskInv' /\ FileInv'
  OBVIOUS
<1> DEFINE Rest == TypeOK' /\ DeskInv' /\ FileInv'
<1> USE DEF DInv
<1>0. /\ WsTypeOK' /\ now \in Nat /\ made \in [Sessions -> Nat]
      /\ made' \in [Sessions -> Nat] /\ \A s \in Sessions : made[s] <= made'[s]
      /\ desk \in [Procs -> Desks]
      /\ accepted \in [Sessions -> Acceptances \cup {None, Torn}]
      /\ answered \in [Sessions -> Acceptances \cup {None}]
      /\ receipt \in Receipts \cup {None}
  BY StepIsWorkspaces, InvStep, MadeGrows, DispatchAssumption DEF IInv, TypeOK, WsTypeOK, Times
(* Where the files and the desks stand still, only the clock and the worktrees move. *)
<1>1. ASSUME now' \in Times, now <= now', UNCHANGED <<receipt, accepted, desk, answered>>
      PROVE  Rest
  <2>1. TypeOK'
    BY <1>0, <1>1 DEF TypeOK
  <2>2. now' \in Nat
    BY <1>1, DispatchAssumption DEF Times
  <2>3. \A p \in Procs : desk[p].step \in {"create", "write"} => Sound(desk[p].doc, now', made')
    BY <1>0, <1>1, <2>2, SoundStays, DeskIs DEF DeskInv
  <2>4. \A s \in Sessions : Whole(s) => Sound(accepted[s], now', made')
    BY <1>0, <1>1, <2>2, SoundStays DEF FileInv, Whole
  <2>5. DeskInv'
    <3>1. \A p \in Procs : desk[p].step = "receipt" => desk[p].doc.at \in Nat
      BY <1>0, DeskIs, DispatchAssumption DEF Receipts, Times
    <3>2. \A p \in Procs : desk[p].step = "seen" =>
             desk[p].session \in Sessions /\ desk[p].sight.nth \in Nat
      BY <1>0, DeskIs DEF Sights
    <3>3. receipt # None => receipt.at \in Nat
      BY <1>0, DispatchAssumption DEF Receipts, Times
    <3>. QED  BY <1>0, <1>1, <2>2, <2>3, <3>1, <3>2, <3>3 DEF DeskInv
  <2>6. FileInv'
    BY <1>1, <2>4 DEF FileInv, Whole
  <2>. QED  BY <2>1, <2>5, <2>6
<1>2. CASE Tick
  BY <1>1, <1>2, <1>0, DispatchAssumption DEF Tick, Times, TypeOK
<1>3. CASE Workspaces
  BY <1>1, <1>3, <1>0 DEF Workspaces, TypeOK
<1>4. CASE UNCHANGED vars
  BY <1>1, <1>4, <1>0 DEF vars, TypeOK
(* One command goes on to its next desk, and nothing else but its own file moves. *)
<1>5. ASSUME NEW p \in Procs, NEW d \in Desks, Put(p, d), UNCHANGED now,
             UNCHANGED made, UNCHANGED <<accepted, answered>>,
             receipt' \in Receipts \cup {None}, receipt' # None => receipt'.at <= now,
             d.step = "receipt" => d.doc.at <= now,
             d.step = "seen" => 1 <= d.sight.nth /\ d.sight.nth <= made[d.session],
             d.step = "create" => Sound(d.doc, now, made),
             d.step # "write"
      PROVE  Rest
  <2>1. desk' \in [Procs -> Desks] /\ desk'[p] = d /\ \A q \in Procs \ {p} : desk'[q] = desk[q]
    BY <1>0, <1>5 DEF Put
  <2>2. TypeOK'
    BY <1>0, <1>5, <2>1 DEF TypeOK
  <2>3. DeskInv'
    BY <1>5, <2>1 DEF DeskInv
  <2>4. FileInv'
    BY <1>5, <2>1 DEF FileInv, Whole
  <2>. QED  BY <2>2, <2>3, <2>4
<1>6. ASSUME NEW p \in Procs, Receive(p) PROVE Rest
  <2>1. PICK env \in Environments : \E doc \in {Receipt(env), Registration(env)} :
          Put(p, [step |-> "receipt", doc |-> doc])
    BY <1>6 DEF Receive
  <2>1a. PICK doc \in {Receipt(env), Registration(env)} :
           Put(p, [step |-> "receipt", doc |-> doc])
    BY <2>1
  <2>2. doc \in Receipts /\ doc.at = now
    BY DispatchAssumption, <1>0 DEF Receipt, Registration, Receipts, TypeOK
  <2>3. [step |-> "receipt", doc |-> doc] \in Desks
    BY <2>2 DEF Desks
  <2>. QED  BY <1>5, <1>6, <1>0, <2>1a, <2>2, <2>3 DEF Receive, Quiet, DeskInv
<1>7. ASSUME NEW p \in Procs, SaveReceipt(p) PROVE Rest
  BY <1>5, <1>7, <1>0, DeskIs DEF SaveReceipt, Quiet, DeskInv, Free, Desks
<1>8. ASSUME NEW p \in Procs, NEW s \in Sessions, Observe(p, s) PROVE Rest
  <2>1. tree[s] \in Commits /\ made[s] \in Nat /\ 1 <= made[s]
    BY <1>8, <1>0 DEF Observe, IInv, WsTypeOK, TreeInv
  <2>2. [step |-> "seen", session |-> s, sight |-> [head |-> tree[s], nth |-> made[s]]] \in Desks
    BY <2>1 DEF Desks, Sights
  <2>. QED  BY <1>5, <1>8, <1>0, <2>1, <2>2 DEF Observe, Quiet, DeskInv
<1>9. ASSUME NEW p \in Procs, Accept(p) PROVE Rest
  <2> DEFINE Doc(pol, packets) ==
        [session |-> desk[p].session, policy |-> pol, packets |-> packets,
         receipt |-> receipt, sight |-> desk[p].sight, at |-> now,
         expires |-> Expiry(pol, now)]
  <2>1. PICK pol \in Policies, packets \in PacketSets :
          Builds(Doc(pol, packets), now) /\ Put(p, [step |-> "create", doc |-> Doc(pol, packets)])
    BY <1>9 DEF Accept
  <2>2. /\ desk[p].step = "seen" /\ desk[p].session \in Sessions /\ desk[p].sight \in Sights
        /\ receipt \in Receipts /\ receipt.at <= now
        /\ 1 <= desk[p].sight.nth /\ desk[p].sight.nth <= made[desk[p].session]
    BY <1>9, <1>0, DeskIs DEF Accept, DeskInv
  <2>3. Doc(pol, packets) \in Acceptances
    BY <2>2, <1>0, DispatchAssumption DEF Acceptances, Expiry, Least, PolicyType, TypeOK
  <2>4. Sound(Doc(pol, packets), now, made)
    BY <2>1, <2>2, <2>3, BuildsIsSound
  <2>5. [step |-> "create", doc |-> Doc(pol, packets)] \in Desks
    BY <2>3 DEF Desks
  <2>. QED  BY <1>5, <1>9, <1>0, <2>1, <2>2, <2>4, <2>5 DEF Accept, Quiet
<1>10. ASSUME NEW p \in Procs, GiveUp(p) PROVE Rest
  BY <1>5, <1>10, <1>0 DEF GiveUp, Quiet, DeskInv, Free, Desks
<1>11. ASSUME NEW p \in Procs, CreateFile(p) PROVE Rest
  <2> DEFINE doc == desk[p].doc
  <2>1. /\ desk[p].step = "create" /\ doc \in Acceptances /\ Sound(doc, now, made)
        /\ accepted[doc.session] = None /\ doc.session \in Sessions
    BY <1>11, <1>0, DeskIs, AcceptanceIs DEF CreateFile, Nowhere, DeskInv
  <2>2. /\ accepted' = [accepted EXCEPT ![doc.session] = Torn]
        /\ desk' = [desk EXCEPT ![p] = [step |-> "write", doc |-> doc]]
        /\ UNCHANGED <<now, receipt, answered, made>>
    BY <1>11 DEF CreateFile, Put, Quiet
  <2>3. [step |-> "write", doc |-> doc] \in Desks
    BY <2>1 DEF Desks
  <2>4. TypeOK'
    BY <1>0, <2>2, <2>3 DEF TypeOK
  <2>5. DeskInv'
    BY <1>0, <2>1, <2>2 DEF DeskInv
  <2>6. FileInv'
    BY <1>0, <2>1, <2>2, DispatchAssumption DEF FileInv, Whole
  <2>. QED  BY <2>4, <2>5, <2>6
<1>12. ASSUME NEW p \in Procs, WriteFile(p) PROVE Rest
  <2> DEFINE doc == desk[p].doc
  <2>1. /\ desk[p].step = "write" /\ doc \in Acceptances /\ Sound(doc, now, made)
        /\ doc.session \in Sessions
    BY <1>12, <1>0, DeskIs, AcceptanceIs DEF WriteFile, DeskInv
  <2>2. /\ accepted' = [accepted EXCEPT ![doc.session] = doc]
        /\ answered' = [answered EXCEPT ![doc.session] = doc]
        /\ desk' = [desk EXCEPT ![p] = Free]
        /\ UNCHANGED <<now, receipt, made>>
    BY <1>12 DEF WriteFile, Put, Quiet
  <2>4. TypeOK'
    BY <1>0, <2>1, <2>2 DEF TypeOK, Desks, Free
  <2>5. DeskInv'
    BY <1>0, <2>1, <2>2 DEF DeskInv, Free
  <2>6. FileInv'
    BY <1>0, <2>1, <2>2 DEF FileInv, Whole, Free
  <2>. QED  BY <2>4, <2>5, <2>6
<1>. QED  BY <1>2, <1>3, <1>4, <1>6, <1>7, <1>8, <1>9, <1>10, <1>11, <1>12 DEF Next

LEMMA DispatchInvariant == Spec => []DInv
<1>1. Init => DInv
  BY InvInit, DispatchAssumption
     DEF Init, DInv, IInv, TypeOK, DeskInv, FileInv, Whole, Times, Desks, Free
<1>2. DInv /\ [Next]_vars => DInv'
  BY DocStep, InvStep, StepIsWorkspaces DEF DInv
<1>. QED  BY <1>1, <1>2, PTL DEF Spec

(* Every variable keeps its type.                                          *)
THEOREM DispatchTypeCorrect == Spec => []TypeOK
<1>1. DInv => TypeOK
  BY DEF DInv
<1>. QED  BY <1>1, DispatchInvariant, PTL

(* The worktrees stay removable whatever the acceptances do.               *)
THEOREM DispatchRemovable == Spec => []Removable
<1>1. DInv => Removable
  BY InvMeans DEF DInv
<1>. QED  BY <1>1, DispatchInvariant, PTL

LEMMA SoundVerified ==
  ASSUME DInv, NEW s \in Sessions, Whole(s),
         NEW pol \in Policies, NEW packets \in PacketSets, NEW r,
         Verifies(accepted[s], pol, packets, r, now)
  PROVE  LET a == accepted[s]
         IN /\ pol = a.policy /\ packets = a.packets /\ r = a.receipt
            /\ now < a.policy.expires /\ a.policy.cohort = packets.cohort
            /\ tree[s] # None
            /\ ~contended[s] => made[s] = a.sight.nth
<1> DEFINE a == accepted[s]
<1>1. a \in Acceptances /\ a.session = s /\ Sound(a, now, made)
  BY DEF DInv, TypeOK, FileInv, Whole
<1>2. /\ made[s] \in Nat /\ now \in Nat
      /\ ~contended[s] => made[s] <= 1
  BY InvMeans, DispatchAssumption DEF DInv, TypeOK, WsTypeOK, UsedOnce, Times
<1>. QED  BY <1>1, <1>2, AcceptanceIs DEF Verifies, Sound, PolicyHolds

(* An acceptance verifies only for the sources it was built from, and while *)
(* the worktree that was looked at is there: a session that was never      *)
(* worked on by two calls at a time has had no other.                      *)
THEOREM VerifiedMeansObserved == Spec => []VerifiedIsObserved
<1>1. DInv => VerifiedIsObserved
  BY SoundVerified DEF VerifiedIsObserved
<1>. QED  BY <1>1, DispatchInvariant, PTL

LEMMA SoundVerifies ==
  ASSUME DInv, NEW s \in Sessions, answered[s] # None
  PROVE  /\ accepted[s] = answered[s]
         /\ LET a == answered[s]
            IN now < a.expires /\ tree[s] # None =>
                 Verifies(a, a.policy, a.packets, a.receipt, now)
<1> DEFINE a == answered[s]
<1>1. a \in Acceptances /\ accepted[s] = a /\ a.session = s /\ Sound(a, now, made)
  BY DispatchAssumption DEF DInv, TypeOK, FileInv, Whole
<1>2. now \in Nat
  BY DispatchAssumption DEF DInv, TypeOK, Times
<1>. QED  BY <1>1, <1>2, AcceptanceIs DEF Verifies, Sound, PolicyHolds, Expiry, Least

(* What was reported as created is in its file for good, and verifies       *)
(* against its sources until it expires.                                   *)
THEOREM AnswersVerify == Spec => []AnswerVerifies
<1>1. DInv => AnswerVerifies
  BY SoundVerifies DEF AnswerVerifies
<1>. QED  BY <1>1, DispatchInvariant, PTL
=============================================================================
