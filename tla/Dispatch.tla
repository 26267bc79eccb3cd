------------------------------- MODULE Dispatch -------------------------------
(***************************************************************************)
(* science_repo/local_dispatch_acceptance.py and harness_receipt.py, with   *)
(* the commands `harness-receipt` and `local-dispatch-accept`, on top of    *)
(* the session workspaces.  A subject packet names the directory of a       *)
(* session; the main agent looks at that directory, hands what it saw to    *)
(* the command, and gets an acceptance that anyone may verify until it      *)
(* expires.  Nothing is ever read back from the worktree but that it is     *)
(* there: that an acceptance stands for the directory that was looked at   *)
(* rests on the workspace manager.                                         *)
(*                                                                          *)
(* A document stands for its digest: two are equal iff their digests are.  *)
(***************************************************************************)
EXTENDS Workspace

CONSTANTS Policies,      \* local dispatch policies in the project
          PacketSets,    \* packet sets, each naming its cohort and its freeze
          Environments,  \* what a harness may have in its environment
          Torn,          \* a file that is created and not written yet
          MaxTime        \* bound: the last instant

VARIABLES now,        \* the clock of the host
          receipt,    \* the file a harness receipt is written to
          accepted,   \* per session: the file of its cell's acceptance
          desk,       \* per process: a receipt or acceptance in the making
          answered    \* history: the acceptance reported as created

vars == <<record, tree, call, made, contended, now, receipt, accepted, desk, answered>>

-----------------------------------------------------------------------------
Times == 0..MaxTime

(* A session id, a child flag, and whether model, harness and effort are    *)
(* there; a variable that is not set is recorded as unavailable.           *)
EnvironmentType == [session : Sessions \cup {"native", None},
                    child : {"yes", "no", None}, full : BOOLEAN]

PolicyType == [cohort : {"a", "b"}, selected : Int, expires : Int,
               head : Commits, seconds : Nat \ {0}]

PacketSetType == [cohort : {"a", "b"}, freeze : {"f1", "f2"}]

(* With --cohort-id the payload is a registration for a cohort manifest,    *)
(* which says of every field what is unavailable and why.                  *)
Receipts == [kind : {"receipt", "registration"}, at : Times, env : Environments]

Receipt(env) == [kind |-> "receipt", at |-> now, env |-> env]

Registration(env) == [kind |-> "registration", at |-> now, env |-> env]

(* verify_receipt: exactly the fields of a receipt, and the digest.        *)
IsReceipt(r) == r.kind = "receipt"

Least(a, b) == IF a <= b THEN a ELSE b

(* verify_local_dispatch_policy.                                           *)
PolicyHolds(pol, t) == pol.selected <= t /\ t < pol.expires /\ pol.selected < pol.expires

(* What an acceptance expires at when it is built.                         *)
Expiry(pol, t) == Least(pol.expires, t + pol.seconds)

(* Of the session a receipt has observed: a child, with all that is asked   *)
(* for, and not the packet's logical session.                              *)
Bootstraps(r, s) == /\ IsReceipt(r)
                    /\ r.env.child = "yes"
                    /\ r.env.session # None /\ r.env.full
                    /\ r.env.session # s

(* What the main agent saw of a directory; nth says which of the session's  *)
(* worktrees it was, which nobody records.                                 *)
Sights == [head : Commits, nth : Nat]

Acceptances == [session : Sessions, policy : Policies, packets : PacketSets,
                receipt : Receipts, sight : Sights, at : Times, expires : Int]

ASSUME DispatchAssumption ==
  /\ Policies \subseteq PolicyType
  /\ PacketSets \subseteq PacketSetType
  /\ Environments \subseteq EnvironmentType
  /\ MaxTime \in Nat
  /\ {"native", "yes", "no"} \cap (Sessions \cup {None}) = {}
  /\ None \notin Receipts \cup Acceptances
  /\ Torn \notin {None} \cup Acceptances

(* build_local_dispatch_acceptance, for the packet whose session is s.     *)
Builds(a, t) ==
  /\ PolicyHolds(a.policy, t)
  /\ a.policy.cohort = a.packets.cohort
  /\ a.sight.head = a.policy.head
  /\ tree[a.session] # None
  /\ Bootstraps(a.receipt, a.session)
  /\ a.at = t
  /\ a.expires = Expiry(a.policy, t)

(* verify_local_dispatch_acceptance, against the sources somebody presents. *)
Verifies(a, pol, packets, r, t) ==
  /\ a.at <= t /\ t < a.expires
  /\ PolicyHolds(pol, t) /\ pol.selected <= a.at
  /\ a.expires = Least(pol.expires, a.at + pol.seconds)
  /\ a.policy = pol /\ a.packets = packets /\ a.receipt = r
  /\ IsReceipt(r) /\ r.at <= a.at /\ r.env.session # a.session
  /\ a.sight.head = pol.head
  /\ tree[a.session] # None

-----------------------------------------------------------------------------
Free == [step |-> "free"]

Desks == {Free} \cup [step : {"receipt"}, doc : Receipts]
                \cup [step : {"seen"}, session : Sessions, sight : Sights]
                \cup [step : {"create", "write"}, doc : Acceptances]

Init == /\ WsInit
        /\ now = 0
        /\ receipt = None
        /\ accepted = [s \in Sessions |-> None]
        /\ desk = [p \in Procs |-> Free]
        /\ answered = [s \in Sessions |-> None]

Put(p, d) == desk' = [desk EXCEPT ![p] = d]

Available(p) == call[p].step = "idle" /\ desk[p] = Free

Quiet == UNCHANGED <<record, tree, call, made, contended>>

Tick == now < MaxTime /\ now' = now + 1
        /\ Quiet /\ UNCHANGED <<receipt, accepted, desk, answered>>

(* cmd_harness_receipt: the payload, and the test for the file; later the   *)
(* file is put in place, over whatever has come there since.               *)
Receive(p) ==
  /\ Available(p) /\ receipt = None
  /\ \E env \in Environments : \E doc \in {Receipt(env), Registration(env)} :
       Put(p, [step |-> "receipt", doc |-> doc])
  /\ Quiet /\ UNCHANGED <<now, receipt, accepted, answered>>

SaveReceipt(p) ==
  /\ desk[p].step = "receipt"
  /\ receipt' = desk[p].doc
  /\ Put(p, Free)
  /\ Quiet /\ UNCHANGED <<now, accepted, answered>>

(* The main agent looks at a session's directory.                          *)
Observe(p, s) ==
  /\ Available(p) /\ tree[s] # None
  /\ Put(p, [step |-> "seen", session |-> s,
             sight |-> [head |-> tree[s], nth |-> made[s]]])
  /\ Quiet /\ UNCHANGED <<now, receipt, accepted, answered>>

(* cmd_local_dispatch_accept up to the document: it is refused where the    *)
(* output exists, or where the document cannot be built.                   *)
Accept(p) ==
  /\ desk[p].step = "seen" /\ receipt # None
  /\ accepted[desk[p].session] = None
  /\ \E pol \in Policies, packets \in PacketSets :
       LET a == [session |-> desk[p].session, policy |-> pol, packets |-> packets,
                 receipt |-> receipt, sight |-> desk[p].sight, at |-> now,
                 expires |-> Expiry(pol, now)]
       IN Builds(a, now) /\ Put(p, [step |-> "create", doc |-> a])
  /\ Quiet /\ UNCHANGED <<now, receipt, accepted, answered>>

(* Mutant: the file is opened without asking that it be new.               *)
Anywhere(s) == TRUE

(* O_EXCL: the file must not be there.                                     *)
Nowhere(s) == accepted[s] = None

CreateFile(p) ==
  /\ desk[p].step = "create"
  /\ Nowhere(desk[p].doc.session)
  /\ accepted' = [accepted EXCEPT ![desk[p].doc.session] = Torn]
  /\ Put(p, [step |-> "write", doc |-> desk[p].doc])
  /\ Quiet /\ UNCHANGED <<now, receipt, answered>>

WriteFile(p) ==
  /\ desk[p].step = "write"
  /\ accepted' = [accepted EXCEPT ![desk[p].doc.session] = desk[p].doc]
  /\ answered' = [answered EXCEPT ![desk[p].doc.session] = desk[p].doc]
  /\ Put(p, Free)
  /\ Quiet /\ UNCHANGED <<now, receipt>>

(* The command is refused, fails, or its process dies.                     *)
GiveUp(p) == /\ desk[p] # Free /\ Put(p, Free)
             /\ Quiet /\ UNCHANGED <<now, receipt, accepted, answered>>

(* A command of the workspace manager, or the agent inside the worktree.   *)
Workspaces ==
  /\ \/ \E p \in Procs : \/ /\ desk[p] = Free
                            /\ \E s \in Sessions : Create(p, s) \/ Remove(p, s)
                         \/ Save(p) \/ WriteFails(p) \/ Resolve(p) \/ GitAdd(p)
                         \/ ReadHead(p) \/ GitRemove(p) \/ Crash(p)
     \/ \E s \in Sessions : Work(s)
  /\ UNCHANGED <<now, receipt, accepted, desk, answered>>

Next ==
  \/ Tick
  \/ Workspaces
  \/ \E p \in Procs : \/ Receive(p) \/ SaveReceipt(p)
                      \/ \E s \in Sessions : Observe(p, s)
                      \/ Accept(p) \/ CreateFile(p) \/ WriteFile(p) \/ GiveUp(p)

Spec == Init /\ [][Next]_vars

-----------------------------------------------------------------------------
TypeOK == /\ WsTypeOK
          /\ now \in Times
          /\ receipt \in Receipts \cup {None}
          /\ accepted \in [Sessions -> Acceptances \cup {None, Torn}]
          /\ desk \in [Procs -> Desks]
          /\ answered \in [Sessions -> Acceptances \cup {None}]

Whole(s) == accepted[s] \notin {None, Torn}

(* Whoever verifies an acceptance that answered the main agent, with any    *)
(* sources of the project, gets a yes only for the sources it was built     *)
(* from and while the very worktree that was looked at is there: no other   *)
(* has come in its place since, unless calls for the session overlapped    *)
(* (local_dispatch_acceptance.py lines 233-318, workspace.py line 82).     *)
VerifiedIsObserved ==
  \A s \in Sessions : Whole(s) =>
    \A pol \in Policies, packets \in PacketSets, r \in {receipt, accepted[s].receipt} :
      r # None /\ Verifies(accepted[s], pol, packets, r, now) =>
        LET a == accepted[s]
        IN /\ pol = a.policy /\ packets = a.packets /\ r = a.receipt
           /\ now < a.policy.expires /\ a.policy.cohort = packets.cohort
           /\ tree[s] # None
           /\ ~contended[s] => made[s] = a.sight.nth

(* An acceptance reported as created is what its file holds, for good, and  *)
(* it verifies against its sources until it expires as long as the          *)
(* directory is there (cli.py line 422, local_dispatch_acceptance.py).     *)
AnswerVerifies ==
  \A s \in Sessions : answered[s] # None =>
    /\ accepted[s] = answered[s]
    /\ LET a == answered[s]
       IN now < a.expires /\ tree[s] # None =>
            Verifies(a, a.policy, a.packets, a.receipt, now)
=============================================================================
