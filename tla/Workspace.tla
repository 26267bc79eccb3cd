------------------------------- MODULE Workspace -------------------------------
(***************************************************************************)
(* science_repo/workspace.py: WorkspaceManager.create and .remove, the      *)
(* commands `science workspace-create` and `workspace-remove`.  A session   *)
(* has a git worktree and, beside it, a record of what is done with it.     *)
(* The record is replaced as a whole, before every git command and at the   *)
(* end; nothing locks it.  Calls interleave, a process may die and a write *)
(* or a git command may fail at every step.                                *)
(***************************************************************************)
EXTENDS Integers

CONSTANTS Procs,     \* processes, one call each at a time
          Sessions,  \* session ids that are safe file names
          Commits,   \* the commits a revision may resolve to
          None       \* nothing: no record, no worktree, not resolved yet

VARIABLES record,    \* <sessions_root>/.science-workspaces/<session>.json
          tree,      \* the HEAD of the session's worktree, or None
          call,      \* where each call stands, and its copy of the record
          made,      \* history: how many worktrees the session has had
          contended  \* history: two calls worked on the session at a time

wsVars == <<record, tree, call, made, contended>>

Records == [status : {"creating", "ready", "failed", "removed"},
            head : Commits \cup {None}]

ASSUME WorkspaceAssumption == None \notin Commits \cup Sessions \cup Records

(* A step named like a status or "begin" .. "unregister" is a write of the *)
(* call's copy that is due, After says what comes next; "add", "head" and   *)
(* "remove" are git commands.  A failing write ends in the except clause of *)
(* `create`, or it ends the call.                                          *)
After == [begin |-> "resolve", add |-> "adding", head |-> "reading",
          ready |-> "idle", failed |-> "idle",
          unregister |-> "removing", removed |-> "idle"]
Guarded == {"resolve", "add", "head", "ready"}

Steps == DOMAIN After \cup {"idle", "resolve", "adding", "reading", "removing"}

Fresh == [status |-> "creating", head |-> None]

Idle == [step |-> "idle", session |-> None, copy |-> Fresh]

WsInit == /\ record = [s \in Sessions |-> None]
          /\ tree = [s \in Sessions |-> None]
          /\ call = [p \in Procs |-> Idle]
          /\ made = [s \in Sessions |-> 0]
          /\ contended = [s \in Sessions |-> FALSE]

-----------------------------------------------------------------------------
Goto(p, step) == call' = [call EXCEPT ![p].step = step]

(* A call enters a step with a status of its own: the copy says so first.  *)
Conclude(p, status) ==
  call' = [call EXCEPT ![p] = [step |-> status, session |-> @.session,
                               copy |-> [status |-> status, head |-> @.copy.head]]]

End(p) == call' = [call EXCEPT ![p] = Idle]

Start(p, s, step, copy) ==
  /\ call[p].step = "idle"
  /\ call' = [call EXCEPT ![p] = [step |-> step, session |-> s, copy |-> copy]]
  /\ contended' = [contended EXCEPT ![s] = @ \/ \E q \in Procs : call[q].session = s]
  /\ UNCHANGED <<record, tree, made>>

(* Mutant: only the directory is looked for, not the record.               *)
UnusedDirectory(s) == tree[s] = None

Unused(s) == tree[s] = None /\ record[s] = None

Create(p, s) == Unused(s) /\ Start(p, s, "begin", Fresh)

Known(s) == record[s] # None /\ record[s].status # "removed"

Remove(p, s) == Known(s) /\ Start(p, s, "unregister", record[s])

(* The call's copy of the record replaces the file.                        *)
Write(p) == record' = [record EXCEPT ![call[p].session] = call[p].copy]

Save(p) ==
  /\ call[p].step \in DOMAIN After
  /\ Write(p)
  /\ IF After[call[p].step] = "idle" THEN End(p) ELSE Goto(p, After[call[p].step])
  /\ UNCHANGED <<tree, made, contended>>

(* Mutant: the record is to say which step has failed.                     *)
RaiseByStep(p) == IF call[p].step \in Guarded \cup {"adding", "reading"}
                  THEN call' = [call EXCEPT ![p].step = "failed",
                                            ![p].copy.status = call[p].step]
                  ELSE End(p)

(* What an exception leads to: the except clause of `create` or the end.   *)
Raise(p) == IF call[p].step \in Guarded \cup {"adding", "reading"}
            THEN Conclude(p, "failed") ELSE End(p)

WriteFails(p) ==
  /\ call[p].step \in DOMAIN After \cup {"resolve"}
  /\ Raise(p)
  /\ UNCHANGED <<record, tree, made, contended>>

(* git rev-parse: a branch may have moved, so any commit may come out.      *)
Resolve(p) ==
  /\ call[p].step = "resolve"
  /\ Write(p)
  /\ \/ \E c \in Commits :
          call' = [call EXCEPT ![p] = [step |-> "add", session |-> @.session,
                                       copy |-> [status |-> @.copy.status, head |-> c]]]
     \/ Raise(p)
  /\ UNCHANGED <<tree, made, contended>>

(* git worktree add: it refuses a directory that is there; a failing        *)
(* checkout hook leaves one behind.                                        *)
MakeTree(p) ==
  /\ tree[call[p].session] = None
  /\ tree' = [tree EXCEPT ![call[p].session] = call[p].copy.head]
  /\ made' = [made EXCEPT ![call[p].session] = @ + 1]

GitAdd(p) ==
  /\ call[p].step = "adding"
  /\ \/ MakeTree(p) /\ (Goto(p, "head") \/ Raise(p))
     \/ Raise(p) /\ UNCHANGED <<tree, made>>
  /\ UNCHANGED <<record, contended>>

(* git rev-parse HEAD inside the worktree.                                 *)
ReadHead(p) ==
  /\ call[p].step = "reading"
  /\ \/ tree[call[p].session] = call[p].copy.head /\ Conclude(p, "ready")
     \/ Raise(p)
  /\ UNCHANGED <<record, tree, made, contended>>

(* git worktree remove: it refuses where no worktree is, and one with       *)
(* changes unless it is forced.                                            *)
DropTree(p) == /\ tree[call[p].session] # None
               /\ tree' = [tree EXCEPT ![call[p].session] = None]

(* Mutant: the return code of git is not looked at.                        *)
GitRemoveUnchecked(p) ==
  /\ call[p].step = "removing"
  /\ (DropTree(p) \/ UNCHANGED tree)
  /\ Conclude(p, "removed")
  /\ UNCHANGED <<record, made, contended>>

GitRemove(p) ==
  /\ call[p].step = "removing"
  /\ \/ DropTree(p) /\ Conclude(p, "removed")
     \/ Raise(p) /\ UNCHANGED tree
  /\ UNCHANGED <<record, made, contended>>

(* A process dies; the git command it has started may come to its end.     *)
Crash(p) ==
  /\ call[p].step # "idle"
  /\ End(p)
  /\ \/ UNCHANGED <<tree, made>>
     \/ call[p].step = "adding" /\ MakeTree(p)
     \/ call[p].step = "removing" /\ DropTree(p) /\ UNCHANGED made
  /\ UNCHANGED <<record, contended>>

(* The agent that is given the worktree commits or checks out.             *)
Work(s) == /\ tree[s] # None /\ record[s] # None /\ record[s].status = "ready"
           /\ \E c \in Commits \ {tree[s]} : tree' = [tree EXCEPT ![s] = c]
           /\ UNCHANGED <<record, call, made, contended>>

WsNext ==
  \/ \E p \in Procs : \/ \E s \in Sessions : Create(p, s) \/ Remove(p, s)
                      \/ Save(p) \/ WriteFails(p) \/ Resolve(p) \/ GitAdd(p)
                      \/ ReadHead(p) \/ GitRemove(p) \/ Crash(p)
  \/ \E s \in Sessions : Work(s)

WsSpec == WsInit /\ [][WsNext]_wsVars

-----------------------------------------------------------------------------
(* What a session is at any moment: the files, and a call's place.         *)
Calls == [step : Steps, session : Sessions \cup {None}, copy : Records]

WsTypeOK == /\ record \in [Sessions -> Records \cup {None}]
            /\ tree \in [Sessions -> Commits \cup {None}]
            /\ call \in [Procs -> Calls]
            /\ \A p \in Procs : call[p].step # "idle" => call[p].session \in Sessions
            /\ made \in [Sessions -> Nat]
            /\ contended \in [Sessions -> BOOLEAN]

(* Whatever died or failed, and with calls that overlap, there is a record  *)
(* of every worktree; and unless calls for the session overlapped, it is   *)
(* one that `remove` accepts: no worktree is left that the manager will     *)
(* not clean up (workspace.py lines 98, 139 and 145).                      *)
Removable ==
  \A s \in Sessions : tree[s] # None =>
    /\ record[s] # None
    /\ ~contended[s] => record[s].status # "removed"

(* A session id names at most one worktree, ever, unless calls for it       *)
(* overlapped: after the removal the record still refuses a creation.      *)
UsedOnce == \A s \in Sessions : ~contended[s] => made[s] <= 1
=============================================================================
