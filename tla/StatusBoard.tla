----------------------------- MODULE StatusBoard -----------------------------
(***************************************************************************)
(* `science campaign-status` while workers are at work: it reads the state  *)
(* file of one task after another, without a lock, and then computes one   *)
(* schedule from all of them, for the instant at which it does.  The main  *)
(* agent dispatches by that answer, as long as it likes.                   *)
(***************************************************************************)
EXTENDS CampaignRun

VARIABLES read,  \* the snapshots that were read, of the tasks read so far
          board  \* the answer, once there is one

boardVars == <<campaign, approved, view, leases, accepted, read, board>>

(* History: the tasks that were read while their lease was live, and that   *)
(* the answer takes for expired.                                           *)
Boards == [reasons : [Tasks -> Reasons], lapsed : SUBSET Tasks]

BoardInit == Init /\ read = <<>> /\ board = <<>>

(* The campaign goes on meanwhile; campaign-status does not read what is     *)
(* accepted, and this view of the leases has no use for it.                *)
Work ==
  /\ \E t \in Tasks : Claim(t) \/ Expire(t) \/ Release(t) \/ (view # "leases" /\ Accept(t))
  /\ UNCHANGED <<read, board>>

(* runtime.inspect; the next answer begins with the first of them.         *)
Inspect(t) ==
  /\ approved /\ view = "leases"
  /\ \/ /\ board = <<>> /\ t \notin DOMAIN read
        /\ read' = [u \in DOMAIN read \cup {t} |-> IF u = t THEN leases[t] ELSE read[u]]
     \/ /\ board # <<>>
        /\ read' = [u \in {t} |-> leases[t]]
  /\ board' = <<>>
  /\ UNCHANGED <<campaign, approved, view, leases, accepted>>

(* A lease that was live when it was read may have passed its expiry by the *)
(* time of the schedule; it may have been renewed since, so that this does *)
(* not tell that it is not held.                                           *)
MayLapse(t) == read[t].live

(* ... and has passed it if the lease itself expired.                      *)
HasLapsed(t) == read[t].live /\ leases[t] = [read[t] EXCEPT !.live = FALSE]

Answer ==
  /\ DOMAIN read = Tasks /\ board = <<>>
  /\ \E lapsed \in SUBSET {t \in Tasks : MayLapse(t)} :
       /\ {t \in Tasks : HasLapsed(t)} \subseteq lapsed
       /\ board' = [reasons |-> Schedule(campaign, [t \in Tasks |->
                                  [read[t] EXCEPT !.live = @ /\ t \notin lapsed]]),
                    lapsed |-> lapsed]
  /\ UNCHANGED <<campaign, approved, view, leases, accepted, read>>

BoardNext == Work \/ Answer \/ \E t \in Tasks : Inspect(t)

BoardSpec == BoardInit /\ [][BoardNext]_boardVars

-----------------------------------------------------------------------------
BoardTypeOK ==
  /\ TypeOK
  /\ DOMAIN read \subseteq Tasks /\ \A t \in DOMAIN read : read[t] \in Snapshots
  /\ board # <<>> => board \in Boards /\ DOMAIN read = Tasks

(* A task that the answer calls ready stands on completed work, though its  *)
(* own file and those of what it depends on were read at different times,  *)
(* and however long ago.  And as long as nobody has taken it since, it can *)
(* be dispatched: no worker is busy in a path that it may write            *)
(* (cli.py lines 286-293).                                                 *)
ReadyIsSafe ==
  board # <<>> =>
    \A t \in Tasks : board.reasons[t] \in Ready =>
      /\ \A d \in campaign.deps[t] : Decisions[d] = "completed"
      /\ leases[t] = read[t] => \A s \in Tasks : Working(s) /\ ShareAPath(s, t) => s = t

(* A task that the answer settles stays settled: as completed, or as given  *)
(* up, unless it or one below it was read while it was leased and renewed  *)
(* its lease before the answer took it for expired.                        *)
VerdictsStand ==
  board # <<>> =>
    LET stale(t) == (Below(Tasks, campaign.deps, t) \cup {t}) \cap board.lapsed # {}
    IN  \A t \in Tasks :
          /\ board.reasons[t] = "completed" => Decisions[t] = "completed"
          /\ board.reasons[t] \in Failed => Decisions[t] \in Failed \/ stale(t)

(* So the main agent may go by an answer that was put together from         *)
(* readings of different moments, and go by it for as long as it likes     *)
(* (cli.py lines 282-294).                                                 *)
AnswerStands == ReadyIsSafe /\ VerdictsStand
=============================================================================
