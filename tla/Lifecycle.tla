------------------------------- MODULE Lifecycle -------------------------------
(***************************************************************************)
(* science_repo/lifecycle.py: transition_stage.  An experiment's stage is   *)
(* kept twice, in experiment.yaml and as the last event of                  *)
(* stage-history.jsonl; a transition replaces the first and appends to the *)
(* second, without a lock.  Calls interleave, a process may die and a      *)
(* write may fail at every step.                                           *)
(***************************************************************************)
EXTENDS Naturals, Sequences

CONSTANTS Procs,     \* processes, one call each at a time
          First,     \* the stages an experiment may have at the start
          MaxMoves   \* bound: how many transitions are started

VARIABLES stage,    \* the stage in experiment.yaml
          history,  \* the events in stage-history.jsonl
          tail,     \* how the history ends: "whole", or without the newline
                    \* of its last event, or with a line that is no event
          move,     \* where each call stands, and its locals
          moves,    \* how many calls were started
          answered  \* history: the transitions that were answered

lcVars == <<stage, history, tail, move, moves, answered>>

-----------------------------------------------------------------------------
TRANSITIONS ==
  [idea |-> {"designed", "abandoned"}, designed |-> {"running", "abandoned"},
   running |-> {"analyzed", "abandoned"}, analyzed |-> {"reviewed", "abandoned"},
   reviewed |-> {"published", "abandoned"}, published |-> {}, abandoned |-> {}]

Stages == DOMAIN TRANSITIONS

Events == {e \in [from : Stages, to : Stages] : e.to \in TRANSITIONS[e.from]}

ASSUME LifecycleAssumption == First \subseteq Stages /\ MaxMoves \in Nat

Rest == [step |-> "rest"]

(* The call's event, the bytes of the manifest it would bring back.        *)
Moves == {Rest} \cup [step : {"check", "keep"}, event : Events]
                \cup [step : {"replace", "append", "undo"}, event : Events,
                      original : Stages]

LcInit == /\ stage \in First
          /\ history = <<>>
          /\ tail = "whole"
          /\ move = [p \in Procs |-> Rest]
          /\ moves = 0
          /\ answered = {}

-----------------------------------------------------------------------------
Become(p, m) == move' = [move EXCEPT ![p] = m]

(* A chain of permitted events.                                            *)
Continuous == \A i \in 2..Len(history) : history[i].from = history[i - 1].to

(* read_stage_history: every line is an event and continues the last one.   *)
Readable == tail # "torn" /\ Continuous

(* A call that finds stage s in the manifest gets past the history.         *)
Matches(s) == /\ Readable
              /\ history = <<>> \/ history[Len(history)].to = s

(* The manifest is loaded; the transition must be a permitted one.          *)
Begin(p) ==
  /\ move[p] = Rest
  /\ moves < MaxMoves /\ moves' = moves + 1
  /\ \E to \in TRANSITIONS[stage] :
       Become(p, [step |-> "check", event |-> [from |-> stage, to |-> to]])
  /\ UNCHANGED <<stage, history, tail, answered>>

Check(p) ==
  /\ move[p].step = "check"
  /\ IF Matches(move[p].event.from)
     THEN Become(p, [step |-> "keep", event |-> move[p].event])
     ELSE Become(p, Rest)
  /\ UNCHANGED <<stage, history, tail, moves, answered>>

(* Mutant: nothing is kept to bring back.                                  *)
KeepNothing(p) ==
  /\ move[p].step = "keep"
  /\ Become(p, [step |-> "replace", event |-> move[p].event])
  /\ UNCHANGED <<stage, history, tail, moves, answered>>

(* The manifest is read again, for its bytes.                              *)
Keep(p) ==
  /\ move[p].step = "keep"
  /\ Become(p, [step |-> "replace", event |-> move[p].event, original |-> stage])
  /\ UNCHANGED <<stage, history, tail, moves, answered>>

Replace(p) ==
  /\ move[p].step = "replace"
  /\ stage' = move[p].event.to
  /\ Become(p, [step |-> "append", event |-> move[p].event, original |-> move[p].original])
  /\ UNCHANGED <<history, tail, moves, answered>>

(* The event reaches the file; after a line without its end it becomes a    *)
(* part of that line, which is no event any more.                          *)
Appended(event, end) ==
  IF tail = "whole" THEN history' = Append(history, event) /\ tail' = end
                    ELSE tail' = "torn" /\ UNCHANGED history

(* A part of the line may reach the file, or all of it but its end.         *)
Cut(event) == \/ UNCHANGED <<history, tail>>
              \/ tail' = "torn" /\ UNCHANGED history
              \/ Appended(event, "unended")

(* Mutant: a transition whose event could not be appended is answered.      *)
AppendForgiven(p) ==
  /\ move[p].step = "append"
  /\ Cut(move[p].event) \/ Appended(move[p].event, "whole")
  /\ answered' = answered \cup {move[p].event}
  /\ Become(p, Rest)
  /\ UNCHANGED <<stage, moves>>

AppendEvent(p) ==
  /\ move[p].step = "append"
  /\ Appended(move[p].event, "whole")
  /\ answered' = answered \cup {move[p].event}
  /\ Become(p, Rest)
  /\ UNCHANGED <<stage, moves>>

(* The append raises, at the latest because of the fsync.                  *)
AppendFails(p) ==
  /\ move[p].step = "append"
  /\ Cut(move[p].event) \/ Appended(move[p].event, "whole")
  /\ Become(p, [step |-> "undo", event |-> move[p].event, original |-> move[p].original])
  /\ UNCHANGED <<stage, moves, answered>>

Undo(p) ==
  /\ move[p].step = "undo"
  /\ stage' = move[p].original
  /\ Become(p, Rest)
  /\ UNCHANGED <<history, tail, moves, answered>>

(* The process dies; or a read or the replacement of a file fails, which    *)
(* ends the call where it stands.                                          *)
Stop(p) ==
  /\ move[p] # Rest
  /\ \/ move[p].step = "append" /\ Cut(move[p].event)
     \/ UNCHANGED <<history, tail>>
  /\ Become(p, Rest)
  /\ UNCHANGED <<stage, moves, answered>>

Transition(p) == \/ Begin(p) \/ Check(p) \/ Keep(p) \/ Replace(p)
                 \/ AppendEvent(p) \/ AppendFails(p) \/ Undo(p) \/ Stop(p)

LcNext == \E p \in Procs : Transition(p)

LcSpec == LcInit /\ [][LcNext]_lcVars

-----------------------------------------------------------------------------
LcTypeOK == /\ stage \in Stages
            /\ history \in Seq(Events)
            /\ tail \in {"whole", "unended", "torn"}
            /\ move \in [Procs -> Moves]
            /\ moves \in 0..MaxMoves
            /\ answered \subseteq Events

(* The stages in their order; stage t is s, or a later one that transitions *)
(* lead to.                                                                *)
Rank == [idea |-> 0, designed |-> 1, running |-> 2, analyzed |-> 3,
         reviewed |-> 4, published |-> 5, abandoned |-> 6]

AtOrPast(s, t) == s = t \/ (TRANSITIONS[s] # {} /\ Rank[s] < Rank[t])

(* A transition that was answered is never silently undone: the stage is    *)
(* where it led or further on, or the next transition is refused.  It holds *)
(* with calls that overlap, with processes that die, and with every write   *)
(* cut short (lifecycle.py lines 111-113 and 126-135).                     *)
AnsweredStands ==
  \A e \in answered : AtOrPast(e.to, stage) \/ ~Matches(stage)
=============================================================================
