-------------------------- MODULE ExperimentRunProofs --------------------------
(***************************************************************************)
(* A transition that was answered stands, for every set of processes: calls *)
(* may overlap, die at every step and fail at every write.  Nothing is       *)
(* assumed of the manifest: the history alone keeps the stage from going    *)
(* back, because an event in it is continued or the history is refused.     *)
(*                                                                          *)
(* And a review's "pass" means what it should, for every set of runs:       *)
(* whoever edits the input, whichever commands write the output, and        *)
(* wherever a runner dies.  A run's steps leave the transitions alone, so   *)
(* what is shown of those holds here as well.                              *)
(***************************************************************************)
EXTENDS ExperimentRun, TLAPS

(* An answered event is in the history, or the history is unreadable.       *)
Recorded == \A e \in answered : tail = "torn" \/ \E i \in DOMAIN history : history[i] = e

(* A continuous history only ever leads on.                                *)
LeadsOn == Continuous => \A i, j \in DOMAIN history :
             i <= j => AtOrPast(history[i].to, history[j].to)

LcInv == LcTypeOK /\ Recorded /\ LeadsOn

-----------------------------------------------------------------------------
LEMMA StagesAre ==
  /\ Stages = {"idea", "designed", "running", "analyzed", "reviewed", "published", "abandoned"}
  /\ TRANSITIONS["idea"] = {"designed", "abandoned"}
  /\ TRANSITIONS["designed"] = {"running", "abandoned"}
  /\ TRANSITIONS["running"] = {"analyzed", "abandoned"}
  /\ TRANSITIONS["analyzed"] = {"reviewed", "abandoned"}
  /\ TRANSITIONS["reviewed"] = {"published", "abandoned"}
  /\ TRANSITIONS["published"] = {} /\ TRANSITIONS["abandoned"] = {}
  /\ \A s \in Stages : TRANSITIONS[s] \subseteq Stages
  BY DEF Stages, TRANSITIONS

LEMMA RanksAre ==
  /\ Rank["idea"] = 0 /\ Rank["designed"] = 1 /\ Rank["running"] = 2 /\ Rank["analyzed"] = 3
  /\ Rank["reviewed"] = 4 /\ Rank["published"] = 5 /\ Rank["abandoned"] = 6
  BY DEF Rank

(* A permitted transition leads past everything its source is at or past.   *)
LEMMA OneFurther ==
  ASSUME NEW s \in Stages, NEW t \in Stages, NEW u \in TRANSITIONS[t], AtOrPast(s, t)
  PROVE  AtOrPast(s, u)
<1>1. TRANSITIONS[t] # {} /\ Rank[t] < Rank[u]
  BY StagesAre, RanksAre
<1>2. Rank[s] \in Nat /\ Rank[t] \in Nat /\ Rank[u] \in Nat
  BY StagesAre, RanksAre
<1>. QED  BY <1>1, <1>2 DEF AtOrPast

LEMMA MoveIs ==
  ASSUME NEW m \in Moves
  PROVE  /\ m = Rest <=> m.step = "rest"
         /\ m.step \in {"rest", "check", "keep", "replace", "append", "undo"}
         /\ m.step # "rest" => m.event \in Events
         /\ m.step \in {"replace", "append", "undo"} => m.original \in Stages
  BY DEF Moves, Rest

LEMMA EventIs ==
  ASSUME NEW e \in Events
  PROVE  e.from \in Stages /\ e.to \in Stages /\ e.to \in TRANSITIONS[e.from]
  BY DEF Events

(* The history before an event was appended to it: if the longer one is     *)
(* continuous, so was the shorter one, and the event continues it.         *)
LEMMA AppendedHistory ==
  ASSUME LcInv, NEW e \in Events, history' = Append(history, e)
  PROVE  /\ history' \in Seq(Events) /\ LeadsOn'
         /\ \A i \in DOMAIN history : i \in DOMAIN history' /\ history'[i] = history[i]
         /\ \E i \in DOMAIN history' : history'[i] = e
<1> DEFINE n == Len(history)
<1>1. history \in Seq(Events) /\ n \in Nat /\ DOMAIN history = 1..n
  BY DEF LcInv, LcTypeOK
<1>2. /\ history' \in Seq(Events) /\ DOMAIN history' = 1..(n + 1) /\ Len(history') = n + 1
      /\ \A i \in 1..n : history'[i] = history[i]
      /\ history'[n + 1] = e
  BY <1>1
<1>3. ASSUME Continuous', NEW i \in 1..(n + 1), NEW j \in 1..(n + 1), i <= j
      PROVE  AtOrPast(history'[i].to, history'[j].to)
  <2>1. Continuous
    BY <1>1, <1>2, <1>3 DEF Continuous
  <2>2. CASE j <= n
    BY <1>1, <1>2, <1>3, <2>1, <2>2 DEF LcInv, LeadsOn
  <2>3. CASE i <= n /\ j = n + 1
    <3>1. AtOrPast(history[i].to, history[n].to)
      BY <1>1, <1>3, <2>1, <2>3 DEF LcInv, LeadsOn
    <3>2. e.from = history[n].to
      BY <1>1, <1>2, <1>3, <2>3 DEF Continuous
    <3>3. history[i] \in Events /\ history[n] \in Events
      BY <1>1, <2>3
    <3>. QED  BY <1>2, <2>3, <3>1, <3>2, <3>3, OneFurther, EventIs
  <2>4. CASE i = n + 1 /\ j = n + 1
    BY <2>4 DEF AtOrPast
  <2>. QED  BY <1>1, <1>3, <2>2, <2>3, <2>4
<1>. QED  BY <1>1, <1>2, <1>3 DEF LeadsOn

(* Whatever reaches the file, no recorded event is lost from it unseen.     *)
LEMMA FileStep ==
  ASSUME LcInv, NEW e \in Events, NEW end \in {"whole", "unended"},
         Appended(e, end) \/ Cut(e) \/ UNCHANGED <<history, tail>>
  PROVE  /\ history' \in Seq(Events) /\ tail' \in {"whole", "unended", "torn"} /\ LeadsOn'
         /\ tail = "torn" => tail' = "torn"
         /\ \A i \in DOMAIN history : i \in DOMAIN history' /\ history'[i] = history[i]
         /\ Appended(e, end) => tail' = "torn" \/ \E i \in DOMAIN history' : history'[i] = e
<1>1. CASE history' = Append(history, e) /\ tail = "whole" /\ tail' \in {"whole", "unended"}
  BY <1>1, AppendedHistory
<1>2. CASE UNCHANGED history /\ tail' \in {tail, "torn"} /\ ~(Appended(e, end) /\ tail = "whole")
  BY <1>2 DEF LcInv, LcTypeOK, LeadsOn, Continuous, Appended
<1>3. CASE Appended(e, end) /\ tail = "whole"
  BY <1>1, <1>3 DEF Appended
<1>. QED  BY <1>1, <1>2, <1>3 DEF Appended, Cut

-----------------------------------------------------------------------------
LEMMA LcInvInit == LcInit => LcInv
  BY LifecycleAssumption, SMT
     DEF LcInit, LcInv, LcTypeOK, Recorded, LeadsOn, Moves

LEMMA LcInvStep == LcInv /\ [LcNext]_lcVars => LcInv'
<1> SUFFICES ASSUME LcInv, [LcNext]_lcVars PROVE LcInv'
  OBVIOUS
<1>0. /\ move \in [Procs -> Moves] /\ stage \in Stages /\ moves \in 0..MaxMoves
      /\ answered \subseteq Events /\ Recorded /\ LeadsOn /\ history \in Seq(Events)
      /\ tail \in {"whole", "unended", "torn"}
  BY DEF LcInv, LcTypeOK
(* Calls that leave the history alone.                                     *)
<1>1. ASSUME NEW p \in Procs, NEW m \in Moves, Become(p, m), stage' \in Stages,
             moves' \in 0..MaxMoves, UNCHANGED <<history, tail, answered>>
      PROVE  LcInv'
  BY <1>0, <1>1 DEF Become, LcInv, LcTypeOK, Recorded, LeadsOn, Continuous
(* Calls that write it.                                                    *)
<1>2. ASSUME NEW p \in Procs, NEW m \in Moves, Become(p, m), NEW e \in Events,
             Appended(e, "whole") \/ Cut(e) \/ UNCHANGED <<history, tail>>,
             answered' = answered \/ (Appended(e, "whole") /\ answered' = answered \cup {e}),
             UNCHANGED <<stage, moves>>
      PROVE  LcInv'
  <2>1. /\ history' \in Seq(Events) /\ tail' \in {"whole", "unended", "torn"} /\ LeadsOn'
        /\ tail = "torn" => tail' = "torn"
        /\ \A i \in DOMAIN history : i \in DOMAIN history' /\ history'[i] = history[i]
        /\ Appended(e, "whole") => tail' = "torn" \/ \E i \in DOMAIN history' : history'[i] = e
    BY <1>2, FileStep
  <2>2. LcTypeOK'
    BY <1>0, <1>2, <2>1 DEF Become, LcTypeOK
  <2>3. Recorded'
    BY <1>0, <1>2, <2>1 DEF Recorded
  <2>. QED  BY <2>1, <2>2, <2>3 DEF LcInv
<1>3. ASSUME NEW p \in Procs, Begin(p) PROVE LcInv'
  <2>1. PICK to \in TRANSITIONS[stage] :
          Become(p, [step |-> "check", event |-> [from |-> stage, to |-> to]])
    BY <1>3 DEF Begin
  <2>2. [step |-> "check", event |-> [from |-> stage, to |-> to]] \in Moves
    BY <1>0, StagesAre DEF Moves, Events
  <2>. QED  BY <1>0, <1>1, <1>3, <2>1, <2>2, LifecycleAssumption DEF Begin
<1>4. ASSUME NEW p \in Procs, Check(p) PROVE LcInv'
  <2>1. Rest \in Moves /\ [step |-> "keep", event |-> move[p].event] \in Moves
    BY <1>0, <1>4, MoveIs DEF Check, Moves
  <2>. QED  BY <1>0, <1>1, <1>4, <2>1 DEF Check
<1>5. ASSUME NEW p \in Procs, Keep(p) PROVE LcInv'
  <2>1. [step |-> "replace", event |-> move[p].event, original |-> stage] \in Moves
    BY <1>0, <1>5, MoveIs DEF Keep, Moves
  <2>. QED  BY <1>0, <1>1, <1>5, <2>1 DEF Keep
<1>6. ASSUME NEW p \in Procs, Replace(p) PROVE LcInv'
  <2>1. /\ [step |-> "append", event |-> move[p].event, original |-> move[p].original] \in Moves
        /\ move[p].event.to \in Stages
    BY <1>0, <1>6, MoveIs, EventIs DEF Replace, Moves
  <2>. QED  BY <1>0, <1>1, <1>6, <2>1 DEF Replace
<1>7. ASSUME NEW p \in Procs, AppendEvent(p) PROVE LcInv'
  <2>1. Rest \in Moves /\ move[p].event \in Events
    BY <1>0, <1>7, MoveIs DEF AppendEvent, Moves
  <2>. QED  BY <1>2, <1>7, <2>1 DEF AppendEvent
<1>8. ASSUME NEW p \in Procs, AppendFails(p) PROVE LcInv'
  <2>1. /\ [step |-> "undo", event |-> move[p].event, original |-> move[p].original] \in Moves
        /\ move[p].event \in Events
    BY <1>0, <1>8, MoveIs DEF AppendFails, Moves
  <2>. QED  BY <1>2, <1>8, <2>1 DEF AppendFails
<1>9. ASSUME NEW p \in Procs, Undo(p) PROVE LcInv'
  <2>1. Rest \in Moves /\ move[p].original \in Stages
    BY <1>0, <1>9, MoveIs DEF Undo, Moves
  <2>. QED  BY <1>0, <1>1, <1>9, <2>1 DEF Undo
<1>10. ASSUME NEW p \in Procs, Stop(p) PROVE LcInv'
  <2>1. Rest \in Moves /\ move[p].event \in Events
    BY <1>0, <1>10, MoveIs DEF Stop, Moves
  <2>. QED  BY <1>2, <1>10, <2>1 DEF Stop
<1>11. CASE UNCHANGED lcVars
  BY <1>0, <1>11 DEF lcVars, LcInv, LcTypeOK, Recorded, LeadsOn, Continuous
<1>. QED  BY <1>3, <1>4, <1>5, <1>6, <1>7, <1>8, <1>9, <1>10, <1>11 DEF LcNext, Transition

(* An event in a history that the stage matches is continued up to it.      *)
LEMMA LcInvMeans == LcInv => AnsweredStands
<1> SUFFICES ASSUME LcInv, NEW e \in answered, Matches(stage) PROVE AtOrPast(e.to, stage)
  BY DEF AnsweredStands
<1>1. history \in Seq(Events) /\ Len(history) \in Nat /\ DOMAIN history = 1..Len(history)
  BY DEF LcInv, LcTypeOK
<1>2. PICK i \in DOMAIN history : history[i] = e
  BY DEF LcInv, Recorded, Matches, Readable
<1>3. history # <<>>
  BY <1>1, <1>2
<1>4. history[Len(history)].to = stage /\ Continuous
  BY <1>3 DEF Matches, Readable
<1>. QED  BY <1>1, <1>2, <1>4 DEF LcInv, LeadsOn

LEMMA LcInvariant == LcSpec => []LcInv
<1>. QED  BY LcInvInit, LcInvStep, PTL DEF LcSpec

(* An answered transition stands or makes the next one be refused.          *)
THEOREM TransitionStands == LcSpec => []AnsweredStands
<1>. QED  BY LcInvMeans, LcInvariant, PTL

-----------------------------------------------------------------------------
(* Runs and their review.                                                  *)

Running == {"freeze", "start", "running", "collect", "record", "unmark"}
Reviewing == {"inputs", "artifacts", "acceptance", "plugins"}

(* A run is carried out by one process at most, and its directory says how  *)
(* far it is.                                                              *)
Place(step, d, seen) ==
  /\ step = "freeze" => d.at = "made"
  /\ step \in {"start", "running", "collect", "record"} => d.at = "marked"
  /\ step = "unmark" => d.at = "recorded" /\ d.record = seen

DirectoryInv ==
  /\ \A p, q \in Procs : job[p].step \in Running /\ job[q].step \in Running
                           /\ job[p].run = job[q].run => p = q
  /\ \A p \in Procs : job[p].step \in Running =>
       Place(job[p].step, run[job[p].run], job[p].seen)

(* Who wrote the output, as long as only one command did.                   *)
OutputInv ==
  \A r \in Runs : /\ run[r].at = "unused" => r \notin loose \cup wrote
                  /\ r \in wrote \ disturbed => output.by = r

(* The input that a run recorded, against what its command has read: if it  *)
(* is another one, then the file has moved on for good.                    *)
ReadInv(r, seen) == seen.inputs <= input /\ (r \in fits \/ seen.inputs < input)

(* What stands of an observation after the command's end.  That it succeeded *)
(* is to say that it is gone, so the output is the one that was digested.   *)
FinalInv(r, seen) == seen.exit = 0 => /\ r \notin loose
                                      /\ r \notin disturbed => seen.artifact = output

(* What a run knows at a step.                                             *)
Knows(step, r, seen) ==
  /\ step \in {"freeze", "start", "running"} => r \notin loose /\ seen.exit = 1
  /\ step # "freeze" => seen.inputs <= input
  /\ step = "running" \/ seen.exit = 0 => ReadInv(r, seen)
  /\ seen.exit = 0 => r \notin loose
  /\ step \in {"record", "unmark"} => FinalInv(r, seen)

SeenInv ==
  /\ \A p \in Procs : job[p].step \in Running => Knows(job[p].step, job[p].run, job[p].seen)
  /\ \A r \in Runs : run[r].at \in {"recorded", "ended"} =>
       /\ run[r].record \in Observations
       /\ run[r].record.exit = 0 => ReadInv(r, run[r].record)
       /\ FinalInv(r, run[r].record)

(* What the checks that a review has made say from then on.                 *)
Ended(r) == run[r].at = "ended" /\ run[r].record.exit = 0
Good(r) == Ended(r) /\ r \in fits /\ (r \notin disturbed => ~MissesCriteria(run[r].record.artifact))

ReviewInv ==
  /\ \A p \in Procs :
       /\ job[p].step \in Reviewing => Ended(job[p].run)
       /\ job[p].step \in {"artifacts", "acceptance", "plugins"} => job[p].run \in fits
       /\ job[p].step = "plugins" => Good(job[p].run)
       /\ job[p].step = "report" /\ job[p].verdict = "pass" => Good(job[p].run)
  /\ \A r \in passed : Good(r)

RInv == LcInv /\ TypeOK /\ DirectoryInv /\ OutputInv /\ SeenInv /\ ReviewInv

-----------------------------------------------------------------------------
LEMMA JobIs ==
  ASSUME NEW j \in Jobs
  PROVE  /\ j = Off <=> j.step = "off"
         /\ j.step \in {"off", "report"} \cup Running \cup Reviewing
         /\ j.step # "off" => j.run \in Runs
         /\ j.step \in Running => j.seen \in Observations
  BY DEF Jobs, Off, Running, Reviewing

LEMMA JobsAre ==
  /\ Off \in Jobs
  /\ \A step \in Running, r \in Runs, seen \in Observations :
       [step |-> step, run |-> r, seen |-> seen] \in Jobs
  /\ \A step \in Reviewing, r \in Runs : [step |-> step, run |-> r] \in Jobs
  /\ \A r \in Runs, v \in {"pass", "fail"} : [step |-> "report", run |-> r, verdict |-> v] \in Jobs
  BY DEF Jobs, Off, Running, Reviewing

LEMMA ObservationIs ==
  ASSUME NEW i \in Inputs, NEW e \in {0, 1}, NEW a \in Results \cup {None}
  PROVE  Observation(i, e, a) \in Observations
  BY DEF Observation, Observations

LEMMA RInvInit == Init => RInv
<1> SUFFICES ASSUME Init PROVE RInv
  OBVIOUS
<1>1. TypeOK
  BY LcInvInit, RunAssumption, JobsAre
     DEF Init, RunInit, TypeOK, LcInv, Inputs, Results, RunType
<1>. QED
  BY <1>1, LcInvInit DEF Init, RunInit, RInv, DirectoryInv, OutputInv, SeenInv, ReviewInv, Off, Running,
              Reviewing
-----------------------------------------------------------------------------
(* A step of the composition is one of a transition or leaves its state.    *)
LEMMA StepIsTransition == [Next]_vars => [LcNext]_lcVars
  BY DEF Next, LcNext, vars, lcVars

(* Steps of a review, and the end of a job: only the job and what was       *)
(* reported change.                                                        *)
LEMMA JobStep ==
  ASSUME RInv, LcInv', NEW p \in Procs, NEW j \in Jobs, Give(p, j), j.step \notin Running,
         UNCHANGED <<input, output, run, wrote, disturbed, fits>>,
         loose' = loose \/ (job[p].step = "running" /\ Survives(p)),
         j.step \in Reviewing => Ended(j.run),
         j.step \in {"artifacts", "acceptance", "plugins"} => j.run \in fits,
         j.step = "plugins" \/ (j.step = "report" /\ j.verdict = "pass") => Good(j.run),
         passed' \subseteq Runs, \A r \in passed' : Good(r)
  PROVE  RInv'
<1>0. /\ job' \in [Procs -> Jobs] /\ job'[p] = j /\ \A q \in Procs \ {p} : job'[q] = job[q]
      /\ job \in [Procs -> Jobs]
      /\ j.step \in {"off", "report"} \cup Reviewing
  BY JobIs DEF RInv, TypeOK, Give
<1>1. /\ loose' \subseteq Runs
      /\ \A r \in loose' : r \in loose \/ (job[p].step = "running" /\ r = job[p].run)
  BY <1>0, JobIs DEF RInv, TypeOK, Survives, Running
<1>2. TypeOK'
  BY <1>0, <1>1 DEF RInv, TypeOK, LcInv
<1>3. DirectoryInv'
  BY <1>0 DEF RInv, DirectoryInv, Place, Running, Reviewing
<1>4. OutputInv'
  BY <1>0, <1>1 DEF RInv, OutputInv, DirectoryInv, Place, Running
<1>5. SeenInv'
  <2>1. \A q \in Procs \ {p} : job[p].step = "running" /\ job[q].step \in Running =>
           job[q].run # job[p].run
    BY DEF RInv, DirectoryInv, Running
  <2>2. \A r \in Runs : run[r].at \in {"recorded", "ended"} /\ job[p].step = "running" =>
           r # job[p].run
    BY DEF RInv, DirectoryInv, Place, Running
  <2>. QED  BY <1>0, <1>1, <2>1, <2>2 DEF RInv, SeenInv, Knows, ReadInv, FinalInv, Running, Reviewing
<1>6. ReviewInv'
  BY <1>0 DEF RInv, ReviewInv, Ended, Good, Reviewing
<1>. QED  BY <1>2, <1>3, <1>4, <1>5, <1>6 DEF RInv
(* Steps of a run up to its record: its job goes on, and its directory.     *)
LEMMA Onward ==
  ASSUME RInv, LcInv', NEW p \in Procs, NEW step \in Running, NEW r \in Runs,
         NEW seen \in Observations, NEW d \in RunType,
         Give(p, [step |-> step, run |-> r, seen |-> seen]), run' = [run EXCEPT ![r] = d],
         run[r].at # "ended", d.at \notin {"unused", "ended"},
         \/ job[p].step \in Running /\ job[p].run = r
         \/ job[p].step = "off" /\ run[r].at = "unused",
         Place(step, d, seen), d.at = "recorded" => step = "unmark",
         Knows(step, r, seen)',
         UNCHANGED <<input, output, wrote, disturbed, passed>>,
         loose \subseteq loose', loose' \subseteq loose \cup {r},
         fits \subseteq fits', fits' \subseteq fits \cup {r}
  PROVE  RInv'
<1> DEFINE j == [step |-> step, run |-> r, seen |-> seen]
<1>0. /\ job' \in [Procs -> Jobs] /\ job'[p] = j /\ \A q \in Procs \ {p} : job'[q] = job[q]
      /\ run' \in [Runs -> RunType] /\ run'[r] = d /\ \A x \in Runs \ {r} : run'[x] = run[x]
      /\ job \in [Procs -> Jobs]
      /\ j.step = step /\ j.run = r /\ j.seen = seen
  BY JobsAre DEF RInv, TypeOK, Give
<1>1. \A q \in Procs \ {p} : job[q].step \in Running => job[q].run \in Runs \ {r}
  BY <1>0, JobIs DEF RInv, DirectoryInv, Place, Running
<1>2. TypeOK'
  BY <1>0 DEF RInv, TypeOK, LcInv
<1>3. DirectoryInv'
  BY <1>0, <1>1 DEF RInv, DirectoryInv
<1>4. OutputInv'
  BY <1>0 DEF RInv, OutputInv
<1>5. SeenInv'
  <2>1. ASSUME NEW q \in Procs \ {p}, job[q].step \in Running
        PROVE  Knows(job[q].step, job[q].run, job[q].seen)'
    BY <1>0, <1>1, <2>1 DEF RInv, SeenInv, Knows, ReadInv, FinalInv
  <2>2. ASSUME NEW x \in Runs \ {r}, run[x].at \in {"recorded", "ended"}
        PROVE  /\ run[x].record \in Observations
               /\ run[x].record.exit = 0 => ReadInv(x, run[x].record)'
               /\ FinalInv(x, run[x].record)'
    BY <1>0, <2>2 DEF RInv, SeenInv, ReadInv, FinalInv
  <2>3. d.at = "recorded" => /\ d.record = seen
                             /\ seen.exit = 0 => ReadInv(r, seen)'
                             /\ FinalInv(r, seen)'
    BY DEF Place, Knows
  <2>. QED  BY <1>0, <2>1, <2>2, <2>3 DEF SeenInv
<1>6. ReviewInv'
  BY <1>0 DEF RInv, ReviewInv, Ended, Good, Running, Reviewing
<1>. QED  BY <1>2, <1>3, <1>4, <1>5, <1>6 DEF RInv

LEMMA RunStep ==
  ASSUME RInv, LcInv', RunNext
  PROVE  RInv'
<1>0. /\ job \in [Procs -> Jobs] /\ run \in [Runs -> RunType]
      /\ input \in Inputs /\ input \in Nat /\ output \in Results \cup {None}
      /\ loose \subseteq Runs /\ passed \subseteq Runs /\ fits \subseteq Runs
      /\ wrote \subseteq Runs /\ disturbed \subseteq Runs
      /\ \A r \in passed : Good(r)
  BY RunAssumption DEF RInv, TypeOK, ReviewInv, Inputs
(* What a process that carries out a run has and knows.                    *)
<1>1. ASSUME NEW p \in Procs, job[p].step \in Running
      PROVE  \E r \in Runs, f \in Observations :
               /\ job[p].run = r /\ job[p].seen = f
               /\ run[r] \in RunType /\ run[r].at \notin {"unused", "ended"}
               /\ run = [run EXCEPT ![r] = run[r]]
               /\ Place(job[p].step, run[r], f)
               /\ Knows(job[p].step, r, f)
               /\ f.inputs \in Inputs /\ f.inputs \in Nat /\ f.exit \in {0, 1}
  <2>1. job[p].run \in Runs /\ job[p].seen \in Observations
    BY <1>0, <1>1, JobIs DEF Running
  <2>. QED
    BY <1>0, <1>1, <2>1, RunAssumption
       DEF RInv, DirectoryInv, Place, SeenInv, Running, Observations, Inputs
<1>2. ASSUME NEW p \in Procs, Load(p) PROVE RInv'
  <2>1. PICK r \in Runs :
          /\ run[r].at = "unused"
          /\ run' = [run EXCEPT ![r] = [at |-> "made", record |-> None]]
          /\ Give(p, [step |-> "freeze", run |-> r, seen |-> Observation(0, 1, None)])
    BY <1>2 DEF Load
  <2>2. PICK f \in Observations, d \in RunType :
          /\ f = Observation(0, 1, None) /\ f.exit = 1
          /\ d = [at |-> "made", record |-> None] /\ d.at = "made"
    <3>1. 0 \in Inputs /\ [at |-> "made", record |-> None] \in RunType
      BY RunAssumption DEF RunType, Begun, Inputs
    <3>2. Observation(0, 1, None) \in Observations /\ Observation(0, 1, None).exit = 1
      BY <3>1, ObservationIs DEF Observation
    <3>. QED  BY <3>1, <3>2
  <2>3. r \notin loose /\ job[p].step = "off" /\ "freeze" \in Running
        /\ UNCHANGED <<input, output, loose, passed, fits, wrote, disturbed>>
    BY <1>2, <2>1 DEF RInv, OutputInv, Load, Off, Running
  <2>4. Knows("freeze", r, f)' /\ Place("freeze", d, f)
    BY <2>2, <2>3 DEF Knows, Place
  <2>. QED  BY <2>1, <2>2, <2>3, <2>4, Onward
<1>3. ASSUME NEW p \in Procs, Freeze(p) PROVE RInv'
  <2>0. job[p].step = "freeze" /\ job[p].step \in Running
    BY <1>3 DEF Freeze, Running
  <2>1. PICK r \in Runs, f \in Observations :
          /\ job[p].run = r /\ job[p].seen = f
          /\ run[r] \in RunType /\ run[r].at \notin {"unused", "ended"}
          /\ run = [run EXCEPT ![r] = run[r]]
          /\ Place(job[p].step, run[r], f) /\ Knows(job[p].step, r, f)
          /\ f.inputs \in Inputs /\ f.inputs \in Nat /\ f.exit \in {0, 1}
    BY <2>0, <1>1
  <2>2. PICK g \in Observations, d \in RunType :
          /\ Give(p, [step |-> "start", run |-> r, seen |-> g]) /\ run' = [run EXCEPT ![r] = d]
          /\ g.inputs = input /\ g.exit = 1 /\ d.at = "marked"
    <3>1. Observation(input, 1, None) \in Observations /\ [at |-> "marked", record |-> None] \in RunType
      BY <1>0, ObservationIs DEF RunType, Begun
    <3>. QED  BY <1>3, <2>1, <3>1 DEF Freeze, Observe, Reach, Observation
  <2>3. UNCHANGED <<input, output, loose, passed, fits, wrote, disturbed>> /\ "start" \in Running
    BY <1>3 DEF Freeze, Running
  <2>4. Knows("start", r, g)' /\ Place("start", d, g)
    BY <1>0, <2>0, <2>1, <2>2, <2>3 DEF Knows, Place
  <2>. QED  BY <2>0, <2>1, <2>2, <2>3, <2>4, Onward
<1>4. ASSUME NEW p \in Procs, Start(p) PROVE RInv'
  <2>0. job[p].step = "start" /\ job[p].step \in Running
    BY <1>4 DEF Start, Running
  <2>1. PICK r \in Runs, f \in Observations :
          /\ job[p].run = r /\ job[p].seen = f
          /\ run[r] \in RunType /\ run[r].at \notin {"unused", "ended"}
          /\ run = [run EXCEPT ![r] = run[r]]
          /\ Place(job[p].step, run[r], f) /\ Knows(job[p].step, r, f)
          /\ f.inputs \in Inputs /\ f.inputs \in Nat /\ f.exit \in {0, 1}
    BY <2>0, <1>1
  <2>2. PICK step \in {"running", "collect"} :
          /\ Give(p, [step |-> step, run |-> r, seen |-> f])
          /\ IF step = "running"
             THEN fits' = fits \cup {x \in {r} : input = f.inputs}
             ELSE fits' = fits
          /\ UNCHANGED <<input, output, run, loose, passed, wrote, disturbed>>
    BY <1>4, <2>1 DEF Start, Observe
  <2>3. step \in Running /\ fits \subseteq fits' /\ fits' \subseteq fits \cup {r}
    BY <2>2 DEF Running
  <2>4. Knows(step, r, f)' /\ Place(step, run[r], f)
    BY <1>0, <2>0, <2>1, <2>2 DEF Knows, Place, ReadInv
  <2>5. run' = [run EXCEPT ![r] = run[r]]
    BY <2>1, <2>2
  <2>. QED  BY <2>0, <2>1, <2>2, <2>3, <2>4, <2>5, Onward DEF Place
<1>5. ASSUME NEW p \in Procs, Exit(p) PROVE RInv'
  <2>0. job[p].step = "running" /\ job[p].step \in Running
    BY <1>5 DEF Exit, Running
  <2>1. PICK r \in Runs, f \in Observations :
          /\ job[p].run = r /\ job[p].seen = f
          /\ run[r] \in RunType /\ run[r].at \notin {"unused", "ended"}
          /\ run = [run EXCEPT ![r] = run[r]]
          /\ Place(job[p].step, run[r], f) /\ Knows(job[p].step, r, f)
          /\ f.inputs \in Inputs /\ f.inputs \in Nat /\ f.exit \in {0, 1}
    BY <2>0, <1>1
  <2>2. PICK g \in Observations :
          /\ Give(p, [step |-> "collect", run |-> r, seen |-> g])
          /\ g.inputs = f.inputs
          /\ loose' = loose \/ (g.exit = 1 /\ loose' = loose \cup ({r} \ wrote))
          /\ UNCHANGED <<input, output, run, passed, fits, wrote, disturbed>>
    <3>1. PICK code \in {0, 1} :
            /\ Observe(p, Observation(f.inputs, code, None), "collect")
            /\ loose' = loose \/ (code = 1 /\ Survives(p))
      BY <1>5, <2>1 DEF Exit
    <3>2. Observation(f.inputs, code, None) \in Observations
      BY <2>1, ObservationIs
    <3>. QED  BY <1>5, <2>1, <3>1, <3>2 DEF Exit, Observe, Observation, Survives
  <2>3. "collect" \in Running /\ loose \subseteq loose' /\ loose' \subseteq loose \cup {r}
    BY <2>2 DEF Running
  <2>4. Knows("collect", r, g)' /\ Place("collect", run[r], g)
    BY <1>0, <2>0, <2>1, <2>2 DEF Knows, Place, ReadInv
  <2>5. run' = [run EXCEPT ![r] = run[r]]
    BY <2>1, <2>2
  <2>. QED  BY <2>0, <2>1, <2>2, <2>3, <2>4, <2>5, Onward DEF Place
<1>6. ASSUME NEW p \in Procs, Collect(p) PROVE RInv'
  <2>0. job[p].step = "collect" /\ job[p].step \in Running
    BY <1>6 DEF Collect, Running
  <2>1. PICK r \in Runs, f \in Observations :
          /\ job[p].run = r /\ job[p].seen = f
          /\ run[r] \in RunType /\ run[r].at \notin {"unused", "ended"}
          /\ run = [run EXCEPT ![r] = run[r]]
          /\ Place(job[p].step, run[r], f) /\ Knows(job[p].step, r, f)
          /\ f.inputs \in Inputs /\ f.inputs \in Nat /\ f.exit \in {0, 1}
    BY <2>0, <1>1
  <2>2. PICK g \in Observations :
          /\ Give(p, [step |-> "record", run |-> r, seen |-> g])
          /\ g.inputs = f.inputs /\ g.exit = f.exit /\ g.artifact = output
    <3>1. Observation(f.inputs, f.exit, output) \in Observations
      BY <1>0, <2>1, ObservationIs
    <3>. QED  BY <1>6, <2>1, <3>1 DEF Collect, Observe, Observation
  <2>3. /\ "record" \in Running
        /\ UNCHANGED <<input, output, run, loose, passed, fits, wrote, disturbed>>
    BY <1>6 DEF Collect, Running
  <2>4. Knows("record", r, g)' /\ Place("record", run[r], g)
    BY <1>0, <2>0, <2>1, <2>2, <2>3 DEF Knows, Place, ReadInv, FinalInv
  <2>5. run' = [run EXCEPT ![r] = run[r]]
    BY <2>1, <2>3
  <2>. QED  BY <2>0, <2>1, <2>2, <2>3, <2>4, <2>5, Onward DEF Place
<1>7. ASSUME NEW p \in Procs, Record(p) PROVE RInv'
  <2>0. job[p].step = "record" /\ job[p].step \in Running
    BY <1>7 DEF Record, Running
  <2>1. PICK r \in Runs, f \in Observations :
          /\ job[p].run = r /\ job[p].seen = f
          /\ run[r] \in RunType /\ run[r].at \notin {"unused", "ended"}
          /\ run = [run EXCEPT ![r] = run[r]]
          /\ Place(job[p].step, run[r], f) /\ Knows(job[p].step, r, f)
          /\ f.inputs \in Inputs /\ f.inputs \in Nat /\ f.exit \in {0, 1}
    BY <2>0, <1>1
  <2>2. PICK d \in RunType :
          /\ Give(p, [step |-> "unmark", run |-> r, seen |-> f]) /\ run' = [run EXCEPT ![r] = d]
          /\ d.at = "recorded" /\ d.record = f
    <3>1. [at |-> "recorded", record |-> f] \in RunType
      BY DEF RunType, Begun
    <3>. QED  BY <1>7, <2>1, <3>1 DEF Record, Observe, Reach
  <2>3. /\ "unmark" \in Running
        /\ UNCHANGED <<input, output, loose, passed, fits, wrote, disturbed>>
    BY <1>7 DEF Record, Running
  <2>4. Knows("unmark", r, f)' /\ Place("unmark", d, f)
    BY <1>0, <2>0, <2>1, <2>2, <2>3 DEF Knows, Place, ReadInv, FinalInv
  <2>. QED  BY <2>0, <2>1, <2>2, <2>3, <2>4, Onward
(* The run has ended: its record is as it was, and nobody carries it out.   *)
<1>8. ASSUME NEW p \in Procs, Unmark(p) PROVE RInv'
  <2>0. job[p].step = "unmark" /\ job[p].step \in Running
    BY <1>8 DEF Unmark, Running
  <2>1. PICK r \in Runs, f \in Observations :
          /\ job[p].run = r /\ job[p].seen = f
          /\ run[r] \in RunType /\ run[r].at \notin {"unused", "ended"}
          /\ run = [run EXCEPT ![r] = run[r]]
          /\ Place(job[p].step, run[r], f) /\ Knows(job[p].step, r, f)
          /\ f.inputs \in Inputs /\ f.inputs \in Nat /\ f.exit \in {0, 1}
    BY <2>0, <1>1
  <2>2. PICK d \in RunType :
          /\ job' = [job EXCEPT ![p] = Off] /\ run' = [run EXCEPT ![r] = d]
          /\ d.at = "ended" /\ d.record = run[r].record
          /\ UNCHANGED <<input, output, loose, passed, fits, wrote, disturbed>>
    <3>1. [at |-> "ended", record |-> run[r].record] \in RunType
      BY <2>1 DEF RunType, Begun
    <3>. QED  BY <1>8, <2>1, <3>1 DEF Unmark, Give, Reach
  <2>3. /\ \A q \in Procs \ {p} : job[q].step \in Running => job[q].run \in Runs \ {r}
        /\ run[r].at = "recorded"
    <3>1. run[r].at = "recorded"
      BY <2>0, <2>1 DEF Place
    <3>2. \A q \in Procs \ {p} : job[q].step \in Running => job[q].run # job[p].run
      BY <2>0 DEF RInv, DirectoryInv
    <3>. QED  BY <1>0, <2>1, <3>1, <3>2, JobIs DEF Running
  <2>4. TypeOK'
    BY <1>0, <2>1, <2>2, JobsAre DEF RInv, TypeOK, LcInv
  <2>5. DirectoryInv'
    BY <1>0, <2>1, <2>2, <2>3 DEF RInv, DirectoryInv, Off, Running
  <2>6. OutputInv'
    BY <1>0, <2>1, <2>2, <2>3 DEF RInv, OutputInv
  <2>7. SeenInv'
    BY <1>0, <2>1, <2>2, <2>3 DEF RInv, SeenInv, Knows, ReadInv, FinalInv, Off, Running
  <2>8. ReviewInv'
    BY <1>0, <2>1, <2>2, <2>3 DEF RInv, ReviewInv, Ended, Good, Off, Reviewing
  <2>. QED  BY <2>4, <2>5, <2>6, <2>7, <2>8 DEF RInv
(* An output is there from now on that disturbs every other run under way. *)
<1>9. ASSUME NEW r \in Runs, Produce(r) PROVE RInv'
  <2>1. /\ output' \in Results /\ output'.by = r
        /\ r \in loose \/ \E p \in Procs : job[p].step = "running" /\ job[p].run = r
        /\ wrote' = wrote \cup {r} /\ loose' = loose \ {r}
        /\ disturbed' = disturbed \cup {q \in Runs \ {r} : run[q].at \in Begun}
        /\ UNCHANGED <<input, run, job, passed, fits>>
    BY <1>9 DEF Produce, Results
  <2>2. run[r].at # "unused"
    BY <2>1, <1>1 DEF RInv, OutputInv, Running
  <2>3. /\ \A q \in Procs : job[q].step \in {"collect", "record", "unmark"} /\ job[q].seen.exit = 0 =>
             job[q].run # r
        /\ run[r].at \in {"recorded", "ended"} => run[r].record.exit # 0
    BY <2>1, <1>1 DEF RInv, DirectoryInv, Place, SeenInv, Knows, FinalInv, Running
  <2>4. TypeOK'
    BY <1>0, <2>1 DEF RInv, TypeOK, LcInv
  <2>5. DirectoryInv'
    BY <2>1 DEF RInv, DirectoryInv
  <2>6. OutputInv'
    BY <1>0, <2>1, <2>2 DEF RInv, OutputInv, RunType
  <2>7. SeenInv'
    <3>1. ASSUME NEW q \in Procs, job[q].step \in Running
          PROVE  Knows(job[q].step, job[q].run, job[q].seen)'
      BY <1>0, <1>1, <2>1, <2>3, <3>1 DEF RInv, SeenInv, Knows, ReadInv, FinalInv, Running, RunType
    <3>2. ASSUME NEW x \in Runs, run[x].at \in {"recorded", "ended"}
          PROVE  /\ run[x].record.exit = 0 => ReadInv(x, run[x].record)'
                 /\ FinalInv(x, run[x].record)'
      BY <1>0, <2>1, <2>3, <3>2 DEF RInv, SeenInv, ReadInv, FinalInv, Begun
    <3>. QED  BY <2>1, <3>1, <3>2 DEF RInv, SeenInv
  <2>8. ReviewInv'
    BY <1>0, <2>1 DEF RInv, ReviewInv, Ended, Good
  <2>. QED  BY <2>4, <2>5, <2>6, <2>7, <2>8 DEF RInv
<1>10. ASSUME EditInput PROVE RInv'
  <2>1. /\ input' = input + 1 /\ input' \in Inputs
        /\ UNCHANGED <<output, run, loose, job, passed, fits, wrote, disturbed>>
    BY <1>10, RunAssumption DEF EditInput, Inputs, RInv, TypeOK
  <2>2. TypeOK' /\ DirectoryInv' /\ OutputInv' /\ ReviewInv'
    BY <2>1 DEF RInv, TypeOK, LcInv, DirectoryInv, OutputInv, ReviewInv, Ended, Good
  <2>3. \A f \in Observations : f.inputs \in Nat
    BY RunAssumption DEF Observations, Inputs
  <2>4. SeenInv'
    BY <1>0, <1>1, <2>1, <2>3 DEF RInv, SeenInv, Knows, ReadInv, FinalInv
  <2>. QED  BY <2>2, <2>4 DEF RInv
(* A review goes on, or reports a failure.                                 *)
<1>11. ASSUME NEW p \in Procs, NEW r \in Runs, NEW j \in Jobs, Give(p, j), Under, UNCHANGED passed,
              \/ j.step = "report" /\ j.verdict = "fail"
              \/ j.run = r /\ j.step \in Reviewing \cup {"report"} /\ Ended(r)
                   /\ (j.step # "inputs" => r \in fits)
                   /\ (j.step \in {"plugins", "report"} => Good(r))
       PROVE  RInv'
  BY <1>0, <1>11, JobStep DEF Under, Running, Reviewing
<1>12. ASSUME NEW p \in Procs, job[p].step \in Reviewing
       PROVE  /\ job[p].run \in Runs
              /\ [step |-> "report", run |-> job[p].run, verdict |-> "fail"] \in Jobs
              /\ \A step \in Reviewing : [step |-> step, run |-> job[p].run] \in Jobs
              /\ Ended(job[p].run)
  BY <1>0, <1>12, JobIs, JobsAre DEF Reviewing, RInv, ReviewInv
<1>13. ASSUME NEW p \in Procs, Review(p) PROVE RInv'
  <2>1. PICK r \in Runs :
          Give(p, IF RecordPasses(run[r])
                    THEN [step |-> "inputs", run |-> r]
                    ELSE [step |-> "report", run |-> r, verdict |-> "fail"])
    BY <1>13 DEF Review
  <2>2. /\ [step |-> "inputs", run |-> r] \in Jobs
        /\ [step |-> "report", run |-> r, verdict |-> "fail"] \in Jobs
    BY JobsAre DEF Reviewing
  <2>3. RecordPasses(run[r]) => Ended(r)
    BY DEF RecordPasses, Succeeded, Ended
  <2>. QED  BY <1>11, <1>13, <2>1, <2>2, <2>3 DEF Review, Reviewing
<1>14. ASSUME NEW p \in Procs, ReviewInputs(p) PROVE RInv'
  <2>1. job[p].step = "inputs" /\ job[p].step \in Reviewing
    BY <1>14 DEF ReviewInputs, Reviewing
  (* The input is the recorded one, so it was that when the command read it. *)
  <2>2. input = run[job[p].run].record.inputs => job[p].run \in fits
    <3>1. ReadInv(job[p].run, run[job[p].run].record)
      BY <1>12, <2>1 DEF Ended, RInv, SeenInv
    <3>. QED  BY <1>0, <3>1 DEF ReadInv
  <2>. QED
    BY <1>11, <1>12, <1>14, <2>1, <2>2 DEF ReviewInputs, Judge, Failed, Observed, Reviewing
<1>15. ASSUME NEW p \in Procs, ReviewArtifacts(p) PROVE RInv'
  <2>1. job[p].step = "artifacts" /\ job[p].step \in Reviewing /\ job[p].run \in fits
    BY <1>15 DEF ReviewArtifacts, Reviewing, RInv, ReviewInv
  <2>. QED
    BY <1>11, <1>12, <1>15, <2>1 DEF ReviewArtifacts, Judge, Failed, Reviewing
<1>16. ASSUME NEW p \in Procs, ReviewAcceptance(p) PROVE RInv'
  <2>1. job[p].step = "acceptance" /\ job[p].step \in Reviewing /\ job[p].run \in fits
    BY <1>16 DEF ReviewAcceptance, Reviewing, RInv, ReviewInv
  (* Where no other command wrote it, the output is what was recorded.      *)
  <2>2. ~MissesCriteria(output) => Good(job[p].run)
    BY <1>12, <2>1 DEF Ended, Good, RInv, SeenInv, FinalInv
  <2>. QED
    BY <1>11, <1>12, <1>16, <2>1, <2>2 DEF ReviewAcceptance, Judge, Failed, Reviewing
<1>17. ASSUME NEW p \in Procs, ReviewPlugins(p) PROVE RInv'
  <2>1. /\ job[p].step = "plugins" /\ job[p].step \in Reviewing
        /\ Good(job[p].run) /\ job[p].run \in fits
    BY <1>17 DEF ReviewPlugins, Reviewing, RInv, ReviewInv, Good
  <2>2. [step |-> "report", run |-> job[p].run, verdict |-> "pass"] \in Jobs
    BY <1>12, <2>1, JobsAre
  <2>. QED
    BY <1>11, <1>12, <1>17, <2>1, <2>2 DEF ReviewPlugins, Failed, Reviewing
<1>18. ASSUME NEW p \in Procs, WriteReport(p) PROVE RInv'
  <2>1. /\ job[p].step = "report" /\ job[p].run \in Runs /\ Give(p, Off)
        /\ Off \in Jobs /\ Off.step = "off"
        /\ job[p].verdict = "pass" => Good(job[p].run)
    BY <1>0, <1>18, JobIs, JobsAre DEF WriteReport, RInv, ReviewInv, Off
  <2>2. passed' \subseteq Runs /\ \A r \in passed' : Good(r)
    BY <1>0, <1>18, <2>1 DEF WriteReport
  <2>. QED  BY <1>18, <2>1, <2>2, JobStep DEF WriteReport, Under, Running, Reviewing
<1>19. ASSUME NEW p \in Procs, Die(p) PROVE RInv'
  <2>1. Off \in Jobs /\ Off.step = "off"
    BY JobsAre DEF Off
  <2>. QED  BY <1>0, <1>19, <2>1, JobStep DEF Die, Running, Reviewing
<1>. QED
  BY <1>2, <1>3, <1>4, <1>5, <1>6, <1>7, <1>8, <1>9, <1>10, <1>13, <1>14, <1>15, <1>16, <1>17,
     <1>18, <1>19 DEF RunNext

LEMMA RInvStep == RInv /\ [Next]_vars => RInv'
<1> SUFFICES ASSUME RInv, [Next]_vars PROVE RInv'
  OBVIOUS
<1>1. LcInv'
  BY StepIsTransition, LcInvStep DEF RInv
<1>2. CASE RunNext
  BY <1>1, <1>2, RunStep
<1>3. CASE UNCHANGED runVars
  BY <1>1, <1>3 DEF runVars, RInv, TypeOK, LcInv, DirectoryInv, OutputInv, SeenInv, Knows,
                    ReadInv, FinalInv, ReviewInv, Ended, Good
<1>. QED  BY <1>2, <1>3 DEF Next, vars

LEMMA RInvariant == Spec => []RInv
<1>. QED  BY RInvInit, RInvStep, PTL DEF Spec

(* Every variable keeps its type.                                          *)
THEOREM RunTypeCorrect == Spec => []TypeOK
<1>1. RInv => TypeOK
  BY DEF RInv
<1>. QED  BY <1>1, RInvariant, PTL

(* An answered transition stands, whatever runs and reviews are under way.  *)
THEOREM RunTransitionStands == Spec => []AnsweredStands
<1>1. RInv => AnsweredStands
  BY LcInvMeans DEF RInv
<1>. QED  BY <1>1, RInvariant, PTL

LEMMA RInvMeans == RInv => PassedRunIsWhole
<1> SUFFICES ASSUME RInv, NEW r \in passed
             PROVE  /\ run[r].at = "ended" /\ run[r].record.exit = 0
                    /\ r \in fits
                    /\ r \notin disturbed =>
                         /\ ~MissesCriteria(run[r].record.artifact)
                         /\ r \in wrote => run[r].record.artifact.by = r
  BY DEF PassedRunIsWhole
<1>1. r \in Runs /\ Good(r)
  BY DEF RInv, TypeOK, ReviewInv
<1>2. r \notin disturbed => run[r].record.artifact = output
  BY <1>1 DEF RInv, SeenInv, FinalInv, Good, Ended
<1>3. r \in wrote \ disturbed => output.by = r
  BY <1>1 DEF RInv, OutputInv
<1>. QED  BY <1>1, <1>2, <1>3 DEF Good, Ended

(* A passing review is of a run that ended well, on the input it recorded,  *)
(* and of its own output unless another command wrote beside it.           *)
THEOREM PassMeansWhole == Spec => []PassedRunIsWhole
<1>. QED  BY RInvMeans, RInvariant, PTL
=============================================================================
