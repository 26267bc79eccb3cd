----------------------------- MODULE ExperimentRun -----------------------------
(***************************************************************************)
(* science_repo/runner.py, review.py, review_plugins.py and lineage.py: the *)
(* commands `science run` and `science review` on one experiment, beside    *)
(* `science transition`.  A run keeps its record in a directory of its own, *)
(* but its command reads and writes the experiment's files, which everyone *)
(* shares and anyone may edit; a review compares the record with the files  *)
(* there are by then.                                                      *)
(*                                                                          *)
(* Runs, reviews and transitions interleave, and a runner may die at every *)
(* step, with or without its command.                                      *)
(***************************************************************************)
EXTENDS Lifecycle, FiniteSets

CONSTANTS Runs,      \* run ids; a run gets one that was never used
          None,      \* no file, no record
          Plugins,   \* the ids of the registered review plugins
          HasSchema, \* the project has schemas/lineage.schema.json
          Criteria,  \* the manifest has acceptance criteria
          MaxInput,  \* bound: the last version of the input file
          Budget     \* bound: how many transitions are started, a run being two

ASSUME RunAssumption == None \notin Runs /\ HasSchema \in BOOLEAN /\ Criteria \in BOOLEAN
                          /\ MaxInput \in Nat /\ Budget \in Nat

VARIABLES input,      \* the version of the declared input file, 0: missing
          output,     \* the declared output file, artifacts/results.json
          run,        \* per run: its directory
          loose,      \* runs whose command goes on without a runner
          job,        \* what each process does: a run or a review
          passed,     \* the runs whose review.json says "pass"
          fits,       \* history: runs whose command read what is recorded
          wrote,      \* history: runs whose command wrote the output
          disturbed   \* history: runs that another's command wrote beside

runVars == <<input, output, run, loose, job, passed, fits, wrote, disturbed>>
vars == <<stage, history, tail, move, moves, answered, runVars>>

-----------------------------------------------------------------------------
Inputs == 0..MaxInput

(* What is at artifacts/results.json: an object that meets the criteria,    *)
(* one that misses one of them (or no JSON), or something they are not      *)
(* applied to, JSON that is no object or a directory; and, which nobody    *)
(* can see, whose it is.                                                   *)
Contents == {"meets", "misses", "other"}

Results == [content : Contents, by : Runs \cup {None}]

Digest(o) == IF o = None THEN None ELSE o.content

(* What a run has observed; it is in memory until it is written as a whole  *)
(* into run.json.                                                          *)
Observations == [inputs : Inputs, exit : {0, 1}, artifact : Results \cup {None}]

Observation(inputs, exit, artifact) ==
  [inputs |-> inputs, exit |-> exit, artifact |-> artifact]

(* The directory: unused, made, with the in-progress marker, with the       *)
(* record beside the marker, without the marker.                           *)
Begun == {"made", "marked", "recorded", "ended"}

RunType == [at : {"unused"} \cup Begun, record : Observations \cup {None}]

Off == [step |-> "off"]

Jobs == {Off} \cup [step : {"freeze", "start", "running", "collect", "record", "unmark"},
                    run : Runs, seen : Observations]
             \cup [step : {"inputs", "artifacts", "acceptance", "plugins"}, run : Runs]
             \cup [step : {"report"}, run : Runs, verdict : {"pass", "fail"}]

RunInit == /\ input = 0
           /\ output \in [content : Contents, by : {None}] \cup {None}
           /\ run = [r \in Runs |-> [at |-> "unused", record |-> None]]
           /\ loose = {}
           /\ job = [p \in Procs |-> Off]
           /\ passed = {}
           /\ fits = {} /\ wrote = {} /\ disturbed = {}

Init == LcInit /\ RunInit

-----------------------------------------------------------------------------
Give(p, j) == job' = [job EXCEPT ![p] = j]

(* A run goes on, with what it has observed by now.                        *)
Observe(p, seen, step) == Give(p, [step |-> step, run |-> job[p].run, seen |-> seen])

Reach(p, at, record) == run' = [run EXCEPT ![job[p].run] = [at |-> at, record |-> record]]

Within(cost) == moves + 2 * Cardinality({r \in Runs : run[r].at \in Begun}) + cost <= Budget

(* The manifest is loaded, the run's directory made, and the manifest and   *)
(* the environment copied into it.                                         *)
Load(p) ==
  /\ job[p] = Off /\ move[p] = Rest /\ Within(2)
  /\ \E r \in Runs :
       /\ run[r].at = "unused"
       /\ run' = [run EXCEPT ![r] = [at |-> "made", record |-> None]]
       /\ Give(p, [step |-> "freeze", run |-> r, seen |-> Observation(0, 1, None)])
  /\ UNCHANGED <<input, output, loose, passed, fits, wrote, disturbed>>

(* The inputs are digested before the command starts, then the marker set.  *)
Freeze(p) ==
  /\ job[p].step = "freeze"
  /\ Observe(p, Observation(input, 1, None), "start")
  /\ Reach(p, "marked", None)
  /\ UNCHANGED <<input, output, loose, passed, fits, wrote, disturbed>>

(* The command starts, and reads its input; or it cannot be started.       *)
Start(p) ==
  /\ job[p].step = "start"
  /\ \/ /\ Observe(p, job[p].seen, "running")
        /\ fits' = fits \cup {r \in {job[p].run} : input = job[p].seen.inputs}
     \/ Observe(p, job[p].seen, "collect") /\ UNCHANGED fits
  /\ UNCHANGED <<input, output, run, loose, passed, wrote, disturbed>>

(* A command writes the output.                                            *)
Produce(r) ==
  /\ r \in loose \/ \E p \in Procs : job[p].step = "running" /\ job[p].run = r
  /\ r \notin wrote
  /\ \E content \in Contents : output' = [content |-> content, by |-> r]
  /\ wrote' = wrote \cup {r}
  /\ loose' = loose \ {r}
  /\ disturbed' = disturbed \cup {q \in Runs \ {r} : run[q].at \in Begun}
  /\ UNCHANGED <<input, run, job, passed, fits>>

(* The command ends by itself, well or badly; or the timeout kills it, or   *)
(* where that fails its parent only.                                       *)
Survives(p) == loose' = loose \cup ({job[p].run} \ wrote)

Exit(p) ==
  /\ job[p].step = "running"
  /\ \E code \in {0, 1} :
       /\ Observe(p, Observation(job[p].seen.inputs, code, None), "collect")
       /\ UNCHANGED loose \/ (code = 1 /\ Survives(p))
  /\ UNCHANGED <<input, output, run, passed, fits, wrote, disturbed>>

(* The output is digested, whoever wrote it.                               *)
Collect(p) ==
  /\ job[p].step = "collect"
  /\ Observe(p, Observation(job[p].seen.inputs, job[p].seen.exit, output), "record")
  /\ UNCHANGED <<input, output, run, loose, passed, fits, wrote, disturbed>>

(* lineage.json, then run.json.                                            *)
Record(p) ==
  /\ job[p].step = "record"
  /\ Reach(p, "recorded", job[p].seen)
  /\ Observe(p, job[p].seen, "unmark")
  /\ UNCHANGED <<input, output, loose, passed, fits, wrote, disturbed>>

Unmark(p) ==
  /\ job[p].step = "unmark"
  /\ Reach(p, "ended", run[job[p].run].record)
  /\ Give(p, Off)
  /\ UNCHANGED <<input, output, loose, passed, fits, wrote, disturbed>>

-----------------------------------------------------------------------------
Succeeded(f) == f.exit = 0 /\ f.inputs # 0 /\ f.artifact # None

(* _run_lineage: entities only for what is there, and how they relate.      *)
Entities(f) == {"run", "manifest", "command"} \cup {e \in {"input"} : f.inputs # 0}
                                              \cup {e \in {"output"} : f.artifact # None}

Relations(f) == {<<"run", "manifest">>, <<"run", "command">>, <<"run", "input">>, <<"output", "run">>}
                  \cap (Entities(f) \X Entities(f))

(* validate_lineage: both ends of a relation are entities, none relates to  *)
(* itself, and every set of entities has a first one: it is a DAG.          *)
ValidLineage(E, R) ==
  /\ \A e \in R : e[1] \in E /\ e[2] \in E /\ e[1] # e[2]
  /\ \A S \in SUBSET E \ {{}} : \E n \in S : \A m \in S : <<m, n>> \notin R

(* Mutant: the marker of an unfinished run is not looked for.              *)
RecordedPasses(d) ==
  /\ d.at \in {"recorded", "ended"} /\ Succeeded(d.record)
  /\ HasSchema /\ ValidLineage(Entities(d.record), Relations(d.record))

(* review_run, from the record to the environment snapshot.                *)
RecordPasses(d) ==
  /\ d.at = "ended" /\ Succeeded(d.record)
  /\ HasSchema /\ ValidLineage(Entities(d.record), Relations(d.record))

Under == UNCHANGED <<input, output, run, loose, fits, wrote, disturbed>>

Failed(p) == Give(p, [step |-> "report", run |-> job[p].run, verdict |-> "fail"])

(* After a check has failed the others change nothing.                     *)
Judge(p, ok, step) == Under /\ UNCHANGED passed
                      /\ IF ok THEN Give(p, [step |-> step, run |-> job[p].run]) ELSE Failed(p)

(* Any run's directory may be reviewed, from when it is there.             *)
Review(p) ==
  /\ job[p] = Off /\ move[p] = Rest
  /\ \E r \in Runs :
       /\ run[r].at \in Begun
       /\ Give(p, IF RecordPasses(run[r])
                     THEN [step |-> "inputs", run |-> r]
                     ELSE [step |-> "report", run |-> r, verdict |-> "fail"])
  /\ Under /\ UNCHANGED passed

Observed(p) == run[job[p].run].record

ReviewInputs(p) == /\ job[p].step = "inputs"
                   /\ Judge(p, input = Observed(p).inputs, "artifacts")

ReviewArtifacts(p) == /\ job[p].step = "artifacts"
                      /\ Judge(p, Digest(output) = Digest(Observed(p).artifact), "acceptance")

(* The criteria are applied to the results there are by now.  Where there   *)
(* are none, or nothing to apply them to, no check is added, not a failing  *)
(* one.                                                                    *)
MissesCriteria(o) == Criteria /\ o # None /\ o.content = "misses"

ReviewAcceptance(p) == /\ job[p].step = "acceptance"
                       /\ Judge(p, ~MissesCriteria(output), "plugins")

(* ReviewPluginRegistry.run: whatever a plugin does but return well-formed  *)
(* checks that all pass, an exception included, counts as a failed check.   *)
Said == {"pass", "fail", "unknown", "error"}

ReviewPlugins(p) ==
  /\ job[p].step = "plugins"
  /\ \E said \in [Plugins -> Said] :
       IF \A g \in Plugins : said[g] = "pass"
       THEN Give(p, [step |-> "report", run |-> job[p].run, verdict |-> "pass"])
       ELSE Failed(p)
  /\ Under /\ UNCHANGED passed

WriteReport(p) ==
  /\ job[p].step = "report"
  /\ passed' = IF job[p].verdict = "pass" THEN passed \cup {job[p].run} ELSE passed \ {job[p].run}
  /\ Give(p, Off)
  /\ Under

(* A runner dies with or without its command, or cannot write a file; a    *)
(* review dies.                                                            *)
Die(p) ==
  /\ job[p] # Off
  /\ Give(p, Off)
  /\ UNCHANGED loose \/ (job[p].step = "running" /\ Survives(p))
  /\ UNCHANGED <<input, output, run, passed, fits, wrote, disturbed>>

(* Somebody, or a command, changes the input; no version comes back.       *)
EditInput == /\ input < MaxInput /\ input' = input + 1
             /\ UNCHANGED <<output, run, loose, job, passed, fits, wrote, disturbed>>

RunNext ==
  \/ \E p \in Procs : \/ Load(p) \/ Freeze(p) \/ Start(p) \/ Exit(p)
                      \/ Collect(p) \/ Record(p) \/ Unmark(p)
                      \/ Review(p) \/ ReviewInputs(p) \/ ReviewArtifacts(p)
                      \/ ReviewAcceptance(p) \/ ReviewPlugins(p) \/ WriteReport(p)
                      \/ Die(p)
  \/ \E r \in Runs : Produce(r)
  \/ EditInput

Next == \/ RunNext /\ UNCHANGED lcVars
        \/ /\ \E p \in Procs : /\ job[p] = Off
                               /\ move[p] = Rest => Within(1)
                               /\ Transition(p)
           /\ UNCHANGED runVars

Spec == Init /\ [][Next]_vars

-----------------------------------------------------------------------------
TypeOK == /\ LcTypeOK
          /\ input \in Inputs
          /\ output \in Results \cup {None}
          /\ run \in [Runs -> RunType]
          /\ job \in [Procs -> Jobs]
          /\ \A s \in {loose, passed, fits, wrote, disturbed} : s \subseteq Runs

(* A review says "pass" only of a run that came to its end, whose command   *)
(* succeeded and had read the very input that is recorded; and, if no       *)
(* other command wrote the shared output since the run began, no criterion  *)
(* finds the recorded artifact wanting, and it is the run's own if its      *)
(* command wrote one (runner.py lines 279-325, review.py lines 106-197).    *)
(* That a criterion was applied at all is not said: results that are no     *)
(* object pass without (lines 184-187).                                    *)
PassedRunIsWhole ==
  \A r \in passed :
    /\ run[r].at = "ended" /\ run[r].record.exit = 0
    /\ r \in fits
    /\ r \notin disturbed =>
         /\ ~MissesCriteria(run[r].record.artifact)
         /\ r \in wrote => run[r].record.artifact.by = r
=============================================================================
