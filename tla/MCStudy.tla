------------------------------- MODULE MCStudy -------------------------------
(* Study on a small instance: one fixture, so two cells in two waves.       *)
EXTENDS Study, TLC

CONSTANTS a1, a2, s1, s2, s3, o1, o2

MCOrder == [cohort |-> <<<<"f", "control">>, <<"f", "treatment">>>>,
            study |-> <<<<"f", "treatment">>, <<"f", "control">>>>]

End(stop, critical, censored, elapsed, evidence) ==
  [stop |-> stop, critical |-> critical, censored |-> censored, elapsed |-> elapsed,
   evidence |-> evidence]

(* Done, in breach, broken off before the task, and contradicting itself.   *)
MCEnds ==
  {End("completed", FALSE, FALSE, 1, {"setup", "task"}),
   End("critical-violation", TRUE, FALSE, 1, {"setup", "task"}),
   End("explicit-block", FALSE, TRUE, None, {"setup"}),
   End("timeout", FALSE, FALSE, 1, {"setup", "task"})}

Scoring(by, committed, guessed, resolved, revealed, total, arm) ==
  [scorers |-> <<by[1], by[2]>>, committed |-> committed, guessed |-> guessed,
   adjudicator |-> by[3], resolved |-> resolved, revealed |-> revealed, total |-> total,
   arm |-> arm]

(* As the code has it, one for each arm; and a guess in the second of its    *)
(* commit, an adjudication before the slower scorer, one before both, a      *)
(* reveal at once, an adjudicator who scored, and one person's two scores.  *)
MCRecords ==
  {Scoring(<<s1, s2, s3>>, <<1, 1>>, <<2, 2>>, 3, 4, 0, "control"),
   Scoring(<<s1, s2, s3>>, <<1, 3>>, <<2, 4>>, 5, 6, 1, "treatment"),
   Scoring(<<s1, s2, s3>>, <<2, 1>>, <<2, 2>>, 3, 4, 1, "control"),
   Scoring(<<s1, s2, s3>>, <<1, 5>>, <<2, 6>>, 3, 4, 1, "control"),
   Scoring(<<s1, s2, s3>>, <<2, 2>>, <<3, 3>>, 1, 4, 1, "treatment"),
   Scoring(<<s1, s2, s3>>, <<1, 1>>, <<2, 2>>, 3, 3, 1, "treatment"),
   Scoring(<<s1, s2, s1>>, <<1, 1>>, <<2, 2>>, 3, 4, 1, "control"),
   Scoring(<<s1, s1, s3>>, <<1, 1>>, <<2, 2>>, 3, 4, 1, "control")}

MCSymmetry == Permutations({a1, a2}) \cup Permutations({o1, o2})
=============================================================================
