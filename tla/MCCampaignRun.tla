---------------------------- MODULE MCCampaignRun ----------------------------
(* StatusBoard for every graph of three tasks, with cycles and a stray       *)
(* dependency, that may write a directory, a path below it, and another one. *)
EXTENDS StatusBoard, TLC

CONSTANTS t1, t2, t3, stray

Directory == <<"a">>
Inner == <<"a", "b">>
Elsewhere == <<"c">>

(* All in one directory, or one here, one below it, and one elsewhere.     *)
Scopes ==
  {[t \in Tasks |-> {Directory}]}
    \cup {[t \in Tasks |-> {s[t]}] : s \in {f \in [Tasks -> {Directory, Inner, Elsewhere}] :
                                                \A p, q \in Tasks : f[p] = f[q] => p = q}}

AllCampaigns ==
  [deps : [Tasks -> SUBSET Tasks] \cup [Tasks -> {{}, {stray}}],
   scope : Scopes,
   status : {[t \in Tasks |-> "pending"]}]

(* A chain whose first task was done, or had failed, before the campaign    *)
(* began.                                                                  *)
Chains ==
  {[deps |-> [t \in Tasks |-> IF t = x THEN {} ELSE IF t = y THEN {x} ELSE {y}],
    scope |-> [t \in Tasks |-> {Directory}],
    status |-> [t \in Tasks |-> IF t = x THEN s ELSE "pending"]] :
     s \in {"complete", "failed"}, <<x, y>> \in {p \in Tasks \X Tasks : p[1] # p[2]}}

MCCampaigns == AllCampaigns \cup Chains

NoHazards == {}

MCSymmetry == Permutations(Tasks)
=============================================================================
