------------------------------- MODULE Campaign -------------------------------
(***************************************************************************)
(* science_repo/campaign.py: validate_campaign, as two searches through    *)
(* the dependencies.  A campaign maps each of its tasks to what it depends *)
(* on, to the paths it may write and to its status in the manifest; a path *)
(* is the sequence of its parts, as _normalize_write_scope leaves it.      *)
(***************************************************************************)
EXTENDS SequencesExt

TasksOf(campaign) == DOMAIN campaign.deps

(* Mutant: only a path itself collides with it. *)
PathsEqual(left, right) == left = right

(* One path is the other, or lies below it. *)
PathsOverlap(left, right) == IsPrefix(left, right) \/ IsPrefix(right, left)

ScopesOverlap(campaign, s, t) ==
  \E left \in campaign.scope[s], right \in campaign.scope[t] : PathsOverlap(left, right)

KnownDependencies(campaign) ==
  \A t \in TasksOf(campaign) : campaign.deps[t] \subseteq TasksOf(campaign)

(* visit, for one task of a set after another: a depth-first search that    *)
(* finds a task it is in the middle of.                                    *)
HasCycle(campaign) ==
  LET tasks == TasksOf(campaign)
      search == [visiting : SUBSET tasks, visited : SUBSET tasks, cycle : BOOLEAN]
      visit[ns \in SUBSET tasks] == [s \in search |->
        IF ns = {} THEN s
        ELSE LET n == CHOOSE n \in ns : TRUE
                 before == visit[ns \ {n}][s]
                 below == visit[campaign.deps[n] \cap tasks][[before EXCEPT !.visiting = @ \cup {n}]]
             IN  IF n \in before.visiting THEN [before EXCEPT !.cycle = TRUE]
                 ELSE IF n \in before.visited THEN before
                 ELSE [below EXCEPT !.visiting = @ \ {n}, !.visited = @ \cup {n}]]
  IN  visit[tasks][[visiting |-> {}, visited |-> {}, cycle |-> FALSE]].cycle

(* Mutant: only a dependency that is declared itself orders two tasks. *)
DependsDirectly(campaign, t, goal) == t = goal \/ goal \in campaign.deps[t]

(* depends_on, for one task of a set after another: a search that shares    *)
(* what it has seen among all branches and stops when the goal is found.   *)
DependsOn(campaign, t, goal) ==
  LET tasks == TasksOf(campaign)
      search == [seen : SUBSET tasks, found : BOOLEAN]
      look[ns \in SUBSET tasks] == [s \in search |->
        IF ns = {} THEN s
        ELSE LET n == CHOOSE n \in ns : TRUE
                 before == look[ns \ {n}][s]
             IN  IF before.found \/ n = goal THEN [before EXCEPT !.found = TRUE]
                 ELSE IF n \in before.seen THEN before
                 ELSE look[campaign.deps[n] \cap tasks][[before EXCEPT !.seen = @ \cup {n}]]]
  IN  look[{t}][[seen |-> {}, found |-> FALSE]].found

(* Unordered tasks may be dispatched together: their scopes are disjoint.  *)
DisjointScopes(campaign) ==
  \A s, t \in TasksOf(campaign) :
     \/ s = t
     \/ DependsOn(campaign, s, t) \/ DependsOn(campaign, t, s)
     \/ ~ScopesOverlap(campaign, s, t)

IsValid(campaign) ==
  /\ KnownDependencies(campaign)
  /\ \A t \in TasksOf(campaign) : campaign.scope[t] # {}
  /\ ~HasCycle(campaign)
  /\ DisjointScopes(campaign)
=============================================================================
