--------------------------- MODULE CampaignRunProofs ---------------------------
(***************************************************************************)
(* What a campaign keeps, for every set of tasks and every graph of them:   *)
(* validation tells right, the schedule is what it is defined to be, and    *)
(* claims, expiries, releases and acceptances under any schedule keep those *)
(* apart that may write the same path and build on nothing that is taken up *)
(* again.                                                                  *)
(***************************************************************************)
EXTENDS StatusBoard, WellFoundedInduction, FiniteSetTheorems, TLAPS

-----------------------------------------------------------------------------
(* Induction, as minimal counterexamples.                                   *)
LEMMA SmallestSet ==
  ASSUME NEW S, IsFiniteSet(S), NEW F \in SUBSET SUBSET S, F # {}
  PROVE  \E A \in F : \A B \in F : B \subseteq A => B = A
<1>1. F \subseteq FiniteSubsetsOf(S)
  BY FS_FiniteSubsetsOfFinite
<1>2. IsWellFoundedOn(StrictSubsetOrdering(S), FiniteSubsetsOf(S))
  BY FS_StrictSubsetOrderingWellFounded
<1>3. \E A \in F : \A B \in F : <<B, A>> \notin StrictSubsetOrdering(S)
  BY <1>1, <1>2, WFMin
<1>. QED  BY <1>3 DEF StrictSubsetOrdering

LEMMA LeastNumber ==
  ASSUME NEW T \in SUBSET Nat, T # {}
  PROVE  \E x \in T : \A y \in T : x <= y
<1>1. PICK n \in T : TRUE
  OBVIOUS
<1> DEFINE F == {0..m : m \in {k \in T : k <= n}}
<1>2. IsFiniteSet(0..n)
  BY FS_Interval
<1>3. F \in SUBSET SUBSET (0..n)
  <2>1. \A m \in {k \in T : k <= n} : 0..m \subseteq 0..n
    OBVIOUS
  <2>. QED  BY <2>1
<1>4. F # {}
  BY <1>1
<1>5. PICK A \in F : \A B \in F : B \subseteq A => B = A
  <2> DEFINE D == 0..n
  <2>1. IsFiniteSet(D) /\ F \in SUBSET SUBSET D
    BY <1>2, <1>3
  <2> HIDE DEF F, D
  <2>. QED  BY <2>1, <1>4, SmallestSet
<1>6. PICK x \in {k \in T : k <= n} : A = 0..x
  OBVIOUS
<1>7. ASSUME NEW y \in T, y < x PROVE FALSE
  <2>1. 0..y \in F /\ 0..y \subseteq 0..x /\ x \in 0..x /\ x \notin 0..y
    BY <1>6, <1>7
  <2>. QED  BY <1>5, <1>6, <2>1
<1>. QED  BY <1>6, <1>7

-----------------------------------------------------------------------------
(* What a task depends on.                                                  *)
LEMMA BelowHas ==
  ASSUME NEW tasks, NEW deps, NEW t \in tasks, NEW d \in tasks, d \in deps[t]
  PROVE  d \in Below(tasks, deps, t) /\ Below(tasks, deps, d) \subseteq Below(tasks, deps, t)
<1>1. \A S \in SUBSET tasks : (\A x \in S \cup {t} : deps[x] \cap tasks \subseteq S) => d \in S
  OBVIOUS
<1>2. ASSUME NEW e \in Below(tasks, deps, d), NEW S \in SUBSET tasks,
             \A x \in S \cup {t} : deps[x] \cap tasks \subseteq S
      PROVE  e \in S
  BY <1>1, <1>2 DEF Below
<1>. QED  BY <1>1, <1>2 DEF Below

(* A set that has the dependencies of a task, and those of its members, has  *)
(* all that the task depends on.                                           *)
LEMMA BelowWithin ==
  ASSUME NEW tasks, NEW deps, NEW t, NEW S \in SUBSET tasks,
         \A x \in S \cup {t} : deps[x] \cap tasks \subseteq S
  PROVE  Below(tasks, deps, t) \subseteq S
BY DEF Below

LEMMA BelowTransitive ==
  ASSUME NEW tasks, NEW deps, NEW t, NEW d \in Below(tasks, deps, t)
  PROVE  Below(tasks, deps, d) \subseteq Below(tasks, deps, t)
<1>. SUFFICES ASSUME NEW e \in Below(tasks, deps, d), NEW S \in SUBSET tasks,
                     \A x \in S \cup {t} : deps[x] \cap tasks \subseteq S
              PROVE  e \in S
  BY DEF Below
<1>1. d \in S
  BY DEF Below
<1>. QED  BY <1>1 DEF Below

LEMMA BelowBegins ==
  ASSUME NEW tasks, NEW deps, NEW t, NEW d \in Below(tasks, deps, t)
  PROVE  \E x \in deps[t] \cap tasks : d = x \/ d \in Below(tasks, deps, x)
<1> DEFINE S == UNION {{x} \cup Below(tasks, deps, x) : x \in deps[t] \cap tasks}
<1>1. S \subseteq tasks
  BY DEF Below
<1>2. ASSUME NEW x \in S, NEW e \in deps[x] \cap tasks PROVE e \in S
  <2>1. PICK y \in deps[t] \cap tasks : x = y \/ x \in Below(tasks, deps, y)
    OBVIOUS
  <2>2. e \in Below(tasks, deps, x)
    BY <1>1, BelowHas
  <2>3. e \in Below(tasks, deps, y)
    BY <2>1, <2>2, BelowTransitive
  <2>. QED  BY <2>1, <2>3
<1>3. \A e \in deps[t] \cap tasks : e \in S
  OBVIOUS
<1>4. d \in S
  BY <1>1, <1>2, <1>3, BelowWithin
<1>. QED  BY <1>4

(* Without cycles, some task of every set depends on none of the others.    *)
LEMMA Foundation ==
  ASSUME NEW tasks, IsFiniteSet(tasks), NEW deps,
         \A t \in tasks : t \notin Below(tasks, deps, t),
         NEW T \in SUBSET tasks, T # {}
  PROVE  \E t \in T : deps[t] \cap T = {}
<1> DEFINE F == {Below(tasks, deps, t) : t \in T}
<1>1. F \in SUBSET SUBSET tasks /\ F # {}
  <2>1. \A t \in T : Below(tasks, deps, t) \subseteq tasks
    BY DEF Below
  <2>. QED  BY <2>1
<1>2. PICK A \in F : \A B \in F : B \subseteq A => B = A
  <2> HIDE DEF F
  <2>. QED  BY <1>1, SmallestSet
<1>3. PICK t \in T : A = Below(tasks, deps, t)
  BY <1>2
<1>4. ASSUME NEW d \in deps[t] \cap T PROVE FALSE
  <2>1. d \in Below(tasks, deps, t) /\ Below(tasks, deps, d) \subseteq Below(tasks, deps, t)
    BY BelowHas
  <2>2. d \notin Below(tasks, deps, d)
    OBVIOUS
  <2>. QED  BY <1>2, <1>3, <2>1, <2>2
<1>. QED  BY <1>4

-----------------------------------------------------------------------------
(* The schedule.  Its recursion is through dependencies, so that in a        *)
(* campaign without cycles it defines what it says.                        *)
Sound(c) ==
  /\ DOMAIN c.deps = Tasks
  /\ \A t \in Tasks : c.deps[t] \subseteq Tasks /\ t \notin Below(Tasks, c.deps, t)

LEMMA DecisionType == ASSUME NEW status, NEW s, NEW below PROVE Decision(status, s, below) \in Reasons
BY DEF Decision, Alone, Given, Reasons, Failed, Ready

(* What has been decided about the dependencies of a task.                  *)
Supports(D, c, t) == {D[d] : d \in c.deps[t]}

LEMMA ScheduleIs ==
  ASSUME NEW c, Sound(c), NEW snapshots
  PROVE  /\ Schedule(c, snapshots) \in [Tasks -> Reasons]
         /\ \A t \in Tasks : Schedule(c, snapshots)[t] =
              Decision(c.status[t], snapshots[t], Supports(Schedule(c, snapshots), c, t))
<1> DEFINE Step(f, t) == Decision(c.status[t], snapshots[t], {f[d] : d \in c.deps[t]})
           Solves(f, S) == f \in [S -> Reasons] /\ \A t \in S : f[t] = Step(f, t)
           Solved == {S \in SUBSET Tasks :
                        (\A t \in S : c.deps[t] \subseteq S) /\ \E f : Solves(f, S)}
           Rest == {Tasks \ S : S \in Solved}
<1>f. IsFiniteSet(Tasks)
  BY CampaignRunAssumption
<1>1. {} \in Solved
  <2>1. Solves([t \in {} |-> "completed"], {})
    OBVIOUS
  <2>. QED  BY <2>1
<1>2. PICK R \in Rest : \A B \in Rest : B \subseteq R => B = R
  <2>1. Rest \in SUBSET SUBSET Tasks /\ Rest # {}
    BY <1>1
  <2> HIDE DEF Rest
  <2>. QED  BY <1>f, <2>1, SmallestSet
<1>3. PICK S \in Solved : R = Tasks \ S
  OBVIOUS
<1>4. S = Tasks
  <2> SUFFICES ASSUME Tasks \ S # {} PROVE FALSE
    OBVIOUS
  <2>1. PICK t \in Tasks \ S : c.deps[t] \cap (Tasks \ S) = {}
    <3> DEFINE T == Tasks \ S
    <3>1. T \in SUBSET Tasks /\ T # {} /\ \A t \in Tasks : t \notin Below(Tasks, c.deps, t)
      BY DEF Sound
    <3> HIDE DEF T
    <3>2. \E t \in T : c.deps[t] \cap T = {}
      BY <1>f, <3>1, Foundation
    <3>. QED  BY <3>2 DEF T
  <2>2. c.deps[t] \subseteq S
    BY <2>1 DEF Sound
  <2>3. PICK f : Solves(f, S)
    OBVIOUS
  <2> DEFINE g == [u \in S \cup {t} |-> IF u = t THEN Step(f, t) ELSE f[u]]
  <2>4. \A u \in S \cup {t} : c.deps[u] \subseteq S
    BY <2>2
  <2>5. ASSUME NEW u \in S \cup {t} PROVE Step(g, u) = Step(f, u)
    <3>1. \A d \in c.deps[u] : g[d] = f[d]
      BY <2>4
    <3>2. {g[d] : d \in c.deps[u]} = {f[d] : d \in c.deps[u]}
      <4> HIDE DEF g
      <4>. QED  BY <3>1
    <3>. QED  BY <3>2
  <2>6. g \in [S \cup {t} -> Reasons]
    BY <2>3, DecisionType
  <2>7. \A u \in S \cup {t} : g[u] = Step(g, u)
    <3> HIDE DEF Step
    <3>. QED  BY <2>3, <2>5
  <2>8. S \cup {t} \in Solved
    BY <2>4, <2>6, <2>7
  <2>9. Tasks \ (S \cup {t}) \in Rest /\ Tasks \ (S \cup {t}) \subseteq R /\ t \in R
    BY <1>3, <2>8
  <2>. QED  BY <1>2, <2>9
<1>5. PICK f : Solves(f, Tasks)
  BY <1>4
<1>6. f = [t \in Tasks |-> Step(f, t)]
  BY <1>5
<1>7. Schedule(c, snapshots) = CHOOSE g : g = [t \in Tasks |-> Step(g, t)]
  BY DEF Schedule, Sound
<1>8. Schedule(c, snapshots) = [t \in Tasks |-> Step(Schedule(c, snapshots), t)]
  <2> HIDE DEF Step
  <2>. QED  BY <1>6, <1>7
<1>9. Schedule(c, snapshots) \in [Tasks -> Reasons]
  BY <1>8, DecisionType
<1>. QED  BY <1>8, <1>9 DEF Supports

-----------------------------------------------------------------------------
(* The searches of the validation.  Each calls itself for fewer tasks, or    *)
(* when it has entered one more: they end, and so define what they say.    *)
Rank(entered, ns) == Cardinality(Tasks \ entered) * (Cardinality(Tasks) + 1) + Cardinality(ns)

LEMMA RankOrder ==
  ASSUME NEW a \in Nat, NEW b \in Nat, NEW m \in Nat, NEW n \in Nat, NEW size \in Nat,
         m <= size, a < b
  PROVE  a * (size + 1) + m < b * (size + 1) + n
<1>1. PICK e \in Nat : b = a + 1 + e
  <2>1. b - a - 1 \in Nat /\ b = a + 1 + (b - a - 1)
    OBVIOUS
  <2>. QED  BY <2>1
<1>2. b * (size + 1) = a * (size + 1) + (size + 1) + e * (size + 1)
  BY <1>1
<1>3. e * (size + 1) >= 0 /\ a * (size + 1) \in Nat /\ e * (size + 1) \in Nat
  OBVIOUS
<1>. QED  BY <1>2, <1>3

LEMMA RankFalls ==
  ASSUME NEW U \in SUBSET Tasks, NEW V \in SUBSET Tasks, U \subseteq V,
         NEW ns \in SUBSET Tasks, NEW ms \in SUBSET Tasks,
         (U # V) \/ \E n \in ns : ms = ns \ {n}
  PROVE  Rank(U, ns) \in Nat /\ Rank(V, ms) \in Nat /\ Rank(V, ms) < Rank(U, ns)
<1>1. IsFiniteSet(Tasks)
  BY CampaignRunAssumption
<1>2. /\ IsFiniteSet(ns) /\ IsFiniteSet(ms)
      /\ IsFiniteSet(Tasks \ U) /\ IsFiniteSet(Tasks \ V)
      /\ Cardinality(ms) <= Cardinality(Tasks)
  BY <1>1, FS_Subset, FS_Difference
<1>3. /\ Cardinality(Tasks) \in Nat /\ Cardinality(ns) \in Nat /\ Cardinality(ms) \in Nat
      /\ Cardinality(Tasks \ U) \in Nat /\ Cardinality(Tasks \ V) \in Nat
  BY <1>1, <1>2, FS_CardinalityType
<1>4. CASE U # V
  <2>1. Tasks \ V \in SUBSET (Tasks \ U) /\ Tasks \ V # Tasks \ U
    BY <1>4
  <2>2. Cardinality(Tasks \ V) < Cardinality(Tasks \ U)
    BY <1>2, <1>3, <2>1, FS_Subset
  <2>. QED  BY <1>2, <1>3, <2>2, RankOrder DEF Rank
<1>5. CASE U = V
  <2>1. PICK n \in ns : ms = ns \ {n}
    BY <1>5
  <2>2. Cardinality(ms) = Cardinality(ns) - 1
    BY <1>2, <2>1, FS_RemoveElement
  <2>. QED  BY <1>3, <1>5, <2>2 DEF Rank
<1>. QED  BY <1>4, <1>5

LEMMA RankBound ==
  ASSUME NEW U \in SUBSET Tasks, NEW ns \in SUBSET Tasks
  PROVE  /\ Rank(U, ns) \in Nat
         /\ (Cardinality(Tasks) + 1) * (Cardinality(Tasks) + 1) \in Nat
         /\ Rank(U, ns) < (Cardinality(Tasks) + 1) * (Cardinality(Tasks) + 1)
<1> DEFINE size == Cardinality(Tasks)
<1>1. IsFiniteSet(Tasks)
  BY CampaignRunAssumption
<1>2. /\ IsFiniteSet(ns) /\ Cardinality(ns) <= size
      /\ IsFiniteSet(Tasks \ U) /\ Cardinality(Tasks \ U) <= size
  <2>1. Tasks \ U \in SUBSET Tasks
    OBVIOUS
  <2>. QED  BY <1>1, <2>1, FS_Subset
<1>3. size \in Nat /\ Cardinality(ns) \in Nat /\ Cardinality(Tasks \ U) \in Nat
  BY <1>1, <1>2, FS_CardinalityType
<1> HIDE DEF size
<1>4. Cardinality(Tasks \ U) < size + 1 /\ size + 1 \in Nat
  BY <1>2, <1>3
<1>5. Cardinality(Tasks \ U) * (size + 1) + Cardinality(ns) < (size + 1) * (size + 1) + 0
  BY <1>2, <1>3, <1>4, RankOrder
<1>6. Rank(U, ns) = Cardinality(Tasks \ U) * (size + 1) + Cardinality(ns)
  BY DEF Rank, size
<1>7. (size + 1) * (size + 1) \in Nat /\ Cardinality(Tasks \ U) * (size + 1) \in Nat
  BY <1>3
<1>. QED  BY <1>3, <1>5, <1>6, <1>7 DEF size

Search == [visiting : SUBSET Tasks, visited : SUBSET Tasks, cycle : BOOLEAN]

Visit(deps, f, ns, s) ==
  IF ns = {} THEN s
  ELSE LET n == CHOOSE n \in ns : TRUE
           before == f[ns \ {n}][s]
           below == f[deps[n] \cap Tasks][[before EXCEPT !.visiting = @ \cup {n}]]
       IN  IF n \in before.visiting THEN [before EXCEPT !.cycle = TRUE]
           ELSE IF n \in before.visited THEN before
           ELSE [below EXCEPT !.visiting = @ \ {n}, !.visited = @ \cup {n}]

Visits(deps, f) == f = [ns \in SUBSET Tasks |-> [s \in Search |-> Visit(deps, f, ns, s)]]

LEMMA HasCycleIs ==
  ASSUME NEW c, DOMAIN c.deps = Tasks
  PROVE  HasCycle(c) = (CHOOSE f : Visits(c.deps, f))[Tasks][[visiting |-> {}, visited |-> {}, cycle |-> FALSE]].cycle
BY DEF HasCycle, TasksOf, Visits, Visit, Search

LEMMA VisitEquation ==
  ASSUME NEW deps, NEW f, Visits(deps, f), NEW ns \in SUBSET Tasks, NEW s \in Search
  PROVE  f[ns][s] = Visit(deps, f, ns, s)
BY DEF Visits

(* What a search that starts with s and ends with r has found.  Without a   *)
(* cycle, all it was asked to visit is visited and lies on no cycle.  With  *)
(* one, there is one, provided that it was asked for tasks below those it   *)
(* is in the middle of.                                                    *)
Clean(deps, s) ==
  /\ s.visited \cap s.visiting = {}
  /\ \A x \in s.visited : deps[x] \cap Tasks \subseteq s.visited /\ x \notin Below(Tasks, deps, x)

Trail(deps, ns, s) == \A v \in s.visiting, n \in ns : n \in Below(Tasks, deps, v)

Searched(deps, ns, s, r) ==
  /\ r \in Search /\ r.visiting = s.visiting /\ s.visited \subseteq r.visited
  /\ s.cycle => r.cycle
  /\ ~r.cycle /\ Clean(deps, s) => Clean(deps, r) /\ ns \subseteq r.visited
  /\ r.cycle /\ ~s.cycle /\ Trail(deps, ns, s) => \E t \in Tasks : t \in Below(Tasks, deps, t)

(* The searches that a search makes.                                        *)
Earlier(f, ns, s, deps) ==
  \A ms \in SUBSET Tasks, u \in Search :
     s.visiting \subseteq u.visiting /\ Rank(u.visiting, ms) < Rank(s.visiting, ns)
       => Searched(deps, ms, u, f[ms][u])

Calls(deps, f, ns, s, n, before, inside) ==
  /\ Searched(deps, ns \ {n}, s, before) /\ before \in Search
  /\ Rank(s.visiting, ns \ {n}) < Rank(s.visiting, ns)
  /\ inside \in Search
  /\ inside.visiting = s.visiting \cup {n} /\ inside.visited = before.visited
  /\ inside.cycle = before.cycle
  /\ n \notin s.visiting =>
       /\ Rank(inside.visiting, deps[n] \cap Tasks) < Rank(s.visiting, ns)
       /\ Searched(deps, deps[n] \cap Tasks, inside, f[deps[n] \cap Tasks][inside])

LEMMA VisitCalls ==
  ASSUME NEW deps, NEW f, NEW ns \in SUBSET Tasks, NEW s \in Search, Earlier(f, ns, s, deps),
         NEW n \in ns
  PROVE  Calls(deps, f, ns, s, n, f[ns \ {n}][s], [f[ns \ {n}][s] EXCEPT !.visiting = @ \cup {n}])
<1> DEFINE before == f[ns \ {n}][s]
           inside == [before EXCEPT !.visiting = @ \cup {n}]
<1>1. s.visiting \in SUBSET Tasks /\ n \in Tasks
  BY DEF Search
<1>2. Rank(s.visiting, ns \ {n}) < Rank(s.visiting, ns)
  <2>1. ns \ {n} \in SUBSET Tasks
    OBVIOUS
  <2>. QED  BY <1>1, <2>1, RankFalls
<1>3. Searched(deps, ns \ {n}, s, before)
  BY <1>2 DEF Earlier
<1>4. before \in Search /\ before.visiting = s.visiting
  BY <1>3 DEF Searched
<1>5. /\ inside \in Search /\ inside.visiting = s.visiting \cup {n}
      /\ inside.visited = before.visited /\ inside.cycle = before.cycle
  BY <1>1, <1>4 DEF Search
<1>6. ASSUME n \notin s.visiting
      PROVE  Rank(inside.visiting, deps[n] \cap Tasks) < Rank(s.visiting, ns)
  <2>1. inside.visiting \in SUBSET Tasks /\ s.visiting \subseteq inside.visiting /\ s.visiting # inside.visiting
    BY <1>1, <1>5, <1>6
  <2>2. deps[n] \cap Tasks \in SUBSET Tasks
    OBVIOUS
  <2> HIDE DEF inside
  <2>. QED  BY <1>1, <2>1, <2>2, RankFalls
<1>7. ASSUME n \notin s.visiting
      PROVE  Searched(deps, deps[n] \cap Tasks, inside, f[deps[n] \cap Tasks][inside])
  <2> HIDE DEF inside, before
  <2>1. deps[n] \cap Tasks \in SUBSET Tasks /\ s.visiting \subseteq inside.visiting
    BY <1>5
  <2>. QED  BY <1>5, <1>6, <1>7, <2>1 DEF Earlier
<1>8. Calls(deps, f, ns, s, n, before, inside)
  <2> HIDE DEF inside, before
  <2>. QED  BY <1>2, <1>3, <1>4, <1>5, <1>6, <1>7 DEF Calls
<1>. QED  BY <1>8

LEMMA VisitStep ==
  ASSUME NEW deps, NEW f, NEW ns \in SUBSET Tasks, NEW s \in Search, Earlier(f, ns, s, deps)
  PROVE  Searched(deps, ns, s, Visit(deps, f, ns, s))
<1>1. CASE ns = {}
  BY <1>1 DEF Visit, Searched
<1>2. CASE ns # {}
  <2> DEFINE n == CHOOSE n \in ns : TRUE
             before == f[ns \ {n}][s]
             inside == [before EXCEPT !.visiting = @ \cup {n}]
             below == f[deps[n] \cap Tasks][inside]
             r == Visit(deps, f, ns, s)
  <2>1. n \in ns /\ n \in Tasks
    BY <1>2
  <2>2. /\ Searched(deps, ns \ {n}, s, before) /\ before \in Search
        /\ inside \in Search
        /\ inside.visiting = s.visiting \cup {n} /\ inside.visited = before.visited
        /\ inside.cycle = before.cycle
        /\ n \notin s.visiting => Searched(deps, deps[n] \cap Tasks, inside, below)
    <3> HIDE DEF n
    <3>1. Calls(deps, f, ns, s, n, before, inside)
      BY <2>1, VisitCalls
    <3> HIDE DEF before, inside
    <3>. QED  BY <3>1 DEF Calls, below
  <2>3. r = IF n \in before.visiting THEN [before EXCEPT !.cycle = TRUE]
            ELSE IF n \in before.visited THEN before
            ELSE [below EXCEPT !.visiting = @ \ {n}, !.visited = @ \cup {n}]
    BY <1>2 DEF Visit
  <2> HIDE DEF n, before, inside, below, r
  <2>4. /\ before.visiting = s.visiting /\ s.visited \subseteq before.visited
        /\ s.cycle => before.cycle
        /\ ~before.cycle /\ Clean(deps, s) => Clean(deps, before) /\ ns \ {n} \subseteq before.visited
        /\ before.cycle /\ ~s.cycle /\ Trail(deps, ns \ {n}, s) =>
              \E t \in Tasks : t \in Below(Tasks, deps, t)
    BY <2>2 DEF Searched
  <2>5. Trail(deps, ns, s) => Trail(deps, ns \ {n}, s)
    BY DEF Trail
  <2>6. CASE n \in before.visiting
    <3>1. /\ r \in Search /\ r.visiting = before.visiting /\ r.visited = before.visited
          /\ r.cycle = TRUE
      BY <2>2, <2>3, <2>6 DEF Search
    <3>2. Trail(deps, ns, s) => n \in Below(Tasks, deps, n)
      BY <2>1, <2>4, <2>6 DEF Trail
    <3>. QED  BY <2>1, <2>4, <3>1, <3>2 DEF Searched, r
  <2>7. CASE n \notin before.visiting /\ n \in before.visited
    BY <2>2, <2>3, <2>4, <2>5, <2>7 DEF Searched, r
  <2>8. CASE n \notin before.visiting /\ n \notin before.visited
    <3>1. Searched(deps, deps[n] \cap Tasks, inside, below)
      BY <2>2, <2>4, <2>8
    <3>2. /\ below \in Search /\ below.visiting = s.visiting \cup {n}
          /\ before.visited \subseteq below.visited
          /\ before.cycle => below.cycle
          /\ ~below.cycle /\ Clean(deps, inside) =>
               Clean(deps, below) /\ deps[n] \cap Tasks \subseteq below.visited
          /\ below.cycle /\ ~before.cycle /\ Trail(deps, deps[n] \cap Tasks, inside) =>
               \E t \in Tasks : t \in Below(Tasks, deps, t)
      BY <2>2, <3>1 DEF Searched
    <3>3. /\ r \in Search /\ r.visiting = s.visiting /\ r.visited = below.visited \cup {n}
          /\ r.cycle = below.cycle
      <4>1. r = [below EXCEPT !.visiting = @ \ {n}, !.visited = @ \cup {n}]
        BY <2>3, <2>8
      <4>2. below.visiting \ {n} = s.visiting
        BY <2>4, <2>8, <3>2
      <4>. QED  BY <2>1, <3>2, <4>1, <4>2 DEF Search
    <3>4. ASSUME ~r.cycle, Clean(deps, s) PROVE Clean(deps, r) /\ ns \subseteq r.visited
      <4>1. Clean(deps, before) /\ ns \ {n} \subseteq before.visited
        BY <2>4, <3>2, <3>3, <3>4
      <4>2. Clean(deps, inside)
        BY <2>2, <2>4, <2>8, <4>1 DEF Clean
      <4>3. Clean(deps, below) /\ deps[n] \cap Tasks \subseteq below.visited
        BY <3>2, <3>3, <3>4, <4>2
      <4>4. n \notin below.visited
        BY <3>2, <4>3 DEF Clean
      <4>5. n \notin Below(Tasks, deps, n)
        <5>1. Below(Tasks, deps, n) \subseteq below.visited
          <6>1. below.visited \in SUBSET Tasks
            BY <3>2 DEF Search
          <6>2. \A x \in below.visited \cup {n} : deps[x] \cap Tasks \subseteq below.visited
            BY <4>3 DEF Clean
          <6>. QED  BY <6>1, <6>2, BelowWithin
        <5>. QED  BY <4>4, <5>1
      <4>6. Clean(deps, r)
        BY <2>4, <2>8, <3>2, <3>3, <4>3, <4>5 DEF Clean
      <4>. QED  BY <2>1, <3>2, <3>3, <4>1, <4>6
    <3>5. ASSUME r.cycle, ~s.cycle, Trail(deps, ns, s)
          PROVE  \E t \in Tasks : t \in Below(Tasks, deps, t)
      <4>1. CASE before.cycle
        BY <2>4, <2>5, <3>5, <4>1
      <4>2. CASE ~before.cycle
        <5>1. \A d \in deps[n] \cap Tasks : d \in Below(Tasks, deps, n)
          BY <2>1, BelowHas
        <5>2. \A v \in s.visiting : Below(Tasks, deps, n) \subseteq Below(Tasks, deps, v)
          BY <2>1, <3>5, BelowTransitive DEF Trail
        <5>3. Trail(deps, deps[n] \cap Tasks, inside)
          BY <2>2, <5>1, <5>2 DEF Trail
        <5>. QED  BY <3>2, <3>3, <3>5, <4>2, <5>3
      <4>. QED  BY <4>1, <4>2
    <3>. QED  BY <2>4, <3>2, <3>3, <3>4, <3>5 DEF Searched, r
  <2>. QED  BY <2>6, <2>7, <2>8
<1>. QED  BY <1>1, <1>2

(* A visit is made of the visits it makes.                                  *)
LEMMA VisitSame ==
  ASSUME NEW deps, NEW f, NEW g, NEW ns \in SUBSET Tasks, NEW s \in Search,
         Earlier(f, ns, s, deps),
         \A ms \in SUBSET Tasks, u \in Search :
            Rank(u.visiting, ms) < Rank(s.visiting, ns) => f[ms][u] = g[ms][u]
  PROVE  Visit(deps, f, ns, s) = Visit(deps, g, ns, s)
<1>1. CASE ns = {}
  BY <1>1 DEF Visit
<1>2. CASE ns # {}
  <2> DEFINE n == CHOOSE n \in ns : TRUE
             before == f[ns \ {n}][s]
             inside == [before EXCEPT !.visiting = @ \cup {n}]
             ms == deps[n] \cap Tasks
  <2>1. n \in ns /\ n \in Tasks
    BY <1>2
  <2>2. Calls(deps, f, ns, s, n, before, inside)
    <3> HIDE DEF n
    <3>. QED  BY <2>1, VisitCalls
  <2>3. before = g[ns \ {n}][s]
    <3> HIDE DEF n
    <3>1. Rank(s.visiting, ns \ {n}) < Rank(s.visiting, ns)
      BY <2>2 DEF Calls
    <3>2. ns \ {n} \in SUBSET Tasks
      OBVIOUS
    <3>. QED  BY <3>1, <3>2
  <2>4. n \notin before.visiting => f[ms][inside] = g[ms][inside]
    <3> HIDE DEF n, before, inside
    <3>1. n \notin before.visiting =>
             Rank(inside.visiting, ms) < Rank(s.visiting, ns) /\ inside \in Search
      BY <2>2 DEF Calls, Searched
    <3>2. ms \in SUBSET Tasks
      OBVIOUS
    <3> HIDE DEF ms
    <3>. QED  BY <3>1, <3>2
  <2>5. ASSUME NEW h, h[ns \ {n}][s] = before
        PROVE  Visit(deps, h, ns, s) =
                 IF n \in before.visiting THEN [before EXCEPT !.cycle = TRUE]
                 ELSE IF n \in before.visited THEN before
                 ELSE [h[ms][inside] EXCEPT !.visiting = @ \ {n}, !.visited = @ \cup {n}]
    BY <1>2, <2>5 DEF Visit
  <2> HIDE DEF n, before, inside, ms
  <2>6. before = f[ns \ {n}][s]
    BY DEF before
  <2>. QED  BY <2>3, <2>4, <2>5, <2>6
<1>. QED  BY <1>1, <1>2

(* The visits of a rank below k are made.                                   *)
Made(deps, f, k) ==
  \A ns \in SUBSET Tasks, s \in Search :
     Rank(s.visiting, ns) < k => f[ns][s] = Visit(deps, f, ns, s)

LEMMA VisitSearched ==
  ASSUME NEW deps, NEW f, NEW k \in Nat, Made(deps, f, k)
  PROVE  \A ns \in SUBSET Tasks, s \in Search :
            Rank(s.visiting, ns) < k => Searched(deps, ns, s, f[ns][s])
<1> DEFINE Wrong(m) == \E ns \in SUBSET Tasks, s \in Search :
                          /\ Rank(s.visiting, ns) = m /\ m < k
                          /\ ~Searched(deps, ns, s, f[ns][s])
           W == {m \in Nat : Wrong(m)}
<1>1. W = {}
  <2> SUFFICES ASSUME W # {} PROVE FALSE
    OBVIOUS
  <2>1. PICK m \in W : \A l \in W : m <= l
    <3>1. W \in SUBSET Nat
      OBVIOUS
    <3> HIDE DEF W
    <3>. QED  BY <3>1, LeastNumber
  <2>2. PICK ns \in SUBSET Tasks, s \in Search :
           Rank(s.visiting, ns) = m /\ m < k /\ ~Searched(deps, ns, s, f[ns][s])
    BY <2>1
  <2>3. ASSUME NEW ms \in SUBSET Tasks, NEW u \in Search, Rank(u.visiting, ms) < m
        PROVE  Searched(deps, ms, u, f[ms][u])
    <3>1. Rank(u.visiting, ms) \in Nat
      BY RankBound DEF Search
    <3>2. Rank(u.visiting, ms) < k
      BY <2>2, <2>3, <3>1
    <3>3. Rank(u.visiting, ms) \notin W
      BY <2>1, <2>3, <3>1
    <3>. QED  BY <3>1, <3>2, <3>3
  <2>4. Earlier(f, ns, s, deps)
    BY <2>2, <2>3 DEF Earlier
  <2>5. f[ns][s] = Visit(deps, f, ns, s)
    BY <2>2 DEF Made
  <2>. QED  BY <2>2, <2>4, <2>5, VisitStep
<1>2. ASSUME NEW ns \in SUBSET Tasks, NEW s \in Search, Rank(s.visiting, ns) < k,
             ~Searched(deps, ns, s, f[ns][s])
      PROVE  FALSE
  <2>1. Rank(s.visiting, ns) \in Nat
    BY RankBound DEF Search
  <2>. QED  BY <1>1, <1>2, <2>1
<1>. QED  BY <1>2

LEMMA VisitMade ==
  ASSUME NEW deps, NEW k \in Nat
  PROVE  \E f : Made(deps, f, k)
<1> DEFINE U == {m \in Nat : ~\E f : Made(deps, f, m)}
<1>1. U = {}
  <2> SUFFICES ASSUME U # {} PROVE FALSE
    OBVIOUS
  <2>1. PICK m \in U : \A l \in U : m <= l
    <3>1. U \in SUBSET Nat
      OBVIOUS
    <3> HIDE DEF U
    <3>. QED  BY <3>1, LeastNumber
  <2>2. m # 0
    <3>1. ASSUME NEW ns \in SUBSET Tasks, NEW s \in Search PROVE ~(Rank(s.visiting, ns) < 0)
      <4>1. Rank(s.visiting, ns) \in Nat
        BY RankBound DEF Search
      <4>. QED  BY <4>1
    <3>2. \A f : Made(deps, f, 0)
      BY <3>1 DEF Made
    <3>. QED  BY <2>1, <3>2
  <2>3. m - 1 \in Nat /\ m - 1 \notin U
    BY <2>1, <2>2
  <2>4. PICK f : Made(deps, f, m - 1)
    BY <2>3
  <2> DEFINE g == [ns \in SUBSET Tasks |-> [s \in Search |->
                     IF Rank(s.visiting, ns) < m - 1 THEN f[ns][s] ELSE Visit(deps, f, ns, s)]]
  <2>5. ASSUME NEW ns \in SUBSET Tasks, NEW s \in Search, Rank(s.visiting, ns) < m
        PROVE  g[ns][s] = Visit(deps, g, ns, s)
    <3>1. g[ns][s] = Visit(deps, f, ns, s)
      <4>1. g[ns][s] = IF Rank(s.visiting, ns) < m - 1 THEN f[ns][s] ELSE Visit(deps, f, ns, s)
        OBVIOUS
      <4>. QED  BY <2>4, <4>1 DEF Made
    <3>2. Rank(s.visiting, ns) \in Nat
      BY RankBound DEF Search
    <3>3. ASSUME NEW ms \in SUBSET Tasks, NEW u \in Search,
                 Rank(u.visiting, ms) < Rank(s.visiting, ns)
          PROVE  f[ms][u] = g[ms][u] /\ Searched(deps, ms, u, f[ms][u])
      <4>1. Rank(u.visiting, ms) \in Nat
        BY RankBound DEF Search
      <4>2. Rank(u.visiting, ms) < m - 1
        BY <2>1, <2>5, <3>2, <3>3, <4>1
      <4>3. g[ms][u] = f[ms][u]
        BY <4>2
      <4> HIDE DEF g
      <4>. QED  BY <2>3, <2>4, <4>2, <4>3, VisitSearched
    <3> HIDE DEF g
    <3>4. Earlier(f, ns, s, deps)
      BY <3>3 DEF Earlier
    <3>5. Visit(deps, f, ns, s) = Visit(deps, g, ns, s)
      BY <3>3, <3>4, VisitSame
    <3>. QED  BY <3>1, <3>5
  <2> HIDE DEF g
  <2>6. Made(deps, g, m)
    BY <2>5 DEF Made
  <2>. QED  BY <2>1, <2>6
<1>. QED  BY <1>1

LEMMA VisitIs ==
  ASSUME NEW deps
  PROVE  LET f == CHOOSE f : Visits(deps, f)
         IN  \A ns \in SUBSET Tasks, s \in Search : Searched(deps, ns, s, f[ns][s])
<1> DEFINE k == (Cardinality(Tasks) + 1) * (Cardinality(Tasks) + 1)
<1>1. \A ns \in SUBSET Tasks, s \in Search : Rank(s.visiting, ns) < k
  BY RankBound DEF Search
<1>2. k \in Nat
  <2>1. {} \in SUBSET Tasks
    OBVIOUS
  <2>. QED  BY <2>1, RankBound
<1> HIDE DEF k
<1>3. PICK f : Made(deps, f, k)
  BY <1>2, VisitMade
<1> DEFINE g == [ns \in SUBSET Tasks |-> [s \in Search |-> Visit(deps, f, ns, s)]]
<1>4. \A ns \in SUBSET Tasks, s \in Search : g[ns][s] = f[ns][s]
  BY <1>1, <1>3 DEF Made
<1>5. \A ns \in SUBSET Tasks, s \in Search : Searched(deps, ns, s, f[ns][s])
  BY <1>1, <1>2, <1>3, VisitSearched
<1>6. \A ns \in SUBSET Tasks, s \in Search : Visit(deps, f, ns, s) = Visit(deps, g, ns, s)
  <2> SUFFICES ASSUME NEW ns \in SUBSET Tasks, NEW s \in Search
               PROVE  Visit(deps, f, ns, s) = Visit(deps, g, ns, s)
    OBVIOUS
  <2> HIDE DEF g
  <2>1. Earlier(f, ns, s, deps)
    BY <1>5 DEF Earlier
  <2>. QED  BY <1>4, <2>1, VisitSame
<1>7. Visits(deps, g)
  <2>1. g = [ns \in SUBSET Tasks |-> [s \in Search |-> Visit(deps, g, ns, s)]]
    BY <1>6
  <2>. QED  BY <2>1 DEF Visits
<1>8. ASSUME NEW h, Visits(deps, h)
      PROVE  \A ns \in SUBSET Tasks, s \in Search : Searched(deps, ns, s, h[ns][s])
  <2>1. Made(deps, h, k)
    BY <1>8, VisitEquation DEF Made
  <2>. QED  BY <1>1, <1>2, <2>1, VisitSearched
<1>9. Visits(deps, CHOOSE h : Visits(deps, h))
  <2> HIDE DEF g
  <2>. QED  BY <1>7
<1>. QED  BY <1>8, <1>9

(* The first search finds a cycle exactly if there is one.                   *)
LEMMA HasCycleFinds ==
  ASSUME NEW c, DOMAIN c.deps = Tasks
  PROVE  HasCycle(c) <=> \E t \in Tasks : t \in Below(Tasks, c.deps, t)
<1> DEFINE f == CHOOSE f : Visits(c.deps, f)
           s == [visiting |-> {}, visited |-> {}, cycle |-> FALSE]
           r == f[Tasks][s]
<1>1. HasCycle(c) = r.cycle
  BY HasCycleIs
<1>2. s \in Search /\ Tasks \in SUBSET Tasks /\ s.visiting = {} /\ s.visited = {} /\ ~s.cycle
  BY DEF Search
<1>3. Searched(c.deps, Tasks, s, r)
  <2> HIDE DEF s
  <2>. QED  BY <1>2, VisitIs
<1> HIDE DEF s, r
<1>4. Clean(c.deps, s) /\ Trail(c.deps, Tasks, s)
  BY <1>2 DEF Clean, Trail
<1>5. CASE r.cycle
  BY <1>1, <1>2, <1>3, <1>4, <1>5 DEF Searched
<1>6. CASE ~r.cycle
  <2>1. \A t \in Tasks : t \notin Below(Tasks, c.deps, t)
    BY <1>3, <1>4, <1>6 DEF Searched, Clean
  <2>. QED  BY <1>1, <1>6, <2>1
<1>. QED  BY <1>5, <1>6

-----------------------------------------------------------------------------
(* The second search, in the same way.                                      *)
Lookout == [seen : SUBSET Tasks, found : BOOLEAN]

Look(deps, goal, f, ns, s) ==
  IF ns = {} THEN s
  ELSE LET n == CHOOSE n \in ns : TRUE
           before == f[ns \ {n}][s]
       IN  IF before.found \/ n = goal THEN [before EXCEPT !.found = TRUE]
           ELSE IF n \in before.seen THEN before
           ELSE f[deps[n] \cap Tasks][[before EXCEPT !.seen = @ \cup {n}]]

Looks(deps, goal, f) ==
  f = [ns \in SUBSET Tasks |-> [s \in Lookout |-> Look(deps, goal, f, ns, s)]]

LEMMA DependsOnIs ==
  ASSUME NEW c, DOMAIN c.deps = Tasks, NEW t, NEW goal
  PROVE  DependsOn(c, t, goal) = (CHOOSE f : Looks(c.deps, goal, f))[{t}][[seen |-> {}, found |-> FALSE]].found
BY DEF DependsOn, TasksOf, Looks, Look, Lookout

LEMMA LookEquation ==
  ASSUME NEW deps, NEW goal, NEW f, Looks(deps, goal, f), NEW ns \in SUBSET Tasks, NEW s \in Lookout
  PROVE  f[ns][s] = Look(deps, goal, f, ns, s)
BY DEF Looks

(* What a search that starts with s and ends with r tells: if it finds the  *)
(* goal it is below what was asked for, and if not, all below that is seen. *)
Told(deps, goal, ns, s, r) ==
  /\ r \in Lookout /\ s.seen \subseteq r.seen
  /\ s.found => r.found
  /\ r.found /\ ~s.found => \E n \in ns : n = goal \/ goal \in Below(Tasks, deps, n)
  /\ ~r.found => /\ ns \subseteq r.seen
                 /\ goal \in r.seen => goal \in s.seen
                 /\ \A x \in r.seen \ s.seen : deps[x] \cap Tasks \subseteq r.seen

Before(f, ns, s, deps, goal) ==
  \A ms \in SUBSET Tasks, u \in Lookout :
     s.seen \subseteq u.seen /\ Rank(u.seen, ms) < Rank(s.seen, ns)
       => Told(deps, goal, ms, u, f[ms][u])

Asks(deps, goal, f, ns, s, n, before, inside) ==
  /\ Told(deps, goal, ns \ {n}, s, before) /\ before \in Lookout
  /\ Rank(s.seen, ns \ {n}) < Rank(s.seen, ns)
  /\ inside \in Lookout
  /\ inside.seen = before.seen \cup {n} /\ inside.found = before.found
  /\ n \notin before.seen =>
       /\ Rank(inside.seen, deps[n] \cap Tasks) < Rank(s.seen, ns)
       /\ Told(deps, goal, deps[n] \cap Tasks, inside, f[deps[n] \cap Tasks][inside])

LEMMA LookAsks ==
  ASSUME NEW deps, NEW goal, NEW f, NEW ns \in SUBSET Tasks, NEW s \in Lookout,
         Before(f, ns, s, deps, goal), NEW n \in ns
  PROVE  Asks(deps, goal, f, ns, s, n, f[ns \ {n}][s], [f[ns \ {n}][s] EXCEPT !.seen = @ \cup {n}])
<1> DEFINE before == f[ns \ {n}][s]
           inside == [before EXCEPT !.seen = @ \cup {n}]
<1>1. s.seen \in SUBSET Tasks /\ n \in Tasks
  BY DEF Lookout
<1>2. Rank(s.seen, ns \ {n}) < Rank(s.seen, ns)
  <2>1. ns \ {n} \in SUBSET Tasks
    OBVIOUS
  <2>. QED  BY <1>1, <2>1, RankFalls
<1>3. Told(deps, goal, ns \ {n}, s, before)
  BY <1>2 DEF Before
<1>4. before \in Lookout /\ s.seen \subseteq before.seen
  BY <1>3 DEF Told
<1>5. /\ inside \in Lookout /\ inside.seen = before.seen \cup {n}
      /\ inside.found = before.found
  BY <1>1, <1>4 DEF Lookout
<1>6. ASSUME n \notin before.seen
      PROVE  Rank(inside.seen, deps[n] \cap Tasks) < Rank(s.seen, ns)
  <2>1. inside.seen \in SUBSET Tasks /\ s.seen \subseteq inside.seen /\ s.seen # inside.seen
    <3> HIDE DEF inside, before
    <3>. QED  BY <1>1, <1>4, <1>5, <1>6 DEF Lookout
  <2>2. deps[n] \cap Tasks \in SUBSET Tasks
    OBVIOUS
  <2> HIDE DEF inside
  <2>. QED  BY <1>1, <2>1, <2>2, RankFalls
<1>7. ASSUME n \notin before.seen
      PROVE  Told(deps, goal, deps[n] \cap Tasks, inside, f[deps[n] \cap Tasks][inside])
  <2> HIDE DEF inside, before
  <2>1. deps[n] \cap Tasks \in SUBSET Tasks /\ s.seen \subseteq inside.seen
    BY <1>4, <1>5
  <2>. QED  BY <1>5, <1>6, <1>7, <2>1 DEF Before
<1>8. Asks(deps, goal, f, ns, s, n, before, inside)
  <2> HIDE DEF inside, before
  <2>. QED  BY <1>2, <1>3, <1>4, <1>5, <1>6, <1>7 DEF Asks
<1>. QED  BY <1>8

LEMMA LookStep ==
  ASSUME NEW deps, NEW goal, NEW f, NEW ns \in SUBSET Tasks, NEW s \in Lookout,
         Before(f, ns, s, deps, goal)
  PROVE  Told(deps, goal, ns, s, Look(deps, goal, f, ns, s))
<1>1. CASE ns = {}
  BY <1>1 DEF Look, Told
<1>2. CASE ns # {}
  <2> DEFINE n == CHOOSE n \in ns : TRUE
             before == f[ns \ {n}][s]
             inside == [before EXCEPT !.seen = @ \cup {n}]
             below == f[deps[n] \cap Tasks][inside]
             r == Look(deps, goal, f, ns, s)
  <2>1. n \in ns /\ n \in Tasks
    BY <1>2
  <2>2. /\ Told(deps, goal, ns \ {n}, s, before) /\ before \in Lookout
        /\ inside \in Lookout
        /\ inside.seen = before.seen \cup {n} /\ inside.found = before.found
        /\ n \notin before.seen => Told(deps, goal, deps[n] \cap Tasks, inside, below)
    <3> HIDE DEF n
    <3>1. Asks(deps, goal, f, ns, s, n, before, inside)
      BY <2>1, LookAsks
    <3> HIDE DEF before, inside
    <3>. QED  BY <3>1 DEF Asks, below
  <2>3. r = IF before.found \/ n = goal THEN [before EXCEPT !.found = TRUE]
            ELSE IF n \in before.seen THEN before ELSE below
    BY <1>2 DEF Look
  <2> HIDE DEF n, before, inside, below, r
  <2>4. CASE before.found \/ n = goal
    <3>1. r \in Lookout /\ r.seen = before.seen /\ r.found
      BY <2>2, <2>3, <2>4 DEF Lookout
    <3>2. Told(deps, goal, ns, s, r)
      BY <2>1, <2>2, <2>4, <3>1 DEF Told
    <3>. QED  BY <3>2 DEF r
  <2>5. CASE ~before.found /\ n # goal /\ n \in before.seen
    <3>1. r = before
      BY <2>3, <2>5
    <3>2. Told(deps, goal, ns, s, r)
      BY <2>1, <2>2, <2>5, <3>1 DEF Told
    <3>. QED  BY <3>2 DEF r
  <2>6. CASE ~before.found /\ n # goal /\ n \notin before.seen
    <3>1. r = below /\ Told(deps, goal, deps[n] \cap Tasks, inside, below)
      BY <2>2, <2>3, <2>6
    <3>2. ASSUME r.found, ~s.found
          PROVE  \E m \in ns : m = goal \/ goal \in Below(Tasks, deps, m)
      <4>1. PICK d \in deps[n] \cap Tasks : d = goal \/ goal \in Below(Tasks, deps, d)
        BY <2>2, <2>6, <3>1, <3>2 DEF Told
      <4>2. goal \in Below(Tasks, deps, n)
        BY <2>1, <4>1, BelowHas
      <4>. QED  BY <2>1, <4>2
    <3>3. ASSUME ~r.found
          PROVE  /\ ns \subseteq r.seen
                 /\ goal \in r.seen => goal \in s.seen
                 /\ \A x \in r.seen \ s.seen : deps[x] \cap Tasks \subseteq r.seen
      <4>1. /\ ns \ {n} \subseteq before.seen
            /\ goal \in before.seen => goal \in s.seen
            /\ \A x \in before.seen \ s.seen : deps[x] \cap Tasks \subseteq before.seen
        BY <2>2, <2>6 DEF Told
      <4>2. /\ deps[n] \cap Tasks \subseteq r.seen /\ before.seen \cup {n} \subseteq r.seen
            /\ goal \in r.seen => goal \in before.seen \cup {n}
            /\ \A x \in r.seen \ (before.seen \cup {n}) : deps[x] \cap Tasks \subseteq r.seen
        BY <2>2, <3>1, <3>3 DEF Told
      <4>. QED  BY <2>6, <4>1, <4>2
    <3>4. r \in Lookout /\ s.seen \subseteq r.seen /\ (s.found => r.found)
      BY <2>2, <3>1 DEF Told
    <3>5. Told(deps, goal, ns, s, r)
      BY <3>2, <3>3, <3>4 DEF Told
    <3>. QED  BY <3>5 DEF r
  <2>. QED  BY <2>4, <2>5, <2>6
<1>. QED  BY <1>1, <1>2

LEMMA LookSame ==
  ASSUME NEW deps, NEW goal, NEW f, NEW g, NEW ns \in SUBSET Tasks, NEW s \in Lookout,
         Before(f, ns, s, deps, goal),
         \A ms \in SUBSET Tasks, u \in Lookout :
            Rank(u.seen, ms) < Rank(s.seen, ns) => f[ms][u] = g[ms][u]
  PROVE  Look(deps, goal, f, ns, s) = Look(deps, goal, g, ns, s)
<1>1. CASE ns = {}
  BY <1>1 DEF Look
<1>2. CASE ns # {}
  <2> DEFINE n == CHOOSE n \in ns : TRUE
             before == f[ns \ {n}][s]
             inside == [before EXCEPT !.seen = @ \cup {n}]
             ms == deps[n] \cap Tasks
  <2>1. n \in ns /\ n \in Tasks
    BY <1>2
  <2>2. Asks(deps, goal, f, ns, s, n, before, inside)
    <3> HIDE DEF n
    <3>. QED  BY <2>1, LookAsks
  <2>3. before = g[ns \ {n}][s]
    <3> HIDE DEF n
    <3>1. Rank(s.seen, ns \ {n}) < Rank(s.seen, ns)
      BY <2>2 DEF Asks
    <3>2. ns \ {n} \in SUBSET Tasks
      OBVIOUS
    <3>. QED  BY <3>1, <3>2
  <2>4. n \notin before.seen => f[ms][inside] = g[ms][inside]
    <3> HIDE DEF n, before, inside
    <3>1. n \notin before.seen =>
             Rank(inside.seen, ms) < Rank(s.seen, ns) /\ inside \in Lookout
      BY <2>2 DEF Asks
    <3>2. ms \in SUBSET Tasks
      OBVIOUS
    <3> HIDE DEF ms
    <3>. QED  BY <3>1, <3>2
  <2>5. ASSUME NEW h, h[ns \ {n}][s] = before
        PROVE  Look(deps, goal, h, ns, s) =
                 IF before.found \/ n = goal THEN [before EXCEPT !.found = TRUE]
                 ELSE IF n \in before.seen THEN before ELSE h[ms][inside]
    BY <1>2, <2>5 DEF Look
  <2> HIDE DEF n, before, inside, ms
  <2>6. before = f[ns \ {n}][s]
    BY DEF before
  <2>. QED  BY <2>3, <2>4, <2>5, <2>6
<1>. QED  BY <1>1, <1>2

Looked(deps, goal, f, k) ==
  \A ns \in SUBSET Tasks, s \in Lookout :
     Rank(s.seen, ns) < k => f[ns][s] = Look(deps, goal, f, ns, s)

LEMMA LookTold ==
  ASSUME NEW deps, NEW goal, NEW f, NEW k \in Nat, Looked(deps, goal, f, k)
  PROVE  \A ns \in SUBSET Tasks, s \in Lookout :
            Rank(s.seen, ns) < k => Told(deps, goal, ns, s, f[ns][s])
<1> DEFINE Wrong(m) == \E ns \in SUBSET Tasks, s \in Lookout :
                          /\ Rank(s.seen, ns) = m /\ m < k
                          /\ ~Told(deps, goal, ns, s, f[ns][s])
           W == {m \in Nat : Wrong(m)}
<1>1. W = {}
  <2> SUFFICES ASSUME W # {} PROVE FALSE
    OBVIOUS
  <2>1. PICK m \in W : \A l \in W : m <= l
    <3>1. W \in SUBSET Nat
      OBVIOUS
    <3> HIDE DEF W
    <3>. QED  BY <3>1, LeastNumber
  <2>2. PICK ns \in SUBSET Tasks, s \in Lookout :
           Rank(s.seen, ns) = m /\ m < k /\ ~Told(deps, goal, ns, s, f[ns][s])
    BY <2>1
  <2>3. ASSUME NEW ms \in SUBSET Tasks, NEW u \in Lookout, Rank(u.seen, ms) < m
        PROVE  Told(deps, goal, ms, u, f[ms][u])
    <3>1. Rank(u.seen, ms) \in Nat
      BY RankBound DEF Lookout
    <3>2. Rank(u.seen, ms) < k
      BY <2>2, <2>3, <3>1
    <3>3. Rank(u.seen, ms) \notin W
      BY <2>1, <2>3, <3>1
    <3>. QED  BY <3>1, <3>2, <3>3
  <2>4. Before(f, ns, s, deps, goal)
    BY <2>2, <2>3 DEF Before
  <2>5. f[ns][s] = Look(deps, goal, f, ns, s)
    BY <2>2 DEF Looked
  <2>. QED  BY <2>2, <2>4, <2>5, LookStep
<1>2. ASSUME NEW ns \in SUBSET Tasks, NEW s \in Lookout, Rank(s.seen, ns) < k,
             ~Told(deps, goal, ns, s, f[ns][s])
      PROVE  FALSE
  <2>1. Rank(s.seen, ns) \in Nat
    BY RankBound DEF Lookout
  <2>. QED  BY <1>1, <1>2, <2>1
<1>. QED  BY <1>2

LEMMA LookMade ==
  ASSUME NEW deps, NEW goal, NEW k \in Nat
  PROVE  \E f : Looked(deps, goal, f, k)
<1> DEFINE U == {m \in Nat : ~\E f : Looked(deps, goal, f, m)}
<1>1. U = {}
  <2> SUFFICES ASSUME U # {} PROVE FALSE
    OBVIOUS
  <2>1. PICK m \in U : \A l \in U : m <= l
    <3>1. U \in SUBSET Nat
      OBVIOUS
    <3> HIDE DEF U
    <3>. QED  BY <3>1, LeastNumber
  <2>2. m # 0
    <3>1. ASSUME NEW ns \in SUBSET Tasks, NEW s \in Lookout PROVE ~(Rank(s.seen, ns) < 0)
      <4>1. Rank(s.seen, ns) \in Nat
        BY RankBound DEF Lookout
      <4>. QED  BY <4>1
    <3>2. \A f : Looked(deps, goal, f, 0)
      BY <3>1 DEF Looked
    <3>. QED  BY <2>1, <3>2
  <2>3. m - 1 \in Nat /\ m - 1 \notin U
    BY <2>1, <2>2
  <2>4. PICK f : Looked(deps, goal, f, m - 1)
    BY <2>3
  <2> DEFINE g == [ns \in SUBSET Tasks |-> [s \in Lookout |->
                     IF Rank(s.seen, ns) < m - 1 THEN f[ns][s] ELSE Look(deps, goal, f, ns, s)]]
  <2>5. ASSUME NEW ns \in SUBSET Tasks, NEW s \in Lookout, Rank(s.seen, ns) < m
        PROVE  g[ns][s] = Look(deps, goal, g, ns, s)
    <3>1. g[ns][s] = Look(deps, goal, f, ns, s)
      <4>1. g[ns][s] = IF Rank(s.seen, ns) < m - 1 THEN f[ns][s] ELSE Look(deps, goal, f, ns, s)
        OBVIOUS
      <4>. QED  BY <2>4, <4>1 DEF Looked
    <3>2. Rank(s.seen, ns) \in Nat
      BY RankBound DEF Lookout
    <3>3. ASSUME NEW ms \in SUBSET Tasks, NEW u \in Lookout,
                 Rank(u.seen, ms) < Rank(s.seen, ns)
          PROVE  f[ms][u] = g[ms][u] /\ Told(deps, goal, ms, u, f[ms][u])
      <4>1. Rank(u.seen, ms) \in Nat
        BY RankBound DEF Lookout
      <4>2. Rank(u.seen, ms) < m - 1
        BY <2>1, <2>5, <3>2, <3>3, <4>1
      <4>3. g[ms][u] = f[ms][u]
        BY <4>2
      <4> HIDE DEF g
      <4>. QED  BY <2>3, <2>4, <4>2, <4>3, LookTold
    <3> HIDE DEF g
    <3>4. Before(f, ns, s, deps, goal)
      BY <3>3 DEF Before
    <3>5. Look(deps, goal, f, ns, s) = Look(deps, goal, g, ns, s)
      BY <3>3, <3>4, LookSame
    <3>. QED  BY <3>1, <3>5
  <2> HIDE DEF g
  <2>6. Looked(deps, goal, g, m)
    BY <2>5 DEF Looked
  <2>. QED  BY <2>1, <2>6
<1>. QED  BY <1>1

LEMMA LookIs ==
  ASSUME NEW deps, NEW goal
  PROVE  LET f == CHOOSE f : Looks(deps, goal, f)
         IN  \A ns \in SUBSET Tasks, s \in Lookout : Told(deps, goal, ns, s, f[ns][s])
<1> DEFINE k == (Cardinality(Tasks) + 1) * (Cardinality(Tasks) + 1)
<1>1. \A ns \in SUBSET Tasks, s \in Lookout : Rank(s.seen, ns) < k
  BY RankBound DEF Lookout
<1>2. k \in Nat
  <2>1. {} \in SUBSET Tasks
    OBVIOUS
  <2>. QED  BY <2>1, RankBound
<1> HIDE DEF k
<1>3. PICK f : Looked(deps, goal, f, k)
  BY <1>2, LookMade
<1> DEFINE g == [ns \in SUBSET Tasks |-> [s \in Lookout |-> Look(deps, goal, f, ns, s)]]
<1>4. \A ns \in SUBSET Tasks, s \in Lookout : g[ns][s] = f[ns][s]
  BY <1>1, <1>3 DEF Looked
<1>5. \A ns \in SUBSET Tasks, s \in Lookout : Told(deps, goal, ns, s, f[ns][s])
  BY <1>1, <1>2, <1>3, LookTold
<1>6. \A ns \in SUBSET Tasks, s \in Lookout : Look(deps, goal, f, ns, s) = Look(deps, goal, g, ns, s)
  <2> SUFFICES ASSUME NEW ns \in SUBSET Tasks, NEW s \in Lookout
               PROVE  Look(deps, goal, f, ns, s) = Look(deps, goal, g, ns, s)
    OBVIOUS
  <2> HIDE DEF g
  <2>1. Before(f, ns, s, deps, goal)
    BY <1>5 DEF Before
  <2>. QED  BY <1>4, <2>1, LookSame
<1>7. Looks(deps, goal, g)
  <2>1. g = [ns \in SUBSET Tasks |-> [s \in Lookout |-> Look(deps, goal, g, ns, s)]]
    BY <1>6
  <2>. QED  BY <2>1 DEF Looks
<1>8. ASSUME NEW h, Looks(deps, goal, h)
      PROVE  \A ns \in SUBSET Tasks, s \in Lookout : Told(deps, goal, ns, s, h[ns][s])
  <2>1. Looked(deps, goal, h, k)
    BY <1>8, LookEquation DEF Looked
  <2>. QED  BY <1>1, <1>2, <2>1, LookTold
<1>9. Looks(deps, goal, CHOOSE h : Looks(deps, goal, h))
  <2> HIDE DEF g
  <2>. QED  BY <1>7
<1>. QED  BY <1>8, <1>9

(* The second search finds a goal exactly if it is the task itself, or what *)
(* that depends on.                                                         *)
LEMMA DependsOnFinds ==
  ASSUME NEW c, DOMAIN c.deps = Tasks, NEW t \in Tasks, NEW goal
  PROVE  DependsOn(c, t, goal) <=> t = goal \/ goal \in Below(Tasks, c.deps, t)
<1> DEFINE f == CHOOSE f : Looks(c.deps, goal, f)
           s == [seen |-> {}, found |-> FALSE]
           r == f[{t}][s]
<1>1. DependsOn(c, t, goal) = r.found
  BY DependsOnIs
<1>2. s \in Lookout /\ {t} \in SUBSET Tasks /\ s.seen = {} /\ ~s.found
  BY DEF Lookout
<1>3. Told(c.deps, goal, {t}, s, r)
  <2> HIDE DEF s
  <2>. QED  BY <1>2, LookIs
<1> HIDE DEF s, r
<1>4. CASE r.found
  BY <1>1, <1>2, <1>3, <1>4 DEF Told
<1>5. CASE ~r.found
  <2>1. /\ t \in r.seen /\ goal \notin r.seen /\ r.seen \in SUBSET Tasks
        /\ \A x \in r.seen : c.deps[x] \cap Tasks \subseteq r.seen
    BY <1>2, <1>3, <1>5 DEF Told, Lookout
  <2>2. Below(Tasks, c.deps, t) \subseteq r.seen
    BY <2>1, BelowWithin
  <2>. QED  BY <1>1, <1>5, <2>1, <2>2
<1>. QED  BY <1>4, <1>5

-----------------------------------------------------------------------------
(* Two paths overlap exactly if they agree as far as they go.               *)
LEMMA PrefixIs ==
  ASSUME NEW P, NEW Q, NEW p \in Seq(P), NEW q \in Seq(Q), Len(p) <= Len(q)
  PROVE  IsPrefix(p, q) <=> \A i \in 1..Len(p) : p[i] = q[i]
<1>1. Len(p) \in Nat /\ Len(q) \in Nat /\ DOMAIN p = 1..Len(p) /\ DOMAIN q = 1..Len(q)
  OBVIOUS
<1>2. p = [i \in 1..Len(p) |-> p[i]] /\ q = [i \in 1..Len(q) |-> q[i]]
  OBVIOUS
<1>3. SubSeq(p, 1, Len(p)) = [i \in 1..Len(p) |-> p[i]]
  BY <1>1
<1>4. SubSeq(q, 1, Len(p)) = [i \in 1..Len(p) |-> q[i]]
  BY <1>1
<1>5. (\A i \in 1..Len(p) : p[i] = q[i]) <=> [i \in 1..Len(p) |-> p[i]] = [i \in 1..Len(p) |-> q[i]]
  OBVIOUS
<1>. QED  BY <1>3, <1>4, <1>5 DEF IsPrefix

LEMMA OverlapIs ==
  ASSUME NEW P, NEW Q, NEW p \in Seq(P), NEW q \in Seq(Q)
  PROVE  PathsOverlap(p, q) <=> \A i \in DOMAIN p \cap DOMAIN q : p[i] = q[i]
<1>1. Len(p) \in Nat /\ Len(q) \in Nat /\ DOMAIN p = 1..Len(p) /\ DOMAIN q = 1..Len(q)
  OBVIOUS
<1>2. CASE Len(p) < Len(q)
  <2>1. ~IsPrefix(q, p)
    BY <1>1, <1>2 DEF IsPrefix
  <2>2. DOMAIN p \cap DOMAIN q = 1..Len(p)
    BY <1>1, <1>2
  <2>. QED  BY <1>1, <1>2, <2>1, <2>2, PrefixIs DEF PathsOverlap
<1>3. CASE Len(q) < Len(p)
  <2>1. ~IsPrefix(p, q)
    BY <1>1, <1>3 DEF IsPrefix
  <2>2. DOMAIN p \cap DOMAIN q = 1..Len(q)
    BY <1>1, <1>3
  <2>3. IsPrefix(q, p) <=> \A i \in 1..Len(q) : q[i] = p[i]
    BY <1>1, <1>3, PrefixIs
  <2>. QED  BY <2>1, <2>2, <2>3 DEF PathsOverlap
<1>4. CASE Len(p) = Len(q)
  <2>1. DOMAIN p \cap DOMAIN q = 1..Len(p)
    BY <1>1, <1>4
  <2>2. IsPrefix(p, q) <=> \A i \in 1..Len(p) : p[i] = q[i]
    BY <1>1, <1>4, PrefixIs
  <2>3. IsPrefix(q, p) <=> \A i \in 1..Len(q) : q[i] = p[i]
    BY <1>1, <1>4, PrefixIs
  <2>. QED  BY <1>4, <2>1, <2>2, <2>3 DEF PathsOverlap
<1>5. Len(p) < Len(q) \/ Len(q) < Len(p) \/ Len(p) = Len(q)
  <2>1. \A m, n \in Nat : m < n \/ n < m \/ m = n
    OBVIOUS
  <2>2. Len(p) \in Nat /\ Len(q) \in Nat
    OBVIOUS
  <2>. QED  BY <2>1, <2>2, Zenon
<1>. QED  BY <1>2, <1>3, <1>4, <1>5

Shared(c, s, t) ==
  \E p \in c.scope[s], q \in c.scope[t] : \A i \in DOMAIN p \cap DOMAIN q : p[i] = q[i]

LEMMA ScopesOverlapIs ==
  ASSUME NEW c \in Campaigns, NEW s \in Tasks, NEW t \in Tasks
  PROVE  ScopesOverlap(c, s, t) <=> Shared(c, s, t)
<1>1. ASSUME NEW p \in c.scope[s], NEW q \in c.scope[t]
      PROVE  PathsOverlap(p, q) <=> \A i \in DOMAIN p \cap DOMAIN q : p[i] = q[i]
  <2>1. p \in Seq({p[i] : i \in DOMAIN p}) /\ q \in Seq({q[i] : i \in DOMAIN q})
    BY CampaignRunAssumption
  <2>. QED  BY <2>1, OverlapIs
<1>. QED  BY <1>1 DEF ScopesOverlap, Shared

LEMMA ValidIs ==
  ASSUME NEW c \in Campaigns
  PROVE  IsValid(c) <=>
           /\ \A t \in Tasks : c.deps[t] \subseteq Tasks /\ c.scope[t] # {}
           /\ \A t \in Tasks : t \notin Below(Tasks, c.deps, t)
           /\ \A s, t \in Tasks : Shared(c, s, t) =>
                s = t \/ s \in Below(Tasks, c.deps, t) \/ t \in Below(Tasks, c.deps, s)
<1>1. DOMAIN c.deps = Tasks
  BY CampaignRunAssumption
<1>2. HasCycle(c) <=> \E t \in Tasks : t \in Below(Tasks, c.deps, t)
  BY <1>1, HasCycleFinds
<1>3. KnownDependencies(c) <=> \A t \in Tasks : c.deps[t] \subseteq Tasks
  BY <1>1 DEF KnownDependencies, TasksOf
<1>4. \A s, t \in Tasks : DependsOn(c, s, t) <=> s = t \/ t \in Below(Tasks, c.deps, s)
  BY <1>1, DependsOnFinds
<1>5. DisjointScopes(c) <=> \A s, t \in Tasks : Shared(c, s, t) =>
        s = t \/ s \in Below(Tasks, c.deps, t) \/ t \in Below(Tasks, c.deps, s)
  BY <1>1, <1>4, ScopesOverlapIs DEF DisjointScopes, TasksOf
<1>. QED  BY <1>1, <1>2, <1>3, <1>5 DEF IsValid, TasksOf

LEMMA ApprovedIs ==
  ASSUME campaign \in Campaigns, approved = IsValid(campaign)
  PROVE  ValidationIsRight
<1>1. \A s, t \in Tasks : ShareAPath(s, t) <=> Shared(campaign, s, t)
  BY DEF ShareAPath, Shared
<1>. QED  BY <1>1, ValidIs DEF ValidationIsRight

(* What validate_campaign lets start is exactly what may start: no cycle,   *)
(* no stray dependency, an own scope for every task, and a path shared only *)
(* by tasks that dependencies order (campaign.py, visit and depends_on).   *)
THEOREM ValidationHolds == BoardSpec => []ValidationIsRight
<1> DEFINE I == campaign \in Campaigns /\ approved = IsValid(campaign)
<1>1. BoardInit => I
  BY DEF BoardInit, Init
<1>2. I /\ [BoardNext]_boardVars => I'
  <2>1. I /\ UNCHANGED <<campaign, approved>> => I'
    OBVIOUS
  <2>2. [BoardNext]_boardVars => UNCHANGED <<campaign, approved>>
    BY DEF BoardNext, boardVars, Work, Claim, Expire, Release, Accept, Inspect, Answer
  <2>. QED  BY <2>1, <2>2
<1>3. I => ValidationIsRight
  BY ApprovedIs
<1>. QED  BY <1>1, <1>2, <1>3, PTL DEF BoardSpec

-----------------------------------------------------------------------------
(* What a decision says.                                                    *)
LEMMA DecisionCompleted ==
  ASSUME NEW status, NEW s, NEW below
  PROVE  Decision(status, s, below) = "completed" <=> status \in Complete \/ s.status \in Complete
BY DEF Decision, Alone, Given

LEMMA DecisionReady ==
  ASSUME NEW status, NEW s, NEW below
  PROVE  Decision(status, s, below) \in Ready <=>
           Alone(status, s) = "open" /\ below \subseteq {"completed"}
BY DEF Decision, Alone, Given, Ready, Failed

LEMMA DecisionFailed ==
  ASSUME NEW status, NEW s, NEW below
  PROVE  Decision(status, s, below) \in Failed <=>
           \/ Alone(status, s) \in {"terminal_failure", "retries_exhausted"}
           \/ Alone(status, s) = "open" /\ below \cap Failed # {}
BY DEF Decision, Alone, Given, Failed

LEMMA ApprovedSound ==
  ASSUME NEW c \in Campaigns, IsValid(c)
  PROVE  Sound(c)
BY ValidIs, CampaignRunAssumption DEF Sound

-----------------------------------------------------------------------------
(* Types.                                                                   *)
Typed ==
  /\ BoardTypeOK
  /\ approved = IsValid(campaign)
  /\ DOMAIN read # {} => approved

LEMMA TypedInit == ASSUME BoardInit PROVE Typed
<1>1. NoSnapshot \in Snapshots
  BY DEF NoSnapshot, Snapshots
<1>2. NotAccepted \in [status : {"none", "completed", "blocked", "failed"}, attempt : Nat]
  BY DEF NotAccepted
<1>3. campaign \in Campaigns /\ view \in Views /\ approved = IsValid(campaign)
      /\ leases = [t \in Tasks |-> NoSnapshot] /\ accepted = [t \in Tasks |-> NotAccepted]
  BY DEF BoardInit, Init
<1>4. IsValid(campaign) \in BOOLEAN
  BY DEF IsValid
<1>5. TypeOK
  BY <1>1, <1>2, <1>3, <1>4 DEF TypeOK
<1>6. read = <<>> /\ board = <<>> /\ DOMAIN read = {}
  BY DEF BoardInit
<1>. QED  BY <1>3, <1>5, <1>6 DEF Typed, BoardTypeOK

LEMMA TypedWork == ASSUME Typed, Work PROVE Typed'
<1>1. PICK t \in Tasks : Claim(t) \/ Expire(t) \/ Release(t) \/ Accept(t)
  BY DEF Work
<1>2. UNCHANGED <<campaign, approved, view, read, board>>
  BY <1>1 DEF Work, Claim, Expire, Release, Accept
<1>3. leases[t] \in Snapshots /\ leases[t].attempt \in Nat /\ accepted[t].attempt \in Nat
  BY DEF Typed, BoardTypeOK, TypeOK, Snapshots
<1>4. leases' \in [Tasks -> Snapshots]
  <2>1. CASE Claim(t)
    <3>1. [status |-> "leased", attempt |-> leases[t].attempt + 1, live |-> TRUE] \in Snapshots
      BY <1>3 DEF Snapshots
    <3>2. leases' = [leases EXCEPT ![t] = [status |-> "leased", attempt |-> leases[t].attempt + 1, live |-> TRUE]]
      BY <2>1 DEF Claim
    <3> HIDE DEF Snapshots
    <3>. QED  BY <3>1, <3>2 DEF Typed, BoardTypeOK, TypeOK
  <2>2. CASE Expire(t)
    <3>1. [leases[t] EXCEPT !.live = FALSE] \in Snapshots
      BY <1>3 DEF Snapshots
    <3>2. leases' = [leases EXCEPT ![t] = [leases[t] EXCEPT !.live = FALSE]]
      BY <2>2 DEF Expire
    <3>. QED  BY <3>1, <3>2 DEF Typed, BoardTypeOK, TypeOK
  <2>3. CASE Release(t)
    <3>1. PICK end \in Ends : leases' = [leases EXCEPT ![t].status = end, ![t].live = FALSE]
      BY <2>3 DEF Release
    <3>2. [leases[t] EXCEPT !.status = end, !.live = FALSE] \in Snapshots
      BY <1>3, CampaignRunAssumption DEF Snapshots
    <3>3. leases' = [leases EXCEPT ![t] = [leases[t] EXCEPT !.status = end, !.live = FALSE]]
      BY <3>1
    <3>. QED  BY <3>2, <3>3 DEF Typed, BoardTypeOK, TypeOK
  <2>4. CASE Accept(t)
    BY <2>4 DEF Accept, Typed, BoardTypeOK, TypeOK
  <2>. QED  BY <1>1, <2>1, <2>2, <2>3, <2>4
<1>5. accepted' \in [Tasks -> [status : {"none", "completed", "blocked", "failed"}, attempt : Nat]]
  <2>1. CASE Accept(t)
    <3>1. PICK status \in {"completed", "blocked", "failed"} :
             accepted' = [accepted EXCEPT ![t] =
               [status |-> status,
                attempt |-> IF view = "overlay" THEN leases[t].attempt ELSE accepted[t].attempt]]
      BY <2>1 DEF Accept
    <3>. QED  BY <1>3, <3>1 DEF Typed, BoardTypeOK, TypeOK
  <2>2. CASE Claim(t) \/ Expire(t) \/ Release(t)
    BY <2>2 DEF Claim, Expire, Release, Typed, BoardTypeOK, TypeOK
  <2>. QED  BY <1>1, <2>1, <2>2
<1>. QED  BY <1>2, <1>4, <1>5 DEF Typed, BoardTypeOK, TypeOK

LEMMA ReadingIs ==
  ASSUME NEW t \in Tasks, Inspect(t), DOMAIN read \subseteq Tasks
  PROVE  /\ t \in DOMAIN read' /\ read'[t] = leases[t] /\ DOMAIN read' \subseteq Tasks
         /\ \A u \in DOMAIN read' : u # t => u \in DOMAIN read /\ read'[u] = read[u]
<1>1. CASE board = <<>>
  <2>1. read' = [u \in DOMAIN read \cup {t} |-> IF u = t THEN leases[t] ELSE read[u]]
    BY <1>1 DEF Inspect
  <2>. QED  BY <2>1
<1>2. CASE board # <<>>
  <2>1. read' = [u \in {t} |-> leases[t]]
    BY <1>2 DEF Inspect
  <2>. QED  BY <2>1
<1>. QED  BY <1>1, <1>2

LEMMA TypedInspect == ASSUME Typed, NEW t \in Tasks, Inspect(t) PROVE Typed'
<1>1. /\ t \in DOMAIN read' /\ read'[t] = leases[t] /\ DOMAIN read' \subseteq Tasks
      /\ \A u \in DOMAIN read' : u # t => u \in DOMAIN read /\ read'[u] = read[u]
  BY ReadingIs DEF Typed, BoardTypeOK
<1>2. /\ approved /\ board' = <<>>
      /\ UNCHANGED <<campaign, approved, view, leases, accepted>>
  BY DEF Inspect
<1>. QED  BY <1>1, <1>2 DEF Typed, BoardTypeOK, TypeOK

LEMMA TypedAnswer == ASSUME Typed, Answer PROVE Typed'
<1>1. PICK lapsed \in SUBSET {t \in Tasks : MayLapse(t)} :
        board' = [reasons |-> Schedule(campaign, [t \in Tasks |->
                                [read[t] EXCEPT !.live = @ /\ t \notin lapsed]]),
                  lapsed |-> lapsed]
  BY DEF Answer
<1>2. Sound(campaign)
  <2>1. CASE Tasks = {}
    <3>1. campaign \in Campaigns
      BY DEF Typed, BoardTypeOK, TypeOK
    <3>. QED  BY <2>1, <3>1, CampaignRunAssumption DEF Sound
  <2>2. CASE Tasks # {}
    BY <2>2, ApprovedSound DEF Answer, Typed, BoardTypeOK, TypeOK
  <2>. QED  BY <2>1, <2>2
<1>3. Schedule(campaign, [t \in Tasks |-> [read[t] EXCEPT !.live = @ /\ t \notin lapsed]])
        \in [Tasks -> Reasons]
  BY <1>2, ScheduleIs
<1>4. board' \in Boards
  BY <1>1, <1>3 DEF Boards
<1>5. UNCHANGED <<campaign, approved, view, leases, accepted, read>> /\ DOMAIN read = Tasks
  BY DEF Answer
<1>. QED  BY <1>4, <1>5 DEF Typed, BoardTypeOK, TypeOK

LEMMA TypedStep == ASSUME Typed, [BoardNext]_boardVars PROVE Typed'
<1>1. CASE UNCHANGED boardVars
  BY <1>1 DEF boardVars, Typed, BoardTypeOK, TypeOK
<1>. QED  BY <1>1, TypedWork, TypedAnswer, TypedInspect DEF BoardNext

(* What the campaign and an answer of campaign-status are made of, whatever  *)
(* the agents do: above all, a schedule is asked of a validated campaign     *)
(* only, so that decide (scheduler.py) always ends with one of its reasons.*)
THEOREM BoardTypeCorrect == BoardSpec => []BoardTypeOK
<1>1. Typed => BoardTypeOK
  BY DEF Typed
<1>. QED  BY <1>1, TypedInit, TypedStep, PTL DEF BoardSpec

-----------------------------------------------------------------------------
(* Failure, in one schedule.                                                *)
LEMMA DecisionsAre ==
  ASSUME Typed, approved
  PROVE  /\ Sound(campaign) /\ Decisions \in [Tasks -> Reasons]
         /\ \A t \in Tasks : Decisions[t] =
              Decision(campaign.status[t], Seen[t], Supports(Decisions, campaign, t))
<1>1. Sound(campaign)
  BY ApprovedSound DEF Typed, BoardTypeOK, TypeOK
<1>. QED  BY <1>1, ScheduleIs DEF Decisions

LEMMA DecisionAsks ==
  ASSUME NEW status, NEW s, NEW below
  PROVE  /\ Decision(status, s, below) = "dependency_failed" => below \cap Failed # {}
         /\ Decision(status, s, below) = "dependencies_incomplete" =>
              below \cap Failed = {} /\ ~(below \subseteq {"completed"})
         /\ below \cap Failed # {} =>
              Decision(status, s, below) \in {"completed", "active_lease"} \cup Failed
BY DEF Decision, Alone, Given, Failed

LEMMA FailureSpreads ==
  ASSUME Typed, approved, NEW U, U = Tasks \ {t \in Tasks : Decisions[t] \in {"completed", "active_lease"}},
         NEW lost, lost = {t \in U : Decisions[t] \in {"terminal_failure", "retries_exhausted"}},
         NEW t \in U
  PROVE  Decisions[t] \in Failed <=> t \in lost \/ Below(U, campaign.deps, t) \cap lost # {}
<1> DEFINE deps == campaign.deps
           D == Decisions
<1>1. /\ DOMAIN deps = Tasks /\ IsFiniteSet(Tasks)
      /\ \A u \in Tasks : deps[u] \subseteq Tasks /\ u \notin Below(Tasks, deps, u)
      /\ D \in [Tasks -> Reasons]
  BY DecisionsAre, CampaignRunAssumption DEF Sound
<1>2. \A u \in Tasks :
        /\ D[u] = "dependency_failed" => \E d \in deps[u] : D[d] \in Failed
        /\ (\E d \in deps[u] : D[d] \in Failed) => D[u] \in {"completed", "active_lease"} \cup Failed
  <2> SUFFICES ASSUME NEW u \in Tasks
               PROVE  /\ D[u] = "dependency_failed" => \E d \in deps[u] : D[d] \in Failed
                      /\ (\E d \in deps[u] : D[d] \in Failed) => D[u] \in {"completed", "active_lease"} \cup Failed
    OBVIOUS
  <2> DEFINE below == {D[d] : d \in deps[u]}
  <2>1. D[u] = Decision(campaign.status[u], Seen[u], below)
    BY DecisionsAre DEF Supports
  <2>2. below \cap Failed # {} <=> \E d \in deps[u] : D[d] \in Failed
    OBVIOUS
  <2> HIDE DEF below, D
  <2>. QED  BY <2>1, <2>2, DecisionAsks
<1>3. U \subseteq Tasks /\ lost \subseteq U
  OBVIOUS
<1>4. \A u \in Tasks : D[u] \in Failed => u \in U
  BY DEF Failed
<1>5. \A u \in U : D[u] \in Failed <=> u \in lost \/ D[u] = "dependency_failed"
  BY DEF Failed
<1> HIDE DEF D
<1>6. ASSUME D[t] \notin Failed, t \notin lost, Below(U, deps, t) \cap lost # {} PROVE FALSE
  <2> DEFINE S == {x \in U : D[x] \notin Failed}
  <2>1. \A x \in S \cup {t} : deps[x] \cap U \subseteq S
    <3> SUFFICES ASSUME NEW x \in U, D[x] \notin Failed, NEW d \in deps[x] \cap U PROVE D[d] \notin Failed
      BY <1>6
    <3>. QED  BY <1>1, <1>2, <1>3, D = Decisions DEF D
  <2>2. Below(U, deps, t) \subseteq S
    <3>1. S \in SUBSET U
      OBVIOUS
    <3> HIDE DEF S, deps
    <3>. QED  BY <2>1, <3>1, BelowWithin
  <2>. QED  BY <1>5, <1>6, <2>2
<1>7. ASSUME D[t] \in Failed, t \notin lost, Below(U, deps, t) \cap lost = {} PROVE FALSE
  <2> DEFINE T == {u \in U : D[u] = "dependency_failed" /\ Below(U, deps, u) \cap lost = {}}
  <2>1. t \in T /\ T \in SUBSET Tasks
    BY <1>3, <1>5, <1>7
  <2>2. PICK u \in T : deps[u] \cap T = {}
    <3> HIDE DEF T
    <3>. QED  BY <1>1, <2>1, Foundation
  <2>3. PICK d \in deps[u] : D[d] \in Failed
    BY <1>2, <1>3
  <2>4. d \in U /\ u \in U
    BY <1>1, <1>3, <1>4, <2>3
  <2>5. d \in Below(U, deps, u) /\ Below(U, deps, d) \subseteq Below(U, deps, u)
    BY <2>3, <2>4, BelowHas
  <2>. QED  BY <1>5, <2>2, <2>3, <2>4, <2>5
<1>8. t \in lost => D[t] \in Failed
  BY <1>5
<1>. QED  BY <1>6, <1>7, <1>8 DEF D

LEMMA NothingWaits ==
  ASSUME Typed, approved, \A t \in Tasks : Decisions[t] \notin Ready \cup {"active_lease"}
  PROVE  \A t \in Tasks : Decisions[t] \in {"completed"} \cup Failed
<1> DEFINE D == Decisions
           T == {t \in Tasks : D[t] = "dependencies_incomplete"}
<1>1. /\ IsFiniteSet(Tasks) /\ D \in [Tasks -> Reasons]
      /\ \A u \in Tasks : campaign.deps[u] \subseteq Tasks /\ u \notin Below(Tasks, campaign.deps, u)
  BY DecisionsAre, CampaignRunAssumption DEF Sound
<1>2. \A t \in Tasks : D[t] \in {"completed", "dependencies_incomplete"} \cup Failed
  BY <1>1 DEF Reasons
<1>3. T = {}
  <2> SUFFICES ASSUME T # {} PROVE FALSE
    OBVIOUS
  <2>1. PICK t \in T : campaign.deps[t] \cap T = {}
    <3>1. T \in SUBSET Tasks
      OBVIOUS
    <3> HIDE DEF T
    <3>. QED  BY <1>1, <3>1, Foundation
  <2> DEFINE below == {D[d] : d \in campaign.deps[t]}
  <2>2. D[t] = Decision(campaign.status[t], Seen[t], below)
    BY DecisionsAre DEF Supports
  <2>3. \A d \in campaign.deps[t] : d \in Tasks /\ D[d] # "dependencies_incomplete"
    BY <1>1, <2>1
  <2>4. below \subseteq {"completed"} \cup Failed
    <3> HIDE DEF D
    <3>. QED  BY <1>2, <2>3
  <2>5. D[t] = "dependencies_incomplete"
    BY <2>1
  <2> HIDE DEF below, D
  <2>. QED  BY <2>2, <2>4, <2>5, DecisionAsks
<1>. QED  BY <1>2, <1>3

LEMMA Propagates == ASSUME Typed PROVE FailurePropagates
<1> SUFFICES ASSUME approved PROVE FailurePropagates
  BY DEF FailurePropagates
<1> DEFINE settled == {t \in Tasks : Decisions[t] \in {"completed", "active_lease"}}
           U == Tasks \ settled
           lost == {t \in U : Decisions[t] \in {"terminal_failure", "retries_exhausted"}}
           given_up == {t \in U : t \in lost \/ Below(U, campaign.deps, t) \cap lost # {}}
<1>1. \A t \in U : Decisions[t] \in Failed <=> t \in lost \/ Below(U, campaign.deps, t) \cap lost # {}
  BY FailureSpreads
<1>2. \A t \in Tasks : Decisions[t] \in Failed => t \in U
  BY DEF Failed
<1>3. \A t \in Tasks : Decisions[t] \in Failed <=> t \in given_up
  <2> HIDE DEF U, lost
  <2>. QED  BY <1>1, <1>2
<1>4. (\A t \in Tasks : Decisions[t] \notin Ready \cup {"active_lease"}) => Tasks = given_up \cup settled
  <2> SUFFICES ASSUME \A t \in Tasks : Decisions[t] \notin Ready \cup {"active_lease"}
               PROVE  Tasks = given_up \cup settled
    OBVIOUS
  <2>1. \A t \in Tasks : Decisions[t] \in {"completed"} \cup Failed
    BY NothingWaits
  <2>2. given_up \subseteq Tasks /\ settled \subseteq Tasks
    OBVIOUS
  <2>3. \A t \in Tasks : Decisions[t] = "completed" => t \in settled
    OBVIOUS
  <2> HIDE DEF given_up, settled
  <2>. QED  BY <1>3, <2>1, <2>2, <2>3
<1>. QED  BY <1>3, <1>4 DEF FailurePropagates

(* A schedule blames exactly the tasks that failed for good and those that  *)
(* wait for one of them, through unfinished tasks; so when nothing is ready *)
(* or leased, nothing is left to wait for: every task is finished or given  *)
(* up (decide, scheduler.py).  It holds in every state, whatever the main   *)
(* agent does.                                                             *)
THEOREM FailureIsPropagated == BoardSpec => []FailurePropagates
BY TypedInit, TypedStep, Propagates, PTL DEF BoardSpec

-----------------------------------------------------------------------------
(* The campaign at work.  What counts as completed in the schedules of a     *)
(* view, and what stays so:                                                *)
Done(t) == campaign.status[t] \in Complete \/ Seen[t].status \in Complete

(* what an attempt at a task shows,                                         *)
Begun(t) ==
  /\ leases[t].status = "none" <=> leases[t].attempt = 0
  /\ leases[t].attempt > 0 =>
       /\ approved /\ campaign.status[t] \notin Complete \cup Failure
       /\ \A d \in campaign.deps[t] : Done(d)
  /\ Working(t) => ~Done(t)
  /\ view # "leases" => leases[t].status \notin Complete
  /\ accepted[t].status # "none" => leases[t].attempt > 0

AllBegun == \A t \in Tasks : Begun(t)

(* and what was read of a task that nobody may claim again.                 *)
Settled(s) == s.status \in Complete \/ s.status \in Failure \ Retryable \/ Exhausted(s)

Judged(lapsed) == [t \in Tasks |-> [read[t] EXCEPT !.live = @ /\ t \notin lapsed]]

Reading ==
  /\ DOMAIN read # {} => view = "leases"
  /\ \A t \in DOMAIN read : Settled(read[t]) => leases[t] = read[t]
  /\ board # <<>> => board.reasons = Schedule(campaign, Judged(board.lapsed))

LEMMA OverlaidStatus ==
  ASSUME NEW s \in Snapshots, NEW entry, entry.status # "none"
  PROVE  Overlaid(s, entry).status = IF entry.status = "blocked" THEN "cancelled" ELSE entry.status
<1>1. Overlaid(s, entry) =
        [s EXCEPT !.status = IF entry.status = "blocked" THEN "cancelled" ELSE entry.status,
                  !.attempt = IF entry.attempt > s.attempt THEN entry.attempt ELSE s.attempt]
  BY DEF Overlaid
<1>. QED  BY <1>1 DEF Snapshots

LEMMA SeenIs ==
  ASSUME Typed, NEW t \in Tasks
  PROVE  /\ view \in AllViews
         /\ view = "leases" => Seen[t] = leases[t]
         /\ view # "leases" =>
              /\ accepted[t].status = "none" =>
                   Seen[t] = IF view = "overlay" THEN leases[t] ELSE NoSnapshot
              /\ accepted[t].status # "none" =>
                   /\ Seen[t].status = IF accepted[t].status = "blocked" THEN "cancelled" ELSE accepted[t].status
                   /\ view = "overlay" => Seen[t].attempt >= leases[t].attempt
<1>1. view \in AllViews /\ leases[t] \in Snapshots /\ accepted[t].attempt \in Nat
  BY CampaignRunAssumption DEF Typed, BoardTypeOK, TypeOK
<1>2. Seen[t] = IF view = "leases" THEN leases[t]
                ELSE Overlaid(IF view = "overlay" THEN leases[t] ELSE NoSnapshot, accepted[t])
  BY DEF Seen
<1>3. ASSUME NEW s, s = [status |-> s.status, attempt |-> s.attempt, live |-> s.live],
             s.attempt \in Nat, accepted[t].status # "none"
      PROVE  /\ Overlaid(s, accepted[t]).status =
                  IF accepted[t].status = "blocked" THEN "cancelled" ELSE accepted[t].status
             /\ Overlaid(s, accepted[t]).attempt >= s.attempt
  <2>1. Overlaid(s, accepted[t]) =
          [s EXCEPT !.status = IF accepted[t].status = "blocked" THEN "cancelled" ELSE accepted[t].status,
                    !.attempt = IF accepted[t].attempt > s.attempt THEN accepted[t].attempt ELSE s.attempt]
    BY <1>3 DEF Overlaid
  <2>. QED  BY <1>1, <1>3, <2>1
<1>4. /\ leases[t] = [status |-> leases[t].status, attempt |-> leases[t].attempt, live |-> leases[t].live]
      /\ leases[t].attempt \in Nat
  BY <1>1 DEF Snapshots
<1>5. /\ NoSnapshot = [status |-> NoSnapshot.status, attempt |-> NoSnapshot.attempt, live |-> NoSnapshot.live]
      /\ NoSnapshot.attempt \in Nat
  BY DEF NoSnapshot
<1>6. accepted[t].status = "none" => \A s : Overlaid(s, accepted[t]) = s
  BY DEF Overlaid
<1>7. CASE view = "leases"
  BY <1>1, <1>2, <1>7
<1>8. CASE view = "overlay"
  BY <1>1, <1>2, <1>3, <1>4, <1>6, <1>8
<1>9. CASE view = "accepted"
  BY <1>1, <1>2, <1>3, <1>5, <1>6, <1>9
<1>. QED  BY <1>1, <1>7, <1>8, <1>9 DEF AllViews

LEMMA SeenSame ==
  ASSUME NEW t \in Tasks, UNCHANGED view, leases'[t] = leases[t], accepted'[t] = accepted[t]
  PROVE  Seen'[t] = Seen[t]
BY DEF Seen

LEMMA DoneIs ==
  ASSUME Typed, approved, NEW t \in Tasks
  PROVE  /\ Decisions[t] = "completed" <=> Done(t)
         /\ campaign.deps[t] \subseteq Tasks
         /\ Decisions[t] \in Ready =>
              /\ ~Done(t) /\ Alone(campaign.status[t], Seen[t]) = "open"
              /\ \A d \in campaign.deps[t] : Done(d)
<1>1. \A u \in Tasks : Decisions[u] = "completed" <=> Done(u)
  BY DecisionsAre, DecisionCompleted DEF Done
<1>2. campaign.deps[t] \subseteq Tasks
  BY DecisionsAre DEF Sound
<1>3. ASSUME Decisions[t] \in Ready
      PROVE  /\ ~Done(t) /\ Alone(campaign.status[t], Seen[t]) = "open"
             /\ \A d \in campaign.deps[t] : Done(d)
  <2>1. Alone(campaign.status[t], Seen[t]) = "open" /\ Supports(Decisions, campaign, t) \subseteq {"completed"}
    BY <1>3, DecisionsAre, DecisionReady
  <2>2. \A d \in campaign.deps[t] : Decisions[d] = "completed"
    BY <2>1 DEF Supports
  <2>3. ~Done(t)
    BY <1>1, <1>3 DEF Ready
  <2>. QED  BY <1>1, <1>2, <2>1, <2>2, <2>3
<1>. QED  BY <1>1, <1>2, <1>3

LEMMA AloneOpen ==
  ASSUME NEW status, NEW s, Alone(status, s) = "open"
  PROVE  status \notin Complete \cup Failure /\ ~Settled(s)
BY DEF Alone, Terminal, Settled

(* Nothing that is completed is taken up again.                             *)
LEMMA DoneStays ==
  ASSUME Hazards = {}, Typed, AllBegun, Work, NEW u \in Tasks, Done(u)
  PROVE  Done(u)'
<1>1. PICK t \in Tasks : Claim(t) \/ Expire(t) \/ Release(t) \/ (view # "leases" /\ Accept(t))
  BY DEF Work
<1>2. UNCHANGED <<campaign, approved, view>>
  BY <1>1 DEF Claim, Expire, Release, Accept
<1>3. SUFFICES ASSUME Seen[u].status \in Complete PROVE Seen'[u].status \in Complete
  BY <1>2 DEF Done
<1>4. CASE t # u
  <2>1. leases'[u] = leases[u] /\ accepted'[u] = accepted[u]
    BY <1>1, <1>4 DEF Claim, Expire, Release, Accept, Typed, BoardTypeOK, TypeOK
  <2>. QED  BY <1>2, <1>3, <2>1, SeenSame
<1>5. CASE t = u
  <2>1. ~Claim(t)
    BY <1>5, DoneIs DEF Claim
  <2>2. ~Working(t)
    BY <1>5 DEF AllBegun, Begun
  <2>3. view # "leases" /\ Accept(t)
    BY <1>1, <2>1, <2>2 DEF Expire, Release
  <2>4. accepted[u].status \in {"none", "blocked", "failed"}
    BY <1>5, <2>3 DEF Accept, Typed, BoardTypeOK, TypeOK
  <2>5. leases[u].status \notin Complete
    BY <2>3 DEF AllBegun, Begun
  <2>. QED  BY <1>3, <2>3, <2>4, <2>5, SeenIs DEF Complete, NoSnapshot
<1>. QED  BY <1>4, <1>5

LEMMA BegunInit == ASSUME BoardInit PROVE AllBegun /\ Reading
<1>1. /\ read = <<>> /\ board = <<>> /\ DOMAIN read = {}
      /\ leases = [t \in Tasks |-> NoSnapshot] /\ accepted = [t \in Tasks |-> NotAccepted]
  BY DEF BoardInit, Init
<1>2. ASSUME NEW t \in Tasks PROVE Begun(t)
  <2>1. leases[t] = NoSnapshot /\ accepted[t] = NotAccepted
    BY <1>1
  <2>. QED  BY <2>1 DEF Begun, NoSnapshot, NotAccepted, Working, Complete
<1>. QED  BY <1>1, <1>2 DEF AllBegun, Reading

LEMMA BegunClaim ==
  ASSUME Hazards = {}, Typed, AllBegun, Work, NEW t \in Tasks, Claim(t)
  PROVE  Begun(t)'
<1>1. /\ approved /\ Decisions[t] \in Ready
      /\ leases' = [leases EXCEPT ![t] = [status |-> "leased", attempt |-> @.attempt + 1, live |-> TRUE]]
      /\ UNCHANGED <<campaign, approved, view, accepted>>
  BY DEF Claim
<1>2. leases[t].attempt \in Nat /\ view \in AllViews
  BY SeenIs DEF Typed, BoardTypeOK, TypeOK, Snapshots
<1>3. leases'[t] = [status |-> "leased", attempt |-> leases[t].attempt + 1, live |-> TRUE]
  BY <1>1 DEF Typed, BoardTypeOK, TypeOK
<1>4. /\ ~Done(t) /\ campaign.status[t] \notin Complete \cup Failure
      /\ campaign.deps[t] \subseteq Tasks /\ \A d \in campaign.deps[t] : Done(d)
  BY <1>1, DoneIs, AloneOpen
<1>5. \A d \in campaign.deps[t] : Done(d)'
  BY <1>4, DoneStays
<1>6. Typed'
  BY TypedWork
<1>7. Seen'[t].status \notin Complete
  <2>1. Seen'[t] = IF view = "leases" THEN leases'[t]
                   ELSE Overlaid(IF view = "overlay" THEN leases'[t] ELSE NoSnapshot, accepted[t])
    BY <1>1 DEF Seen
  <2>2. leases'[t] \in Snapshots /\ NoSnapshot \in Snapshots
    BY <1>2, <1>3 DEF Snapshots, NoSnapshot
  <2>3. accepted[t].status = "none" => Seen'[t].status \in {"leased", "none"}
    BY <1>3, <2>1 DEF Overlaid, NoSnapshot
  <2>4. ASSUME view # "leases", accepted[t].status # "none" PROVE Seen'[t].status = Seen[t].status
    <3>1. Seen'[t].status = IF accepted[t].status = "blocked" THEN "cancelled" ELSE accepted[t].status
      <4> DEFINE s == IF view = "overlay" THEN leases'[t] ELSE NoSnapshot
      <4>1. s \in Snapshots
        BY <2>2
      <4> HIDE DEF s
      <4>2. Overlaid(s, accepted[t]).status = IF accepted[t].status = "blocked" THEN "cancelled" ELSE accepted[t].status
        BY <2>4, <4>1, OverlaidStatus
      <4>. QED  BY <2>1, <2>4, <4>2 DEF s
    <3>. QED  BY <2>4, <3>1, SeenIs
  <2>. QED  BY <1>3, <1>4, <2>1, <2>3, <2>4 DEF Done, Complete
<1>8. leases'[t].status = "leased" /\ leases'[t].attempt > 0
  BY <1>2, <1>3
<1>. QED  BY <1>1, <1>4, <1>5, <1>7, <1>8 DEF Begun, Done, Complete

LEMMA BegunStep == ASSUME Hazards = {}, Typed, AllBegun, [BoardNext]_boardVars PROVE AllBegun'
<1>1. CASE UNCHANGED <<campaign, approved, view, leases, accepted>>
  BY <1>1 DEF AllBegun, Begun, Done, Seen, Working
<1>2. CASE Work
  <2>1. PICK t \in Tasks : Claim(t) \/ Expire(t) \/ Release(t) \/ (view # "leases" /\ Accept(t))
    BY <1>2 DEF Work
  <2>2. UNCHANGED <<campaign, approved, view>>
    BY <2>1 DEF Claim, Expire, Release, Accept
  <2>3. ASSUME NEW u \in Tasks PROVE Begun(u)'
    <3>1. Begun(u)
      BY DEF AllBegun
    <3>2. leases[u].attempt > 0 => \A d \in campaign.deps[u] : Done(d)'
      <4>1. leases[u].attempt > 0 => campaign.deps[u] \subseteq Tasks
        BY <3>1, DoneIs DEF Begun
      <4>. QED  BY <1>2, <3>1, <4>1, DoneStays DEF Begun
    <3>3. CASE u # t
      <4>1. leases'[u] = leases[u] /\ accepted'[u] = accepted[u]
        BY <2>1, <3>3 DEF Claim, Expire, Release, Accept, Typed, BoardTypeOK, TypeOK
      <4>2. Done(u)' = Done(u)
        BY <2>2, <4>1, SeenSame DEF Done
      <4>. QED  BY <2>2, <3>1, <3>2, <4>1, <4>2 DEF Begun, Working
    <3>4. CASE u = t /\ Claim(t)
      BY <1>2, <3>4, BegunClaim
    <3>5. CASE u = t /\ Expire(t)
      <4>1. /\ leases'[t].status = leases[t].status /\ leases'[t].attempt = leases[t].attempt
            /\ leases'[t].live = FALSE /\ accepted' = accepted
        <5>1. leases[t] \in Snapshots /\ leases' = [leases EXCEPT ![t].live = FALSE] /\ accepted' = accepted
          BY <3>5 DEF Expire, Typed, BoardTypeOK, TypeOK
        <5>. QED  BY <5>1 DEF Snapshots, Typed, BoardTypeOK, TypeOK
      <4>. QED  BY <2>2, <3>1, <3>2, <3>5, <4>1 DEF Begun, Working
    <3>6. CASE u = t /\ Release(t)
      <4>1. PICK end \in Ends :
              /\ view = "leases" \/ end \notin Complete
              /\ leases' = [leases EXCEPT ![t].status = end, ![t].live = FALSE]
              /\ accepted' = accepted /\ Working(t)
        BY <3>6 DEF Release
      <4>2. end \notin {"none", "leased"}
        BY CampaignRunAssumption DEF Outcomes, Complete, Failure
      <4>3. leases'[t].status = end /\ leases'[t].attempt = leases[t].attempt
        <5>1. leases[t] \in Snapshots
          BY DEF Typed, BoardTypeOK, TypeOK
        <5>. QED  BY <4>1, <5>1 DEF Snapshots, Typed, BoardTypeOK, TypeOK
      <4>. QED  BY <2>2, <3>1, <3>2, <3>6, <4>1, <4>2, <4>3 DEF Begun, Working
    <3>7. CASE u = t /\ Accept(t)
      <4>1. leases' = leases /\ leases[t].attempt > 0 /\ ~Working(t)
        BY <3>7 DEF Accept
      <4>. QED  BY <2>2, <3>1, <3>2, <3>7, <4>1 DEF Begun, Working
    <3>. QED  BY <2>1, <3>3, <3>4, <3>5, <3>6, <3>7
  <2>. QED  BY <2>3 DEF AllBegun
<1>. QED  BY <1>1, <1>2 DEF BoardNext, boardVars, Answer, Inspect

LEMMA ReadingStep ==
  ASSUME "unscheduled" \notin Hazards, Typed, Reading, [BoardNext]_boardVars
  PROVE  Reading'
<1>1. CASE UNCHANGED boardVars
  BY <1>1 DEF boardVars, Reading, Judged
<1>2. CASE Work
  <2>1. PICK t \in Tasks : Claim(t) \/ Expire(t) \/ Release(t) \/ (view # "leases" /\ Accept(t))
    BY <1>2 DEF Work
  <2>2. UNCHANGED <<campaign, view, read, board>>
    BY <1>2, <2>1 DEF Work, Claim, Expire, Release, Accept
  <2>3. ASSUME NEW u \in DOMAIN read, Settled(read[u]) PROVE leases'[u] = read[u]
    <3>1. leases[u] = read[u] /\ view = "leases" /\ u \in Tasks
      BY <2>3 DEF Reading, Typed, BoardTypeOK
    <3>2. CASE u # t
      BY <2>1, <3>1, <3>2 DEF Claim, Expire, Release, Accept, Typed, BoardTypeOK, TypeOK
    <3>3. CASE u = t
      <4>1. ~Working(t)
        BY <2>3, <3>1, <3>3 DEF Working, Settled, Exhausted, Complete, Failure, Retryable
      <4>2. ~Claim(t)
        <5> SUFFICES ASSUME Claim(t) PROVE FALSE
          OBVIOUS
        <5>1. Alone(campaign.status[t], Seen[t]) = "open"
          BY DoneIs DEF Claim
        <5>. QED  BY <2>3, <3>1, <3>3, <5>1, AloneOpen, SeenIs
      <4>. QED  BY <2>1, <3>1, <4>1, <4>2 DEF Expire, Release
    <3>. QED  BY <3>2, <3>3
  <2>4. Judged(board.lapsed)' = Judged(board.lapsed)
    BY <2>2 DEF Judged
  <2>. QED  BY <2>2, <2>3, <2>4 DEF Reading
<1>3. CASE Answer
  <2>1. PICK lapsed \in SUBSET {t \in Tasks : MayLapse(t)} :
          board' = [reasons |-> Schedule(campaign, Judged(lapsed)), lapsed |-> lapsed]
    BY <1>3 DEF Answer, Judged
  <2>2. UNCHANGED <<campaign, view, leases, read>>
    BY <1>3 DEF Answer
  <2>3. board'.lapsed = lapsed /\ board'.reasons = Schedule(campaign, Judged(lapsed))
    BY <2>1
  <2>4. Judged(board.lapsed)' = Judged(lapsed)
    BY <2>2, <2>3 DEF Judged
  <2>. QED  BY <2>2, <2>3, <2>4 DEF Reading
<1>4. ASSUME NEW t \in Tasks, Inspect(t) PROVE Reading'
  <2>1. /\ read'[t] = leases[t]
        /\ \A u \in DOMAIN read' : u # t => u \in DOMAIN read /\ read'[u] = read[u]
    BY <1>4, ReadingIs DEF Typed, BoardTypeOK
  <2>2. view = "leases" /\ board' = <<>> /\ UNCHANGED <<campaign, view, leases>>
    BY <1>4 DEF Inspect
  <2>. QED  BY <2>1, <2>2 DEF Reading
<1>. QED  BY <1>1, <1>2, <1>3, <1>4 DEF BoardNext

-----------------------------------------------------------------------------
(* The inductive invariant, and what it gives.                              *)
IInv == Typed /\ AllBegun /\ Reading

LEMMA IInvHolds == ASSUME Hazards = {} PROVE BoardSpec => []IInv
<1>1. BoardInit => IInv
  BY TypedInit, BegunInit DEF IInv
<1>2. IInv /\ [BoardNext]_boardVars => IInv'
  BY TypedStep, BegunStep, ReadingStep DEF IInv
<1>. QED  BY <1>1, <1>2, PTL DEF BoardSpec

LEMMA WorkingBegun ==
  ASSUME IInv, NEW t \in Tasks, Working(t)
  PROVE  /\ approved /\ ~Done(t) /\ campaign.deps[t] \subseteq Tasks
         /\ \A d \in campaign.deps[t] : Done(d)
<1>1. leases[t].status = "leased" /\ leases[t].attempt \in Nat
  BY DEF Working, IInv, Typed, BoardTypeOK, TypeOK, Snapshots
<1>2. leases[t].attempt > 0
  BY <1>1 DEF IInv, AllBegun, Begun
<1>3. approved /\ ~Done(t) /\ \A d \in campaign.deps[t] : Done(d)
  BY <1>2 DEF IInv, AllBegun, Begun
<1>. QED  BY <1>3, DoneIs DEF IInv

(* While a task is worked on, everything it depends on counts as completed,  *)
(* as long as tasks are claimed when a schedule says they are ready and     *)
(* handoffs are accepted once: no expiry, release, retry or acceptance      *)
(* takes up again what a claim was built on (campaign.py, scheduler.py).   *)
THEOREM FoundationsHold ==
  ASSUME Hazards = {}
  PROVE  BoardSpec => []FoundationsStand
<1>1. IInv => FoundationsStand
  <2> SUFFICES ASSUME IInv, NEW t \in Tasks, Working(t), NEW d \in campaign.deps[t]
               PROVE  Decisions[d] = "completed"
    BY DEF FoundationsStand
  <2>. QED  BY WorkingBegun, DoneIs DEF IInv
<1>. QED  BY <1>1, IInvHolds, PTL

(* The manifest records a task as complete only after what it depends on.   *)
(* validate_campaign does not ask for that.                                *)
RecordedInOrder ==
  \A c \in Campaigns : \A t \in Tasks :
     c.status[t] \in Complete => \A d \in c.deps[t] \cap Tasks : c.status[d] \in Complete

(* Then all that lies below a task that builds on completed work is          *)
(* completed, however far down.                                            *)
LEMMA BelowDone ==
  ASSUME IInv, RecordedInOrder, NEW t \in Tasks, \A d \in campaign.deps[t] : Done(d)
  PROVE  \A d \in Below(Tasks, campaign.deps, t) : Done(d)
<1> DEFINE S == {d \in Tasks : Done(d)}
<1>1. ASSUME NEW x \in Tasks, Done(x), NEW d \in campaign.deps[x] \cap Tasks PROVE Done(d)
  <2>1. CASE campaign.status[x] \in Complete
    BY <1>1, <2>1 DEF RecordedInOrder, Done, IInv, Typed, BoardTypeOK, TypeOK
  <2>2. CASE Seen[x].status \in Complete
    <3>1. leases[x].status # "none" \/ accepted[x].status # "none"
      BY <2>2, SeenIs DEF IInv, Complete, NoSnapshot
    <3>2. leases[x].attempt > 0
      <4>1. leases[x].attempt \in Nat
        BY DEF IInv, Typed, BoardTypeOK, TypeOK, Snapshots
      <4>. QED  BY <3>1, <4>1 DEF IInv, AllBegun, Begun
    <3>. QED  BY <1>1, <3>2 DEF IInv, AllBegun, Begun
  <2>. QED  BY <1>1, <2>1, <2>2 DEF Done
<1>2. S \in SUBSET Tasks /\ \A x \in S \cup {t} : campaign.deps[x] \cap Tasks \subseteq S
  BY <1>1
<1>3. Below(Tasks, campaign.deps, t) \subseteq S
  <2> HIDE DEF S
  <2>. QED  BY <1>2, BelowWithin
<1>. QED  BY <1>3

LEMMA SharedOrdered ==
  ASSUME Typed, approved, NEW s \in Tasks, NEW t \in Tasks, ShareAPath(s, t)
  PROVE  s = t \/ s \in Below(Tasks, campaign.deps, t) \/ t \in Below(Tasks, campaign.deps, s)
<1>1. Shared(campaign, s, t) /\ campaign \in Campaigns /\ IsValid(campaign)
  BY DEF ShareAPath, Shared, Typed, BoardTypeOK, TypeOK
<1>. QED  BY <1>1, ValidIs

(* Two workers never hold tasks that may write the same path: where          *)
(* write_scope overlaps, validate_campaign has demanded a dependency        *)
(* (campaign.py), and a worker of the later task holds it only while        *)
(* everything below is completed and so not leased.                        *)
THEOREM AccessIsSerial ==
  ASSUME Hazards = {}, RecordedInOrder
  PROVE  BoardSpec => []SerialAccess
<1>1. IInv => SerialAccess
  <2> SUFFICES ASSUME IInv, NEW s \in Tasks, NEW t \in Tasks,
                      Working(s), Working(t), ShareAPath(s, t)
               PROVE  s = t
    BY DEF SerialAccess
  <2>1. s = t \/ s \in Below(Tasks, campaign.deps, t) \/ t \in Below(Tasks, campaign.deps, s)
    BY WorkingBegun, SharedOrdered DEF IInv
  <2>2. s \notin Below(Tasks, campaign.deps, t)
    BY WorkingBegun, BelowDone
  <2>3. t \notin Below(Tasks, campaign.deps, s)
    BY WorkingBegun, BelowDone
  <2>. QED  BY <2>1, <2>2, <2>3
<1>. QED  BY <1>1, IInvHolds, PTL

(* How often a task was claimed, when schedules are followed that see the    *)
(* leases.                                                                 *)
Counted(t) ==
  /\ leases[t].status = "none" => leases[t].attempt = 0
  /\ leases[t].status # "other"
  /\ view # "accepted" => leases[t].attempt <= MaxAttempts

LEMMA CountedClaim ==
  ASSUME "unscheduled" \notin Hazards, Typed, NEW t \in Tasks, Counted(t), Claim(t), view # "accepted"
  PROVE  leases[t].attempt < MaxAttempts
<1>1. leases[t] \in Snapshots /\ leases[t].attempt \in Nat /\ MaxAttempts \in Nat \ {0}
  BY SchedulerAssumption DEF Typed, BoardTypeOK, TypeOK, Snapshots
<1>2. Alone(campaign.status[t], Seen[t]) = "open"
  BY DoneIs DEF Claim
<1>3. view \in {"leases", "overlay"}
  BY SeenIs DEF AllViews
<1>4. ASSUME NEW s, Alone(campaign.status[t], s) = "open", s.attempt >= MaxAttempts
      PROVE  s.status \notin {"leased", "failed", "released", "complete", "completed", "cancelled"}
  BY <1>4 DEF Alone, Exhausted, Terminal, Retryable, Failure, Complete
<1>5. CASE Seen[t] = leases[t]
  <2> SUFFICES ASSUME leases[t].attempt >= MaxAttempts PROVE FALSE
    BY <1>1
  <2>1. leases[t].status \notin {"leased", "failed", "released", "complete", "completed", "cancelled"}
    BY <1>2, <1>4, <1>5
  <2>2. leases[t].status = "none"
    BY <1>1, <2>1 DEF Snapshots, Outcomes, Complete, Failure, Counted
  <2>. QED  BY <1>1, <2>2 DEF Counted
<1>6. CASE accepted[t].status # "none" /\ view = "overlay"
  <2>1. /\ Seen[t].status \in {"completed", "cancelled", "failed"}
        /\ Seen[t].attempt >= leases[t].attempt
    BY <1>6, SeenIs DEF Typed, BoardTypeOK, TypeOK
  <2>2. ~(Seen[t].attempt >= MaxAttempts)
    BY <1>2, <1>4, <2>1
  <2>3. Seen[t].attempt \in Nat
    <3>1. Seen[t].attempt \in {leases[t].attempt, accepted[t].attempt}
      <4>1. Seen[t] = [leases[t] EXCEPT
                         !.status = IF accepted[t].status = "blocked" THEN "cancelled" ELSE accepted[t].status,
                         !.attempt = IF accepted[t].attempt > leases[t].attempt
                                     THEN accepted[t].attempt ELSE leases[t].attempt]
        BY <1>6 DEF Seen, Overlaid
      <4>. QED  BY <1>1, <4>1 DEF Snapshots
    <3>. QED  BY <1>1, <3>1 DEF Typed, BoardTypeOK, TypeOK
  <2>. QED  BY <1>1, <2>1, <2>2, <2>3
<1>. QED  BY <1>3, <1>5, <1>6, SeenIs

LEMMA CountedStep ==
  ASSUME "unscheduled" \notin Hazards, "other" \notin Ends, Typed,
         \A t \in Tasks : Counted(t), [BoardNext]_boardVars
  PROVE  \A t \in Tasks : Counted(t)'
<1>1. CASE UNCHANGED <<view, leases>>
  BY <1>1 DEF Counted
<1>2. CASE Work
  <2>1. PICK t \in Tasks : Claim(t) \/ Expire(t) \/ Release(t) \/ (view # "leases" /\ Accept(t))
    BY <1>2 DEF Work
  <2>2. view' = view
    BY <2>1 DEF Claim, Expire, Release, Accept
  <2>3. leases[t] \in Snapshots /\ leases[t].attempt \in Nat /\ Counted(t) /\ MaxAttempts \in Nat
    BY SchedulerAssumption DEF Typed, BoardTypeOK, TypeOK, Snapshots
  <2>4. CASE Claim(t)
    <3>1. leases' = [leases EXCEPT ![t] = [status |-> "leased", attempt |-> leases[t].attempt + 1, live |-> TRUE]]
      BY <2>4 DEF Claim
    <3>2. leases'[t].status = "leased" /\ leases'[t].attempt = leases[t].attempt + 1
      BY <3>1 DEF Typed, BoardTypeOK, TypeOK
    <3>3. view # "accepted" => leases[t].attempt < MaxAttempts
      BY <2>3, <2>4, CountedClaim
    <3>4. \A u \in Tasks : u # t => leases'[u] = leases[u]
      BY <3>1 DEF Typed, BoardTypeOK, TypeOK
    <3>5. Counted(t)'
      BY <2>2, <2>3, <3>2, <3>3 DEF Counted
    <3>. QED  BY <2>2, <3>4, <3>5 DEF Counted
  <2>5. CASE Expire(t)
    <3>1. leases' = [leases EXCEPT ![t].live = FALSE]
      BY <2>5 DEF Expire
    <3>2. leases'[t].status = leases[t].status /\ leases'[t].attempt = leases[t].attempt
      BY <2>3, <3>1 DEF Snapshots, Typed, BoardTypeOK, TypeOK
    <3>3. \A u \in Tasks : u # t => leases'[u] = leases[u]
      BY <3>1 DEF Typed, BoardTypeOK, TypeOK
    <3>. QED  BY <2>2, <2>3, <3>2, <3>3 DEF Counted
  <2>6. CASE Release(t)
    <3>1. PICK end \in Ends : leases' = [leases EXCEPT ![t].status = end, ![t].live = FALSE]
      BY <2>6 DEF Release
    <3>2. leases'[t].status = end /\ leases'[t].attempt = leases[t].attempt
      BY <2>3, <3>1 DEF Snapshots, Typed, BoardTypeOK, TypeOK
    <3>3. \A u \in Tasks : u # t => leases'[u] = leases[u]
      BY <3>1 DEF Typed, BoardTypeOK, TypeOK
    <3>4. end # "none" /\ end # "other"
      BY CampaignRunAssumption DEF Outcomes, Complete, Failure
    <3>. QED  BY <2>2, <2>3, <3>2, <3>3, <3>4 DEF Counted
  <2>7. CASE Accept(t)
    BY <1>1, <2>7 DEF Accept
  <2>. QED  BY <2>1, <2>4, <2>5, <2>6, <2>7
<1>. QED  BY <1>1, <1>2 DEF BoardNext, boardVars, Answer, Inspect

(* No task is claimed more often than the retry policy allows, in whatever   *)
(* way its attempts end, when each claim follows a schedule that sees the   *)
(* leases, alone or under the accepted outcomes (RetryPolicy.max_attempts,  *)
(* scheduler.py).  An outcome that the scheduler does not know would be     *)
(* retried for ever, so none is recorded here.                             *)
THEOREM AttemptsAreBounded ==
  ASSUME "unscheduled" \notin Hazards, "other" \notin Ends
  PROVE  BoardSpec => []AttemptsBounded
<1> DEFINE I == Typed /\ \A t \in Tasks : Counted(t)
<1>1. BoardInit => I
  <2> SUFFICES ASSUME BoardInit, NEW t \in Tasks PROVE Counted(t)
    BY TypedInit
  <2>1. leases[t] = NoSnapshot
    BY DEF BoardInit, Init
  <2>. QED  BY <2>1, SchedulerAssumption DEF Counted, NoSnapshot
<1>2. I /\ [BoardNext]_boardVars => I'
  BY TypedStep, CountedStep
<1>3. I => AttemptsBounded
  BY DEF Counted, AttemptsBounded
<1>. QED  BY <1>1, <1>2, <1>3, PTL DEF BoardSpec

-----------------------------------------------------------------------------
(* The answer of campaign-status.                                           *)
LEMMA AnswerIs ==
  ASSUME IInv, board # <<>>, NEW t \in Tasks
  PROVE  /\ view = "leases" /\ approved /\ DOMAIN read = Tasks /\ Seen[t] = leases[t]
         /\ campaign.deps[t] \subseteq Tasks
         /\ Settled(read[t]) => leases[t] = read[t]
         /\ Judged(board.lapsed)[t].status = read[t].status
         /\ t \notin board.lapsed => Judged(board.lapsed)[t] = read[t]
         /\ board.reasons[t] = Decision(campaign.status[t], Judged(board.lapsed)[t],
                                       Supports(board.reasons, campaign, t))
<1>1. DOMAIN read = Tasks /\ view = "leases" /\ approved /\ read[t] \in Snapshots
  BY DEF IInv, Reading, Typed, BoardTypeOK
<1>2. Seen[t] = leases[t]
  BY <1>1, SeenIs DEF IInv
<1>3. Sound(campaign) /\ board.reasons = Schedule(campaign, Judged(board.lapsed))
  BY <1>1, DecisionsAre DEF IInv, Reading
<1>4. board.reasons[t] = Decision(campaign.status[t], Judged(board.lapsed)[t],
                                  Supports(board.reasons, campaign, t))
  BY <1>3, ScheduleIs
<1>5. Judged(board.lapsed)[t] = [read[t] EXCEPT !.live = read[t].live /\ t \notin board.lapsed]
  BY DEF Judged
<1>6. read[t] = [status |-> read[t].status, attempt |-> read[t].attempt, live |-> read[t].live]
      /\ read[t].live \in BOOLEAN
  BY <1>1 DEF Snapshots
<1>7. Judged(board.lapsed)[t].status = read[t].status
  BY <1>5, <1>6
<1>8. t \notin board.lapsed => Judged(board.lapsed)[t] = read[t]
  BY <1>5, <1>6
<1>9. campaign.deps[t] \subseteq Tasks
  BY <1>3 DEF Sound
<1>10. Settled(read[t]) => leases[t] = read[t]
  BY <1>1 DEF IInv, Reading
<1>. QED  BY <1>1, <1>2, <1>4, <1>7, <1>8, <1>9, <1>10

LEMMA AnswerCompleted ==
  ASSUME IInv, board # <<>>, NEW t \in Tasks, board.reasons[t] = "completed"
  PROVE  Done(t) /\ Decisions[t] = "completed"
<1>1. campaign.status[t] \in Complete \/ read[t].status \in Complete
  BY AnswerIs, DecisionCompleted
<1>2. Done(t)
  BY <1>1, AnswerIs DEF Done, Settled
<1>. QED  BY <1>2, AnswerIs, DoneIs DEF IInv

LEMMA AnswerReady ==
  ASSUME IInv, RecordedInOrder, board # <<>>, NEW t \in Tasks, board.reasons[t] \in Ready
  PROVE  /\ \A d \in campaign.deps[t] : Decisions[d] = "completed"
         /\ leases[t] = read[t] => \A s \in Tasks : Working(s) /\ ShareAPath(s, t) => s = t
<1>1. /\ campaign.status[t] \notin Complete /\ read[t].status \notin Complete
      /\ Supports(board.reasons, campaign, t) \subseteq {"completed"}
  BY AnswerIs, DecisionReady, DecisionCompleted DEF Ready
<1>2. \A d \in campaign.deps[t] : d \in Tasks /\ board.reasons[d] = "completed"
  BY <1>1, AnswerIs DEF Supports
<1>3. \A d \in campaign.deps[t] : Decisions[d] = "completed" /\ Done(d)
  BY <1>2, AnswerCompleted
<1>4. ASSUME leases[t] = read[t], NEW s \in Tasks, Working(s), ShareAPath(s, t)
      PROVE  s = t
  <2>1. s = t \/ s \in Below(Tasks, campaign.deps, t) \/ t \in Below(Tasks, campaign.deps, s)
    BY <1>4, AnswerIs, SharedOrdered DEF IInv
  <2>2. s \notin Below(Tasks, campaign.deps, t)
    BY <1>3, <1>4, WorkingBegun, BelowDone
  <2>3. ~Done(t)
    BY <1>1, <1>4, AnswerIs DEF Done
  <2>4. t \notin Below(Tasks, campaign.deps, s)
    BY <1>4, <2>3, WorkingBegun, BelowDone
  <2>. QED  BY <2>1, <2>2, <2>4
<1>. QED  BY <1>3, <1>4

Stale(t) == (Below(Tasks, campaign.deps, t) \cup {t}) \cap board.lapsed # {}

LEMMA AnswerFailed ==
  ASSUME IInv, board # <<>>, NEW t \in Tasks, board.reasons[t] \in Failed
  PROVE  Decisions[t] \in Failed \/ Stale(t)
<1> DEFINE T == {u \in Tasks : board.reasons[u] \in Failed /\ Decisions[u] \notin Failed /\ ~Stale(u)}
<1>1. T = {}
  <2> SUFFICES ASSUME T # {} PROVE FALSE
    OBVIOUS
  <2>1. Sound(campaign) /\ IsFiniteSet(Tasks) /\ approved
    BY AnswerIs, DecisionsAre, CampaignRunAssumption DEF IInv
  <2>2. PICK u \in T : campaign.deps[u] \cap T = {}
    <3>1. T \in SUBSET Tasks
      OBVIOUS
    <3>2. \A x \in Tasks : x \notin Below(Tasks, campaign.deps, x)
      BY <2>1 DEF Sound
    <3> HIDE DEF T
    <3>. QED  BY <2>1, <3>1, <3>2, Foundation
  <2>3. u \in Tasks /\ board.reasons[u] \in Failed /\ Decisions[u] \notin Failed /\ ~Stale(u)
    BY <2>2
  <2> DEFINE s == Judged(board.lapsed)[u]
             status == campaign.status[u]
             below == Supports(board.reasons, campaign, u)
  <2>4. /\ s = read[u] /\ Seen[u] = leases[u] /\ (Settled(s) => leases[u] = s)
        /\ board.reasons[u] = Decision(status, s, below)
        /\ campaign.deps[u] \subseteq Tasks
    BY <2>3, AnswerIs DEF Stale
  <2>5. Decisions[u] = Decision(status, leases[u], Supports(Decisions, campaign, u))
    BY <2>1, <2>3, <2>4, DecisionsAre DEF IInv
  <2>6. /\ leases[u].status = "none" <=> leases[u].attempt = 0
        /\ leases[u].attempt \in Nat
        /\ leases[u].attempt > 0 =>
             status \notin Complete \cup Failure /\ \A d \in campaign.deps[u] : Done(d)
    BY <2>3 DEF IInv, AllBegun, Begun, Typed, BoardTypeOK, TypeOK, Snapshots
  <2> HIDE DEF T, s, status, below
  <2>7. CASE Alone(status, s) \in {"terminal_failure", "retries_exhausted"} /\ Settled(s)
    <3>1. Alone(status, leases[u]) \in {"terminal_failure", "retries_exhausted"}
      BY <2>4, <2>7
    <3>. QED  BY <2>3, <2>5, <3>1, DecisionFailed
  <2>8. CASE Alone(status, s) \in {"terminal_failure", "retries_exhausted"} /\ ~Settled(s)
    <3>1. status \in Failure /\ status \notin Complete
      BY <2>8 DEF Alone, Settled, Terminal
    <3>2. leases[u].status = "none"
      BY <2>6, <3>1
    <3>3. Alone(status, leases[u]) = "terminal_failure"
      BY <3>1, <3>2 DEF Alone, Terminal, Complete
    <3>. QED  BY <2>3, <2>5, <3>3, DecisionFailed
  <2>9. CASE Alone(status, s) = "open" /\ below \cap Failed # {}
    <3>1. PICK d \in campaign.deps[u] : board.reasons[d] \in Failed
      BY <2>9 DEF below, Supports
    <3>2. d \in Tasks /\ d \notin T
      BY <2>2, <2>4, <3>1
    <3>3. ~Stale(d)
      <4>1. d \in Below(Tasks, campaign.deps, u) /\ Below(Tasks, campaign.deps, d) \subseteq Below(Tasks, campaign.deps, u)
        BY <2>3, <3>1, <3>2, BelowHas
      <4>. QED  BY <2>3, <4>1 DEF Stale
    <3>4. Decisions[d] \in Failed
      BY <3>1, <3>2, <3>3 DEF T
    <3>5. ~Done(d)
      BY <2>1, <3>2, <3>4, DoneIs DEF IInv, Failed
    <3>6. leases[u].status = "none"
      BY <2>6, <3>1, <3>5
    <3>7. status \notin Complete \cup Failure
      BY <2>9, AloneOpen
    <3>8. Alone(status, leases[u]) \in {"open", "retries_exhausted", "terminal_failure"}
      BY <3>6, <3>7 DEF Alone, Complete
    <3>9. Supports(Decisions, campaign, u) \cap Failed # {}
      BY <3>1, <3>4 DEF Supports
    <3>. QED  BY <2>3, <2>5, <3>8, <3>9, DecisionFailed
  <2>10. \/ Alone(status, s) \in {"terminal_failure", "retries_exhausted"}
         \/ Alone(status, s) = "open" /\ below \cap Failed # {}
    BY <2>3, <2>4, DecisionFailed
  <2>. QED  BY <2>7, <2>8, <2>9, <2>10
<1>. QED  BY <1>1

(* The main agent may go by an answer that campaign-status put together from *)
(* state files read one after another without a lock, for as long as it     *)
(* likes: what it calls ready stands on completed work and, if nobody took  *)
(* it since, on a path nobody is busy in; what it calls completed or given  *)
(* up stays so, unless a lease it took for expired was renewed meanwhile    *)
(* (cli.py, campaign-status; scheduler.py).                                *)
THEOREM AnswerKeepsStanding ==
  ASSUME Hazards = {}, RecordedInOrder
  PROVE  BoardSpec => []AnswerStands
<1>1. IInv => ReadyIsSafe
  BY AnswerReady DEF ReadyIsSafe
<1>2. IInv => VerdictsStand
  BY AnswerCompleted, AnswerFailed DEF VerdictsStand, Stale
<1>. QED  BY <1>1, <1>2, IInvHolds, PTL DEF AnswerStands
=============================================================================
