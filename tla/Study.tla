-------------------------------- MODULE Study --------------------------------
(***************************************************************************)
(* From the attempts of a study to its claim: verify_attempts.py,           *)
(* packetize_scoring_v2.py, ingest_adjudicated_v2.py and analyze.py of      *)
(* experiments/self-bootstrap-effectiveness-v2.  Each stage takes what was  *)
(* handed to it, checks that it belongs together, and hands on; whoever     *)
(* calls may bring an attempt twice, of another packet set, one that broke  *)
(* off, a manifest that was replaced meanwhile, records written in any      *)
(* order.                                                                  *)
(***************************************************************************)
EXTENDS Cohort, FiniteSetsExt

CONSTANTS Agents,     \* who carries an attempt out; its sessions with it
          Ends,       \* how an attempt may have ended
          Limit,      \* the seconds after which an attempt times out
          People,     \* who scores and adjudicates; agents may be among them
          Records,    \* what they may write down, in order or not
          MaxAttempts \* bound: how many attempts are recorded

Arm(a) == a.cell[2]

(* Two scores, each committed and followed by a guess of the arm, and an     *)
(* adjudication with the arm that was then revealed.  Nothing is said of who *)
(* wrote them: an agent who carried an attempt out may be one of People.    *)
IsScoring(s) ==
  /\ DOMAIN s = {"scorers", "committed", "guessed", "adjudicator", "resolved", "total",
                 "revealed", "arm"}
  /\ s.scorers \in [1..2 -> People] /\ s.adjudicator \in People
  /\ s.committed \in [1..2 -> Nat] /\ s.guessed \in [1..2 -> Nat]
  /\ s.resolved \in Nat /\ s.revealed \in Nat
  /\ s.total \in 0..10 /\ s.arm \in Arms

ASSUME StudyAssumption ==
  /\ Limit \in Nat /\ MaxAttempts \in Nat
  /\ None \notin Int
  /\ Ends \subseteq [stop : {"completed", "timeout", "critical-violation", "explicit-block"},
                     critical : BOOLEAN, censored : BOOLEAN,
                     elapsed : 0..Limit \cup {None}, evidence : SUBSET {"setup", "task"}]
  /\ \A s \in Records : IsScoring(s)

VARIABLES attempts, \* the attempts on record
          manifest, \* the manifest of attempts
          scoring,  \* the attempt manifest whose scoring packets there are
          dataset,  \* data/derived/adjudicated-v2.json
          claim     \* what the analysis said of a dataset

vars == <<cohortVars, attempts, manifest, scoring, dataset, claim>>

-----------------------------------------------------------------------------
Attempts == [packets : Ledgers, cell : Cells, agent : Agents, end : Ends]

Init == /\ CohortInit
        /\ attempts = {}
        /\ manifest = None /\ scoring = None /\ dataset = None /\ claim = None

(* The host records an attempt at a cell of a packet set.                   *)
Record == /\ Cardinality(attempts) < MaxAttempts
          /\ \E l \in bound, c \in Cells, agent \in Agents, end \in Ends :
               attempts' = attempts \cup
                             {[packets |-> l, cell |-> c, agent |-> agent, end |-> end]}
          /\ UNCHANGED <<cohortVars, manifest, scoring, dataset, claim>>

(* What an attempt says of itself agrees with itself; an infrastructure     *)
(* failure is as an explicit block.                                        *)
ValidAttempt(a) ==
  /\ a.end.critical <=> a.end.stop = "critical-violation"
  /\ IF a.end.censored
     THEN /\ a.end.stop = "explicit-block"
          /\ a.end.elapsed = None
          /\ a.end.evidence \subseteq {"setup"}
     ELSE /\ a.end.elapsed # None
          /\ a.end.stop = "timeout" <=> a.end.elapsed = Limit
          /\ a.end.evidence = {"setup", "task"}

(* Mutant: it is not checked that every cell has an attempt.              *)
OnePerCell(as) == \A a, b \in as : a.cell = b.cell => a = b

(* One attempt for each packet of the set.                                 *)
CoversOnce(as) == OnePerCell(as) /\ {a.cell : a \in as} = Cells

(* Mutant: identities are told apart within an arm.                        *)
DistinctInArm(as) == \A a, b \in as : a.agent = b.agent /\ Arm(a) = Arm(b) => a = b

(* No agent or session has carried out two of the attempts.                *)
Distinct(as) == \A a, b \in as : a.agent = b.agent => a = b

BuildManifest ==
  /\ \E f \in freezes, l \in ledgers, as \in SUBSET attempts :
       /\ PacketLineage(f, l)
       /\ CoversOnce(as) /\ Distinct(as)
       /\ \A a \in as : a.packets = l /\ ValidAttempt(a)
       /\ manifest' = [packets |-> l, entries |-> as]
  /\ UNCHANGED <<cohortVars, attempts, scoring, dataset, claim>>

(* The scoring packets of exactly the attempts of the manifest, without     *)
(* what tells their arm.                                                   *)
Packetize == /\ manifest # None
             /\ scoring' = manifest
             /\ UNCHANGED <<cohortVars, attempts, manifest, dataset, claim>>

(* Mutant: the adjudication need only follow one of the guesses.           *)
AdjudicatedAfterOneGuess(s) == \E i \in 1..2 : s.resolved > s.guessed[i]

AdjudicatedAfterGuesses(s) == \A i \in 1..2 : s.resolved > s.guessed[i]

(* The records about one attempt's packet.                                 *)
ValidScoring(s, a) ==
  /\ \A i \in 1..2 : s.guessed[i] > s.committed[i]
  /\ s.scorers[1] # s.scorers[2] /\ \A i \in 1..2 : s.adjudicator # s.scorers[i]
  /\ a.end.critical => s.total = 0
  /\ AdjudicatedAfterGuesses(s)
  /\ s.revealed > s.resolved /\ s.arm = Arm(a)

(* The manifest, its scoring packets and the packet set must be of one      *)
(* lineage, each attempt is validated again, and its row takes the records  *)
(* of its packet.                                                          *)
BuildDataset ==
  /\ manifest # None /\ scoring = manifest
  /\ \E f \in freezes : PacketLineage(f, manifest.packets)
  /\ CoversOnce(manifest.entries)
  /\ \A a \in manifest.entries : a.packets = manifest.packets /\ ValidAttempt(a)
  /\ \E records \in [manifest.entries -> Records] :
       /\ \A a \in manifest.entries : ValidScoring(records[a], a)
       /\ dataset' = [packets |-> manifest.packets,
                      rows |-> {[attempt |-> a, records |-> records[a]] : a \in manifest.entries}]
  /\ UNCHANGED <<cohortVars, attempts, manifest, scoring, claim>>

-----------------------------------------------------------------------------
Row(d, fixture, arm) == CHOOSE r \in d.rows : r.attempt.cell = <<fixture, arm>>

Evaluable(r) == ~r.attempt.end.censored

Pairs(d) == {x \in Fixtures : \A arm \in Arms : Evaluable(Row(d, x, arm))}

Elapsed(d, x, arm) == Row(d, x, arm).attempt.end.elapsed

Gain(d, x) == Row(d, x, "treatment").records.total - Row(d, x, "control").records.total

(* The ratios of the elapsed times, over a denominator all fixtures share.  *)
Scale(d) == ProductSet({1} \cup {Elapsed(d, x, "control") : x \in Pairs(d)})

Ratio(d, x) == Elapsed(d, x, "treatment") * (Scale(d) \div Elapsed(d, x, "control"))

Smallest(d, k) ==
  CHOOSE q \in {Ratio(d, x) : x \in Pairs(d)} :
    /\ Cardinality({x \in Pairs(d) : Ratio(d, x) < q}) < k
    /\ Cardinality({x \in Pairs(d) : Ratio(d, x) <= q}) >= k

(* The mean gain is at least 0.5, the median ratio at most 1.25.            *)
Supported(d) ==
  LET n == Cardinality(Pairs(d))
  IN /\ 2 * MapThenSumSet(LAMBDA x : Gain(d, x), Pairs(d)) >= n
     /\ 2 * (Smallest(d, (n + 1) \div 2) + Smallest(d, n \div 2 + 1)) <= 5 * Scale(d)

Criticals(d) == {r \in d.rows : r.attempt.end.critical}

JointClaim(d) ==
  CASE Pairs(d) # Fixtures \/ Criticals(d) # {} -> "inconclusive"
    [] Pairs(d) = Fixtures /\ Criticals(d) = {} /\ Supported(d) -> "supported"
    [] OTHER -> "falsified"

(* An attempt that took no time makes the ratio undefined: no answer.       *)
Analyze == /\ dataset # None
           /\ \A x \in Pairs(dataset), arm \in Arms : Elapsed(dataset, x, arm) > 0
           /\ claim' = [of |-> dataset, joint |-> JointClaim(dataset)]
           /\ UNCHANGED <<cohortVars, attempts, manifest, scoring, dataset>>

Prepare == CohortNext /\ UNCHANGED <<attempts, manifest, scoring, dataset, claim>>

Next == Prepare \/ Record \/ BuildManifest \/ Packetize \/ BuildDataset \/ Analyze

Spec == Init /\ [][Next]_vars

-----------------------------------------------------------------------------
(* The values each stage hands on are of its type; a manifest has every cell *)
(* of one packet set once.                                                 *)
TypeOK ==
  /\ CohortTypeOK
  /\ attempts \subseteq Attempts /\ Cardinality(attempts) <= MaxAttempts
  /\ \A m \in {manifest, scoring} \ {None} :
       /\ m.packets \in bound /\ m.entries \subseteq attempts
       /\ \A c \in Cells : Cardinality({a \in m.entries : a.cell = c}) = 1
  /\ dataset # None => /\ dataset.packets \in bound
                       /\ \A r \in dataset.rows : r.attempt \in attempts /\ r.records \in Records
  /\ claim # None => claim.joint \in {"supported", "falsified", "inconclusive"}

(* A claim rests on one lineage from the freeze to the last row, whatever   *)
(* was edited, repeated or replaced on the way: the rows are attempts at the *)
(* packets of one ledger, one for each planned cell, no two by one agent,   *)
(* and the ledger has the policies and fixtures that were frozen.  A claim  *)
(* that the treatment helps has no cell that broke off or was in breach.    *)
ClaimIsWhole ==
  claim # None =>
    LET as == {r.attempt : r \in claim.of.rows}
        l == claim.of.packets
    IN /\ l.freeze \in freezes
       /\ l.scope = l.freeze.manifest /\ l.policies = l.freeze.policies
       /\ Cardinality(as) = Cardinality(Cells) /\ {a.cell : a \in as} = Cells
       /\ Cardinality({a.agent : a \in as}) = Cardinality(Cells)
       /\ \A a \in as : a.packets = l
       /\ claim.joint = "supported" =>
            \A a \in as : ~a.end.censored /\ ~a.end.critical /\ a.end.elapsed \in 1..Limit

(* Whatever times and names the records brought carry, the rows of a dataset, *)
(* and of one a claim was made of, were settled before the arm was told: two *)
(* people scored, a third one adjudicated after both had committed and       *)
(* guessed, and the reveal, of the arm the row's packet had, is the last of  *)
(* all.  Whether one of the three carried the attempt out, and knew its arm  *)
(* from its packet, no step of the study asks.                              *)
RevealComesLast ==
  \A d \in ({dataset} \ {None}) \cup {c.of : c \in {claim} \ {None}} : \A r \in d.rows :
    LET s == r.records
    IN /\ Cardinality({s.scorers[1], s.scorers[2], s.adjudicator}) = 3
       /\ \A i \in 1..2 : /\ s.committed[i] < s.guessed[i] /\ s.guessed[i] < s.resolved
                         /\ s.resolved < s.revealed
       /\ s.arm = Arm(r.attempt)
       /\ r.attempt.end.critical => s.total = 0
=============================================================================
