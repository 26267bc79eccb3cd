------------------------------ MODULE StudyProofs ------------------------------
(***************************************************************************)
(* From the freeze to the claim, for every set of fixtures, agents, people  *)
(* and scores: what a stage has checked of the values handed to it still    *)
(* holds when the next one takes them, though the files have moved on.      *)
(***************************************************************************)
EXTENDS Study, FiniteSetTheorems, FunctionTheorems, TLAPS

(* A ledger whose packets are bound is of its freeze for good.             *)
Bound(l) == /\ l \in bound /\ l.freeze \in freezes
            /\ l.scope = l.freeze.manifest /\ l.policies = l.freeze.policies

(* A whole set of attempts at the packets of one ledger.                    *)
Complete(l, as) == /\ l \in bound /\ as \subseteq attempts
                   /\ CoversOnce(as) /\ Distinct(as)
                   /\ \A a \in as : a.packets = l /\ ValidAttempt(a)

(* A dataset has one row for each of them, with records that fit.           *)
Sound(d) == /\ Complete(d.packets, {r.attempt : r \in d.rows})
            /\ \A r, q \in d.rows : r.attempt = q.attempt => r = q
            /\ \A r \in d.rows : r.records \in Records /\ ValidScoring(r.records, r.attempt)

CohortInv == CohortTypeOK /\ \A l \in bound : Bound(l)

AttemptInv == /\ attempts \subseteq Attempts /\ IsFiniteSet(attempts)
              /\ Cardinality(attempts) <= MaxAttempts

HandedOn == /\ \A m \in {manifest, scoring} \ {None} : Complete(m.packets, m.entries)
            /\ dataset # None => Sound(dataset)
            /\ claim # None => /\ Sound(claim.of) /\ claim.joint = JointClaim(claim.of)
                               /\ \A x \in Pairs(claim.of), arm \in Arms :
                                    Elapsed(claim.of, x, arm) > 0

SInv == CohortInv /\ AttemptInv /\ HandedOn

-----------------------------------------------------------------------------
LEMMA CellsFinite == IsFiniteSet(Cells) /\ Cardinality(Cells) \in Nat
<1>1. IsFiniteSet(Arms)
  <2>1. Arms = {"control"} \cup {"treatment"} /\ IsFiniteSet({"control"})
    BY FS_Singleton DEF Arms
  <2>. QED  BY <2>1, FS_AddElement
<1>. QED  BY <1>1, CohortAssumption, FS_Product, FS_CardinalityType DEF Cells

(* The wave of the i-th of n cells is one of the waves.                     *)
LEMMA WaveIsOne ==
  ASSUME NEW n \in Nat, NEW i \in 1..n, NEW w \in Nat \ {0}
  PROVE  (i - 1) \div w + 1 \in 1..((n + w - 1) \div w)
<1> DEFINE q == (i - 1) \div w  t == (n + w - 1) \div w
<1>1. /\ q \in Nat /\ w * q <= i - 1
      /\ t \in Nat /\ n + w - 1 < w * t + w
  OBVIOUS
<1>2. ASSUME t <= q PROVE FALSE
  <2>1. w * t <= w * q
    BY <1>1, <1>2
  <2>. QED  BY <1>1, <2>1
<1>. QED  BY <1>1, <1>2

LEMMA RankedIs ==
  ASSUME NEW by \in DOMAIN Order
  PROVE  Ranked(by) \in Entries
<1> DEFINE n == Cardinality(Cells)
           Place(c) == CHOOSE i \in 1..Len(Order[by]) : Order[by][i] = c
<1>1. n \in Nat /\ Len(Order[by]) = n /\ WaveSize \in Nat \ {0}
  BY CellsFinite, CohortAssumption
<1>2. ASSUME NEW c \in Cells PROVE Place(c) \in 1..n
  BY <1>1, CohortAssumption
<1>3. ASSUME NEW c \in Cells
      PROVE  [execution_order |-> Place(c), wave |-> (Place(c) - 1) \div WaveSize + 1]
               \in [execution_order : 1..n, wave : Waves]
  <2>1. (Place(c) - 1) \div WaveSize + 1 \in Waves
    BY <1>1, <1>2, WaveIsOne DEF Waves
  <2>. QED  BY <1>2, <2>1
<1>. QED  BY <1>3 DEF Ranked, Entries

LEMMA CohortStep ==
  ASSUME CohortInv, [CohortNext]_cohortVars
  PROVE  /\ CohortInv' /\ bound \subseteq bound'
<1> USE DEF CohortInv
<1>1. ASSUME freezes \subseteq freezes', UNCHANGED bound
      PROVE  \A l \in bound' : Bound(l)'
  BY <1>1 DEF Bound
<1>2. CASE Edit
  <2>1. disk' \in [Material -> Versions] /\ edits' \in 0..MaxEdits
    BY <1>2, CohortAssumption DEF Edit, CohortTypeOK, Material
  <2>. QED  BY <1>1, <1>2, <2>1 DEF Edit, CohortTypeOK
<1>3. CASE BeginFreeze
  BY <1>1, <1>3 DEF BeginFreeze, CohortTypeOK, Material
<1>4. ASSUME NEW by \in {"study", "cohort"}, draft # None,
             freezes' = freezes \cup {Frozen(by)}, draft' = None,
             UNCHANGED <<disk, edits, raw, ledgers, bound>>
      PROVE  CohortInv' /\ bound \subseteq bound'
  <2>1. Frozen(by) \in Freezes
    BY <1>4, CohortAssumption DEF Frozen, Freezes, CohortTypeOK, Material
  <2>. QED  BY <1>1, <1>4, <2>1 DEF CohortTypeOK
<1>5. CASE BuildStudyFreeze \/ RegisterFreeze
  BY <1>4, <1>5 DEF BuildStudyFreeze, RegisterFreeze
<1>6. CASE DropFreeze
  BY <1>1, <1>6 DEF DropFreeze, CohortTypeOK
<1>7. ASSUME NEW o \in Outputs, OpenRaw(o) \/ WriteRaw(o)
      PROVE  CohortInv' /\ bound \subseteq bound'
  <2>1. /\ raw' \in [Outputs -> RawSets]
        /\ UNCHANGED <<disk, edits, draft, freezes, ledgers, bound>>
    BY <1>7 DEF OpenRaw, WriteRaw, CohortTypeOK, RawSets
  <2>. QED  BY <1>1, <2>1 DEF CohortTypeOK
<1>8. CASE BuildLedger
  <2>1. PICK f \in freezes :
          ledgers' = ledgers \cup {[freeze |-> f, scope |-> disk["manifest"],
                                    policies |-> disk["policies"], entries |-> Ranked("study")]}
    BY <1>8 DEF BuildLedger
  <2>2. Ranked("study") \in Entries
    BY RankedIs, CohortAssumption
  <2>3. [freeze |-> f, scope |-> disk["manifest"], policies |-> disk["policies"],
         entries |-> Ranked("study")] \in Ledgers
    BY <2>2 DEF Ledgers, CohortTypeOK, Material
  <2>. QED  BY <1>1, <1>8, <2>1, <2>3 DEF BuildLedger, CohortTypeOK
<1>9. CASE BindPacketSet
  <2>1. PICK f \in freezes, l \in ledgers : AllocationLineage(f, l) /\ bound' = bound \cup {l}
    BY <1>9 DEF BindPacketSet
  <2>2. Bound(l)'
    BY <1>9, <2>1 DEF BindPacketSet, AllocationLineage, Bound
  <2>. QED  BY <1>9, <2>1, <2>2 DEF BindPacketSet, CohortTypeOK, Bound
<1>10. CASE UNCHANGED cohortVars
  BY <1>1, <1>10 DEF cohortVars, CohortTypeOK
<1>. QED  BY <1>2, <1>3, <1>5, <1>6, <1>7, <1>8, <1>9, <1>10 DEF CohortNext
-----------------------------------------------------------------------------
(* Attempts that were complete for a ledger stay so.                       *)
LEMMA CompleteStays ==
  ASSUME NEW l, NEW as, Complete(l, as), bound \subseteq bound', attempts \subseteq attempts'
  PROVE  Complete(l, as)'
  BY DEF Complete

LEMMA HandedOnStays ==
  ASSUME SInv, bound \subseteq bound', attempts \subseteq attempts'
  PROVE  /\ \A m \in {manifest, scoring} \ {None} : Complete(m.packets, m.entries)'
         /\ \A d : Sound(d) => Sound(d)'
<1>1. \A l, as : Complete(l, as) => Complete(l, as)'
  BY CompleteStays
<1>. QED  BY <1>1 DEF SInv, HandedOn, Sound

LEMMA StudyStep == SInv /\ [Next]_vars => SInv'
<1> SUFFICES ASSUME SInv, [Next]_vars PROVE SInv'
  OBVIOUS
<1> USE DEF SInv
<1>1. CohortInv' /\ bound \subseteq bound'
  BY CohortStep DEF Next, vars, Prepare, Record, BuildManifest, Packetize, BuildDataset, Analyze,
                    cohortVars
<1>2. ASSUME UNCHANGED <<attempts, manifest, scoring, dataset, claim>> PROVE SInv'
  <2>1. AttemptInv'
    BY <1>2 DEF AttemptInv
  <2>2. HandedOn'
    BY <1>1, <1>2, HandedOnStays DEF HandedOn
  <2>. QED  BY <1>1, <2>1, <2>2
<1>3. CASE Record
  <2>1. PICK a \in Attempts : attempts' = attempts \cup {a}
    BY <1>3 DEF Record, Attempts, CohortInv, CohortTypeOK
  <2>2. Cardinality(attempts) \in Nat /\ Cardinality(attempts) < MaxAttempts
    BY <1>3, FS_CardinalityType DEF Record, AttemptInv
  <2>3. /\ IsFiniteSet(attempts \cup {a})
        /\ Cardinality(attempts \cup {a}) \in {Cardinality(attempts), Cardinality(attempts) + 1}
    BY FS_AddElement DEF AttemptInv
  <2>4. AttemptInv'
    BY <2>1, <2>2, <2>3, StudyAssumption DEF AttemptInv
  <2>5. HandedOn'
    BY <1>1, <1>3, <2>1, HandedOnStays DEF HandedOn, Record
  <2>. QED  BY <1>1, <2>4, <2>5
<1>4. CASE BuildManifest
  <2>1. PICK f \in freezes, l \in ledgers, as \in SUBSET attempts :
          /\ PacketLineage(f, l) /\ CoversOnce(as) /\ Distinct(as)
          /\ \A a \in as : a.packets = l /\ ValidAttempt(a)
          /\ manifest' = [packets |-> l, entries |-> as]
    BY <1>4 DEF BuildManifest
  <2>2. UNCHANGED <<cohortVars, attempts, scoring, dataset, claim>>
    BY <1>4 DEF BuildManifest
  <2>3. Complete(l, as)
    BY <2>1 DEF Complete, PacketLineage
  <2>4. Complete(l, as)'
    BY <1>1, <2>2, <2>3, CompleteStays
  <2>5. manifest'.packets = l /\ manifest'.entries = as
    BY <2>1
  <2>6. HandedOn'
    BY <1>1, <2>2, <2>4, <2>5, HandedOnStays DEF HandedOn
  <2>. QED  BY <1>1, <2>2, <2>6 DEF AttemptInv
<1>5. CASE Packetize
  BY <1>1, <1>5, HandedOnStays DEF Packetize, AttemptInv, HandedOn
<1>6. CASE BuildDataset
  <2>1. PICK records \in [manifest.entries -> Records] :
          /\ \A a \in manifest.entries : ValidScoring(records[a], a)
          /\ dataset' = [packets |-> manifest.packets,
                         rows |-> {[attempt |-> a, records |-> records[a]] : a \in manifest.entries}]
    BY <1>6 DEF BuildDataset
  <2>2. Complete(manifest.packets, manifest.entries)
    BY <1>6 DEF BuildDataset, HandedOn
  <2>3. PICK d : d = dataset'
    OBVIOUS
  <2>4. /\ d.packets = manifest.packets
        /\ \A r \in d.rows : /\ r.attempt \in manifest.entries
                             /\ r.records = records[r.attempt]
        /\ \A r, q \in d.rows : r.attempt = q.attempt => r = q
        /\ \A a \in manifest.entries : \E r \in d.rows : r.attempt = a
    <3> DEFINE Of(a) == [attempt |-> a, records |-> records[a]]
    <3>1. d.packets = manifest.packets /\ d.rows = {Of(a) : a \in manifest.entries}
      BY <2>1, <2>3
    <3>2. \A a : Of(a).attempt = a /\ Of(a).records = records[a]
      OBVIOUS
    <3>3. \A r \in d.rows : \E a \in manifest.entries : r = Of(a)
      BY <3>1
    <3>4. \A a \in manifest.entries : Of(a) \in d.rows
      BY <3>1
    <3> HIDE DEF Of
    <3>5. \A r \in d.rows : r.attempt \in manifest.entries /\ r.records = records[r.attempt]
      BY <3>2, <3>3
    <3>6. \A r, q \in d.rows : r.attempt = q.attempt => r = q
      BY <3>2, <3>3
    <3>7. \A a \in manifest.entries : \E r \in d.rows : r.attempt = a
      BY <3>2, <3>4
    <3>. QED  BY <3>1, <3>5, <3>6, <3>7
  <2>5. {r.attempt : r \in d.rows} = manifest.entries
    BY <2>4
  <2>6. Sound(d)
    BY <2>1, <2>2, <2>4, <2>5 DEF Sound
  <2>7. UNCHANGED <<cohortVars, attempts, manifest, scoring, claim>>
    BY <1>6 DEF BuildDataset
  <2>8. HandedOn'
    BY <1>1, <2>3, <2>6, <2>7, HandedOnStays DEF HandedOn
  <2>. QED  BY <1>1, <2>7, <2>8 DEF AttemptInv
<1>7. CASE Analyze
  BY <1>1, <1>7, HandedOnStays DEF Analyze, AttemptInv, HandedOn
<1>. QED
  BY <1>2, <1>3, <1>4, <1>5, <1>6, <1>7 DEF Next, Prepare, vars

LEMMA StudyInit == Init => SInv
<1> SUFFICES ASSUME Init PROVE SInv
  OBVIOUS
<1>1. CohortInv
  BY CohortAssumption DEF Init, CohortInit, CohortInv, CohortTypeOK, RawSets
<1>2. AttemptInv /\ HandedOn
  BY StudyAssumption, FS_EmptySet DEF Init, AttemptInv, HandedOn
<1>. QED  BY <1>1, <1>2 DEF SInv

LEMMA StudyInvariant == Spec => []SInv
<1>. QED  BY StudyInit, StudyStep, PTL DEF Spec

-----------------------------------------------------------------------------
(* A complete set of attempts has as many as there are cells.              *)
LEMMA CompleteCounts ==
  ASSUME SInv, NEW l, NEW as, Complete(l, as)
  PROVE  /\ IsFiniteSet(as) /\ Cardinality(as) = Cardinality(Cells)
         /\ Cardinality({a.agent : a \in as}) = Cardinality(Cells)
         /\ \A c \in Cells : Cardinality({a \in as : a.cell = c}) = 1
<1>1. /\ IsFiniteSet(as) /\ \A a, b \in as : a.cell = b.cell => a = b
      /\ {a.cell : a \in as} = Cells
      /\ \A a, b \in as : a.agent = b.agent => a = b
  BY FS_Subset DEF SInv, AttemptInv, Complete, CoversOnce, OnePerCell, Distinct
<1>2. Cardinality(Cells) = Cardinality(as)
  <2>1. [a \in as |-> a.cell] \in Bijection(as, Cells)
    BY <1>1, Fun_IsBij
  <2>. QED  BY <1>1, <2>1, FS_Bijection, Fun_ExistsBij
<1>3. Cardinality({a.agent : a \in as}) = Cardinality(as)
  <2>1. [a \in as |-> a.agent] \in Bijection(as, {a.agent : a \in as})
    BY <1>1, Fun_IsBij
  <2>. QED  BY <1>1, <2>1, FS_Bijection, Fun_ExistsBij
<1>4. ASSUME NEW c \in Cells PROVE Cardinality({a \in as : a.cell = c}) = 1
  <2>1. PICK a \in as : a.cell = c
    BY <1>1
  <2>2. {b \in as : b.cell = c} = {a}
    BY <1>1, <2>1
  <2>. QED  BY <2>2, FS_Singleton
<1>. QED  BY <1>1, <1>2, <1>3, <1>4

(* Every stage hands on values of its type, one lineage, each cell once.    *)
THEOREM StudyTypeCorrect == Spec => []TypeOK
<1>1. SInv => TypeOK
  <2> SUFFICES ASSUME SInv PROVE TypeOK
    OBVIOUS
  <2>1. ASSUME NEW m \in {manifest, scoring} \ {None}
        PROVE  /\ m.packets \in bound /\ m.entries \subseteq attempts
               /\ \A c \in Cells : Cardinality({a \in m.entries : a.cell = c}) = 1
    <3>1. Complete(m.packets, m.entries)
      BY DEF SInv, HandedOn
    <3>. QED  BY <3>1, CompleteCounts DEF Complete
  <2>2. dataset # None => /\ dataset.packets \in bound
                          /\ \A r \in dataset.rows : r.attempt \in attempts /\ r.records \in Records
    BY DEF SInv, HandedOn, Sound, Complete
  <2>3. claim # None => claim.joint \in {"supported", "falsified", "inconclusive"}
    <3>1. \A d : JointClaim(d) \in {"supported", "falsified", "inconclusive"}
      BY DEF JointClaim
    <3>. QED  BY <3>1 DEF SInv, HandedOn
  <2>. QED  BY <2>1, <2>2, <2>3 DEF TypeOK, SInv, CohortInv, AttemptInv
<1>. QED  BY <1>1, StudyInvariant, PTL

(* The records of a valid scoring, in their order.                         *)
LEMMA ScoringIsOrdered ==
  ASSUME NEW s \in Records, NEW a, ValidScoring(s, a)
  PROVE  /\ Cardinality({s.scorers[1], s.scorers[2], s.adjudicator}) = 3
         /\ \A i \in 1..2 : /\ s.committed[i] < s.guessed[i] /\ s.guessed[i] < s.resolved
                           /\ s.resolved < s.revealed
         /\ s.arm = Arm(a)
         /\ a.end.critical => s.total = 0
<1>1. /\ s.committed \in [1..2 -> Nat] /\ s.guessed \in [1..2 -> Nat]
      /\ s.resolved \in Nat /\ s.revealed \in Nat
  BY StudyAssumption DEF IsScoring
<1>2. Cardinality({s.scorers[1], s.scorers[2], s.adjudicator}) = 3
  <2> DEFINE two == {s.scorers[1]} \cup {s.scorers[2]}
  <2>1. /\ s.scorers[2] \notin {s.scorers[1]} /\ s.adjudicator \notin two
        /\ two \cup {s.adjudicator} = {s.scorers[1], s.scorers[2], s.adjudicator}
    BY DEF ValidScoring
  <2>2. IsFiniteSet({s.scorers[1]}) /\ Cardinality({s.scorers[1]}) = 1
    BY FS_Singleton
  <2>3. IsFiniteSet(two) /\ Cardinality(two) = 2
    <3>1. Cardinality(two) = Cardinality({s.scorers[1]}) + 1 /\ IsFiniteSet(two)
      BY <2>1, <2>2, FS_AddElement
    <3>. QED  BY <2>2, <3>1
  <2>4. Cardinality(two \cup {s.adjudicator}) = Cardinality(two) + 1
    BY <2>1, <2>3, FS_AddElement
  <2>. QED  BY <2>1, <2>3, <2>4
<1>3. \A i \in 1..2 : /\ s.committed[i] < s.guessed[i] /\ s.guessed[i] < s.resolved
                      /\ s.resolved < s.revealed
  BY <1>1 DEF ValidScoring, AdjudicatedAfterGuesses
<1>. QED  BY <1>2, <1>3 DEF ValidScoring

(* Three people settle a row, each in their turn, and then the arm is told.  *)
THEOREM ArmIsToldLast == Spec => []RevealComesLast
<1>1. SInv => RevealComesLast
  <2> SUFFICES ASSUME SInv,
                      NEW d \in ({dataset} \ {None}) \cup {c.of : c \in {claim} \ {None}},
                      NEW r \in d.rows
               PROVE  r.records \in Records /\ ValidScoring(r.records, r.attempt)
    BY ScoringIsOrdered DEF RevealComesLast
  <2>1. Sound(d)
    BY DEF SInv, HandedOn
  <2>. QED  BY <2>1 DEF Sound
<1>. QED  BY <1>1, StudyInvariant, PTL

(* A supported claim is made of pairs whose two attempts have both ended.   *)
LEMMA SupportedIsClean ==
  ASSUME SInv, NEW d, Sound(d), JointClaim(d) = "supported",
         \A x \in Pairs(d), arm \in Arms : Elapsed(d, x, arm) > 0,
         NEW r \in d.rows
  PROVE  ~r.attempt.end.censored /\ ~r.attempt.end.critical /\ r.attempt.end.elapsed \in 1..Limit
<1> DEFINE a == r.attempt
<1>1. Pairs(d) = Fixtures /\ Criticals(d) = {}
  BY DEF JointClaim
<1>2. /\ a \in Attempts /\ ValidAttempt(a)
      /\ \A p, q \in d.rows : p.attempt.cell = q.attempt.cell => p = q
  BY DEF Sound, Complete, CoversOnce, OnePerCell, SInv, AttemptInv
<1>3. PICK x \in Fixtures, arm \in Arms : a.cell = <<x, arm>>
  BY <1>2 DEF Attempts, Cells
<1>4. Row(d, x, arm) = r
  BY <1>2, <1>3 DEF Row
<1>5. ~a.end.censored /\ a.end.elapsed > 0
  BY <1>1, <1>3, <1>4 DEF Pairs, Evaluable, Elapsed
<1>6. ~a.end.critical
  BY <1>1 DEF Criticals
<1>7. a.end.elapsed \in 0..Limit
  BY <1>2, <1>5, StudyAssumption DEF ValidAttempt, Attempts
<1>. QED  BY <1>5, <1>6, <1>7, StudyAssumption

(* A claim rests on one lineage, and on every cell once.                    *)
THEOREM ClaimRestsOnOneLineage == Spec => []ClaimIsWhole
<1>1. SInv => ClaimIsWhole
  <2> SUFFICES ASSUME SInv, claim # None PROVE ClaimIsWhole
    BY DEF ClaimIsWhole
  <2> DEFINE as == {r.attempt : r \in claim.of.rows}
             l == claim.of.packets
  <2>1. Sound(claim.of) /\ Complete(l, as)
    BY DEF SInv, HandedOn, Sound
  <2>2. /\ l.freeze \in freezes
        /\ l.scope = l.freeze.manifest /\ l.policies = l.freeze.policies
    BY <2>1 DEF SInv, CohortInv, Complete, Bound
  <2>3. /\ Cardinality(as) = Cardinality(Cells) /\ {a.cell : a \in as} = Cells
        /\ Cardinality({a.agent : a \in as}) = Cardinality(Cells)
        /\ \A a \in as : a.packets = l
    BY <2>1, CompleteCounts DEF Complete, CoversOnce
  <2>4. claim.joint = "supported" =>
          \A a \in as : ~a.end.censored /\ ~a.end.critical /\ a.end.elapsed \in 1..Limit
    BY <2>1, SupportedIsClean DEF SInv, HandedOn
  <2>. QED  BY <2>2, <2>3, <2>4 DEF ClaimIsWhole
<1>. QED  BY <1>1, StudyInvariant, PTL
=============================================================================
