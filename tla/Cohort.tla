-------------------------------- MODULE Cohort --------------------------------
(***************************************************************************)
(* The preparation of a controlled study: science_repo/cohort_freeze.py and *)
(* subject_packets.py with `science subject-packets-build`, and freeze_v2.py *)
(* and allocate_v2.py of experiments/self-bootstrap-effectiveness-v2.  The  *)
(* material of the study is frozen by its digests, its cells are put into an *)
(* order, and each cell gets a packet; all of these are values that are     *)
(* handed on, while the material stays in files that anyone may edit.       *)
(***************************************************************************)
EXTENDS Integers, FiniteSets, Sequences

CONSTANTS Fixtures,  \* the tasks of the study
          Order,     \* how a seed ranks the cells, for each way to rank them
          WaveSize,  \* how many cells a wave has
          Versions,  \* what a file of the material may contain
          Original,  \* what it contains at first
          Outputs,   \* paths for subject packet sets
          None,      \* no value
          MaxFreezes, \* bound: how many freezes are made
          MaxEdits   \* bound: how often the material is edited

Arms == {"control", "treatment"}

Cells == Fixtures \X Arms

Waves == 1..((Cardinality(Cells) + WaveSize - 1) \div WaveSize)

ASSUME CohortAssumption ==
  /\ IsFiniteSet(Fixtures)
  /\ WaveSize \in Nat \ {0} /\ MaxFreezes \in Nat /\ MaxEdits \in Nat
  /\ Original \in Versions
  /\ DOMAIN Order = {"cohort", "study"}
  /\ \A by \in DOMAIN Order :
       /\ Len(Order[by]) = Cardinality(Cells)
       /\ {Order[by][i] : i \in 1..Len(Order[by])} = Cells

VARIABLES disk,    \* the prompts of the fixtures, their manifest, the arm policies
          edits,   \* how often they were edited
          draft,   \* a freeze that has read the prompts
          freezes, \* the freezes there are
          raw,     \* the subject packet sets as written
          ledgers, \* the allocation ledgers
          bound    \* the ledgers whose packets are bound to them

cohortVars == <<disk, edits, draft, freezes, raw, ledgers, bound>>

-----------------------------------------------------------------------------
(* A freeze is registered, or built for the study with its own ranking.     *)
Freezes == [by : DOMAIN Order, prompts : Versions, manifest : Versions, policies : Versions]

(* The rows of a ledger: the place of each cell and its wave.               *)
Ranked(by) == [c \in Cells |-> LET i == CHOOSE i \in 1..Len(Order[by]) : Order[by][i] = c
                               IN [execution_order |-> i, wave |-> (i - 1) \div WaveSize + 1]]

Entries == [Cells -> [execution_order : 1..Cardinality(Cells), wave : Waves]]

Ledgers == [freeze : Freezes, scope : Versions, policies : Versions, entries : Entries]

RawSets == [at : {"none"}, of : {None}] \cup [at : {"open", "torn", "whole"}, of : Freezes]

Material == {"prompts", "manifest", "policies"}

CohortInit == /\ disk = [file \in Material |-> Original]
              /\ edits = 0
              /\ draft = None
              /\ freezes = {}
              /\ raw = [o \in Outputs |-> [at |-> "none", of |-> None]]
              /\ ledgers = {} /\ bound = {}

-----------------------------------------------------------------------------
Edit == /\ edits < MaxEdits
        /\ edits' = edits + 1
        /\ \E file \in DOMAIN disk : \E v \in Versions \ {disk[file]} :
             disk' = [disk EXCEPT ![file] = v]
        /\ UNCHANGED <<draft, freezes, raw, ledgers, bound>>

(* The materials are digested one after another, the prompts first and what  *)
(* is registered with them, the manifest and the policies, last.            *)
BeginFreeze == /\ draft = None /\ Cardinality(freezes) < MaxFreezes
               /\ draft' = disk["prompts"]
               /\ UNCHANGED <<disk, edits, freezes, raw, ledgers, bound>>

Frozen(by) == [by |-> by, prompts |-> draft, manifest |-> disk["manifest"],
               policies |-> disk["policies"]]

(* A freeze for the study is handed to the caller.                         *)
BuildStudyFreeze == /\ draft # None /\ draft' = None
                    /\ freezes' = freezes \cup {Frozen("study")}
                    /\ UNCHANGED <<disk, edits, raw, ledgers, bound>>

(* There is one path to register at, which the first freeze takes for good; *)
(* the same one again is accepted, another one refused.                    *)
RegisterFreeze == /\ draft # None /\ draft' = None
                  /\ \A f \in freezes : f.by = "cohort" => f = Frozen("cohort")
                  /\ freezes' = freezes \cup {Frozen("cohort")}
                  /\ UNCHANGED <<disk, edits, raw, ledgers, bound>>

(* The freeze is refused, or a file cannot be read.                        *)
DropFreeze == /\ draft # None /\ draft' = None
              /\ UNCHANGED <<disk, edits, freezes, raw, ledgers, bound>>

(* The packets are computed from the freeze and the very prompts it froze, a *)
(* new file is opened, and then written.                                   *)
OpenRaw(o) ==
  /\ raw[o].at = "none"
  /\ \E f \in freezes : /\ disk["prompts"] = f.prompts
                        /\ raw' = [raw EXCEPT ![o] = [at |-> "open", of |-> f]]
  /\ UNCHANGED <<disk, edits, draft, freezes, ledgers, bound>>

(* The process may die, or the write fail.                                 *)
WriteRaw(o) == /\ raw[o].at = "open"
               /\ \E at \in {"whole", "torn"} : raw' = [raw EXCEPT ![o] = [at |-> at, of |-> @.of]]
               /\ UNCHANGED <<disk, edits, draft, freezes, ledgers, bound>>

(* A policy is taken from its file, which must be the frozen one.           *)
Policy(f) == disk["policies"] = f.policies

(* The caller brings the manifest's fixtures, whose write scopes go into the *)
(* ledger.                                                                *)
BuildLedger ==
  /\ \E f \in freezes :
       /\ Policy(f)
       /\ f.by = "study"
       /\ ledgers' = ledgers \cup {[freeze |-> f, scope |-> disk["manifest"],
                                    policies |-> disk["policies"], entries |-> Ranked("study")]}
  /\ UNCHANGED <<disk, edits, draft, freezes, raw, bound>>

(* The manifest, as it is now, is compared with the freeze, and what the     *)
(* ledger says of the fixtures with the manifest; nobody reads the prompts. *)
AllocationLineage(f, l) ==
  /\ l.freeze = f
  /\ disk["manifest"] = f.manifest /\ l.scope = disk["manifest"]
  /\ l.policies = f.policies
  /\ \A c \in Cells : /\ Order[f.by][l.entries[c].execution_order] = c
                      /\ l.entries[c].wave = (l.entries[c].execution_order - 1) \div WaveSize + 1

(* The packets of a file are bound to a ledger.                            *)
BindPacketSet ==
  /\ \E f \in freezes, l \in ledgers, o \in Outputs :
       /\ AllocationLineage(f, l)
       /\ raw[o].at = "whole" /\ raw[o].of = f
       /\ Policy(f) /\ disk["policies"] = l.policies
       /\ disk["manifest"] = l.scope
       /\ bound' = bound \cup {l}
  /\ UNCHANGED <<disk, edits, draft, freezes, raw, ledgers>>

(* The same again, whenever packets are used.                              *)
PacketLineage(f, l) == AllocationLineage(f, l) /\ l \in bound

CohortNext == \/ Edit \/ BeginFreeze \/ BuildStudyFreeze \/ RegisterFreeze \/ DropFreeze
              \/ BuildLedger \/ BindPacketSet
              \/ \E o \in Outputs : OpenRaw(o) \/ WriteRaw(o)

-----------------------------------------------------------------------------
(* What is kept is of its type.                                            *)
CohortTypeOK ==
  /\ disk \in [Material -> Versions]
  /\ edits \in 0..MaxEdits
  /\ draft \in Versions \cup {None}
  /\ freezes \subseteq Freezes
  /\ raw \in [Outputs -> RawSets]
  /\ ledgers \subseteq Ledgers /\ bound \subseteq ledgers
=============================================================================
