------------------------------ MODULE MCDispatch ------------------------------
(* Dispatch on a small instance: two policies that differ in what they pin  *)
(* and how long they last, and packet sets of two freezes and two cohorts. *)
EXTENDS Dispatch, TLC

CONSTANTS p1, p2, s1, c1, c2

MCPolicies ==
  {[cohort |-> "a", selected |-> 0, expires |-> 2, head |-> c1, seconds |-> 3],
   [cohort |-> "a", selected |-> 1, expires |-> 9, head |-> c2, seconds |-> 1]}

MCPacketSets == {[cohort |-> "a", freeze |-> "f1"], [cohort |-> "b", freeze |-> "f2"]}

MCEnvironments ==
  {[session |-> "native", child |-> "yes", full |-> TRUE],
   [session |-> s1, child |-> "yes", full |-> TRUE],
   [session |-> None, child |-> "no", full |-> FALSE]}

MCSymmetry == Permutations({p1, p2})
=============================================================================
