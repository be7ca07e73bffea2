--------------------------- MODULE MCDecisionStore ---------------------------
(***************************************************************************)
(* DecisionStore for TLC: prediction ids and answers are interchangeable.  *)
(***************************************************************************)
EXTENDS DecisionStore, TLC

Symmetry == Permutations(Ids) \cup Permutations(Answers)
==============================================================================
