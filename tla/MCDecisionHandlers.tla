-------------------------- MODULE MCDecisionHandlers --------------------------
(***************************************************************************)
(* DecisionHandlers for TLC: the versions of the template differ in the     *)
(* answers they offer, and requests are interchangeable.                   *)
(***************************************************************************)
EXTENDS DecisionHandlers

CONSTANTS yes, no, s1, s2

FromDisk == <<s1, s2>>

Offered == [v \in Versions |-> CASE v = 1 -> {yes} [] v = 2 -> {yes, no} [] OTHER -> {no}]

Symmetry == Permutations(Requests)
===============================================================================
