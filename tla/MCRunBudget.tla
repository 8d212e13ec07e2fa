---------------------------- MODULE MCRunBudget ----------------------------
(***************************************************************************)
(* A root agent and one delegated child under small policies.              *)
(***************************************************************************)
EXTENDS RunBudget

CONSTANTS root, kid

TwoThree   == [requests |-> 2, tools |-> 3, wall |-> 2]
SharedAll  == [requests |-> 3, tools |-> 3, wall |-> 3]
OneOne     == [requests |-> 1, tools |-> 1, wall |-> NoLimit]
Roomy      == [requests |-> 3, tools |-> 3, wall |-> NoLimit]
=============================================================================
