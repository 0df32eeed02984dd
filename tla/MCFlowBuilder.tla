----------------------------- MODULE MCFlowBuilder -----------------------------
(***************************************************************************)
(* Flows with a few nodes besides the form and the end.                    *)
(***************************************************************************)
EXTENDS FlowBuilder, TLC

Symmetric == Permutations(Fresh)
================================================================================
