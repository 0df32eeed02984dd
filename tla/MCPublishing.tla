----------------------------- MODULE MCPublishing ------------------------------
(***************************************************************************)
(* Editors one at a time, and applicants at any time, or editors who       *)
(* overtake each other.                                                    *)
(***************************************************************************)
EXTENDS Publishing, TLC

CONSTANTS w1, f1, f2

MCRevisions == w1 :> 2 @@ f1 :> 2 @@ f2 :> 1

Symmetric == Permutations(Requests)
================================================================================
