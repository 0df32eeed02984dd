-------------------------- MODULE MCFlowExecutorFaults -------------------------
(***************************************************************************)
(* FlowExecutor when passes fail half-way, on                              *)
(*                                                                         *)
(*   START -> c1 -> {a, b};  a -> z;  b -> z;  z -> END                    *)
(*                                                                         *)
(* Form "both" launches a and b, "one" only a, "none" no branch at all;    *)
(* the approvers of z may resolve to nobody, and the process may stop.     *)
(***************************************************************************)
EXTENDS FlowExecutor

MCNodes == {"s", "c1", "a", "b", "z", "e"}
MCKind  == [n \in MCNodes |-> CASE n = "s" -> "START"
                                [] n = "c1" -> "CONDITION"
                                [] n = "e" -> "END"
                                [] OTHER -> "APPROVAL"]
MCNextOf == [s |-> "c1", a |-> "z", b |-> "z", z |-> "e"]
MCForms == {"both", "one", "none"}
MCBranches == [both |-> [c1 |-> <<"a", "b">>],
               one  |-> [c1 |-> <<"a">>],
               none |-> [c1 |-> << >>]]

MCApprover == [a |-> "u1", b |-> "u2", z |-> "u1"]
MCReuse    == [a |-> FALSE, b |-> TRUE, z |-> FALSE]
MCReject   == [a |-> {"RETURN"}, b |-> {"CLOSE", "SEND"}, z |-> {"SEND"}]
MCTargets  == [a |-> {}, b |-> {"c1"}, z |-> {"c1"}]
================================================================================
