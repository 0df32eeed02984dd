---------------------------- MODULE MCFlowExecutor -----------------------------
(***************************************************************************)
(* FlowExecutor on a flow with a fork, a join, a second choice and every   *)
(* reject behaviour:                                                       *)
(*                                                                         *)
(*   START -> c1 -> {a, b};  a -> z;  b -> z;  z -> c2 -> {d | END};       *)
(*   d -> END                                                              *)
(*                                                                         *)
(* Form "both" launches a and b, then d; form "one" launches a, then END.  *)
(***************************************************************************)
EXTENDS FlowExecutor

MCNodes == {"s", "c1", "a", "b", "z", "c2", "d", "e"}
MCKind  == [n \in MCNodes |-> CASE n = "s" -> "START"
                                [] n \in {"c1", "c2"} -> "CONDITION"
                                [] n = "e" -> "END"
                                [] OTHER -> "APPROVAL"]
MCNextOf == [s |-> "c1", a |-> "z", b |-> "z", z |-> "c2", d |-> "e"]
MCForms == {"both", "one"}
MCBranches ==
  [both |-> [c1 |-> <<"a", "b">>, c2 |-> <<"d">>],
   one  |-> [c1 |-> <<"a">>,      c2 |-> <<"e">>]]

MCApprover == [a |-> "u1", b |-> "u2", z |-> "u3", d |-> "u4"]
MCReuse    == [a |-> TRUE, b |-> TRUE, z |-> FALSE, d |-> FALSE]
MCReject   == [a |-> {"RETURN"}, b |-> {"CLOSE", "SEND"}, z |-> {"BACK", "RETURN"}, d |-> {"SEND"}]
MCTargets  == [a |-> {}, b |-> {"c1"}, z |-> {}, d |-> {"z"}]
================================================================================
