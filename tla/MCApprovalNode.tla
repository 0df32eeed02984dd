---------------------------- MODULE MCApprovalNode -----------------------------
(***************************************************************************)
(* Cases of ApprovalNode.                                                  *)
(***************************************************************************)
EXTENDS ApprovalNode

Of(type, reuse, users) == [type |-> type, reuse |-> reuse, users |-> users]
Case(logic, prior, approvers) == [logic |-> logic, prior |-> prior, approvers |-> approvers]

MCUsers == {"u1", "u2", "u3"}
Three == <<"u1", "u2", "u3">>

(* One approver of each type, whoever has approved before.                 *)
Single ==
  {Case("AND", prior, <<Of(type, TRUE, Three)>>) :
     prior \in SUBSET MCUsers, type \in ApproverTypes}

(* Two groups of any two types, that share user u2.                        *)
Parallel(logics, priors) ==
  {Case(logic, prior, <<Of(first, TRUE, <<"u1", "u2">>), Of(second, FALSE, <<"u2", "u3">>)>>) :
     logic \in logics, prior \in priors, first \in ApproverTypes, second \in ApproverTypes}

(* Alternatives are examined where no prior approval completes one: the    *)
(* executor does not cancel the other then.                                *)
OneAtATime ==
  Single \cup Parallel({"AND"}, SUBSET MCUsers) \cup Parallel({"OR"}, {{}})

(* Requests at the same time, without reporting lines: a task of a line    *)
(* that is approved by two requests promotes two tasks.                    *)
Unordered ==
  {c \in OneAtATime : \A a \in ToSet(c.approvers) : a.type # "LINE"}

AllCase  == {Case("AND", {}, <<Of("ALL", TRUE, <<"u1", "u2">>)>>)}

================================================================================
