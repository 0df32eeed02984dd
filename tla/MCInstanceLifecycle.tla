-------------------------- MODULE MCInstanceLifecycle --------------------------
(***************************************************************************)
(* Small flows for InstanceLifecycle: nothing to approve, one approval,    *)
(* two in parallel, and a stage before or after them.                      *)
(***************************************************************************)
EXTENDS InstanceLifecycle

MCApprovals == {"a", "b", "c"}

MCFlows ==
  {<< >>, <<{"a"}>>, <<{"a", "b"}>>, <<{"c"}, {"a", "b"}>>, <<{"a", "b"}, {"c"}>>}

Parallel == {<<{"a", "b"}>>}
================================================================================
