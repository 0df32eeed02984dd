------------------------------- MODULE FlowGraph -------------------------------
(***************************************************************************)
(* The flow definition of a workflow revision: the static graph the flow   *)
(* engine walks.  Its nodes are the START node, the END nodes, APPROVAL    *)
(* nodes (the only ones that leave rows in the database) and CONDITION     *)
(* nodes, which launch every branch whose condition the form data meets.   *)
(***************************************************************************)
EXTENDS Naturals, FiniteSets, SequencesExt

CONSTANTS
  Nodes,      \* node keys
  Kind,       \* the type of each node
  NextOf,     \* the `next` of START and APPROVAL nodes
  Forms,      \* the form contents that conditions can tell apart
  Branches    \* Branches[f][c]: the branches of condition c that form f
              \* selects, in the order in which they are listed; << >> when
              \* none matches and c has no default branch

Of(kind)   == {n \in Nodes : Kind[n] = kind}
Approvals  == Of("APPROVAL")
Conditions == Of("CONDITION")
Linked     == Of("START") \cup Approvals    \* the nodes with a single `next`

(* What the flow validator lets through: one START and edges that stay in  *)
(* the graph ...                                                           *)
WellFormed ==
  /\ IsFiniteSet(Nodes)
  /\ Kind \in [Nodes -> {"START", "CONDITION", "APPROVAL", "END"}]
  /\ \E s \in Nodes : Of("START") = {s}
  /\ NextOf \in [Linked -> Nodes]
  /\ Forms # {}
  /\ Branches \in [Forms -> [Conditions -> Seq(Nodes)]]

ASSUME GraphAssumption == WellFormed

Start == CHOOSE n \in Nodes : Kind[n] = "START"

NextNodes(n) ==
  IF n \in Linked THEN {NextOf[n]}
  ELSE IF n \in Conditions THEN UNION {ToSet(Branches[f][n]) : f \in Forms}
  ELSE {}

findPredecessors(n) == {m \in Nodes : n \in NextNodes(m)}

Several(n) == Cardinality(findPredecessors(n)) > 1

(* Where a walk from n comes to that goes from x to any node of step[x]:   *)
(* the smallest set with n in it that no such step leaves.                 *)
WalkFrom(n, step) ==
  {m \in Nodes : \A S \in SUBSET Nodes :
     n \in S /\ (\A x \in S : step[x] \subseteq S) => m \in S}

Successors   == [n \in Nodes |-> NextNodes(n)]
Predecessors == [n \in Nodes |-> findPredecessors(n)]

Reaches == [n \in Nodes |-> WalkFrom(n, Successors)]

(* m lies strictly before n on some path of the flow.                      *)
Upstream(m, n) == m # n /\ n \in Reaches[m]

(* ... without a cycle, every node being reachable from START.             *)
Acyclic ==
  /\ Reaches[Start] = Nodes
  /\ \A m \in Nodes : \A n \in NextNodes(m) : m \notin Reaches[n]

ASSUME AcyclicAssumption == Acyclic

Joins == {z \in Approvals : Several(z)}

Before(z) == {x \in Nodes : Upstream(x, z)}

(* Whichever branches are taken, an approval where several edges meet is   *)
(* on the way.  (A branch may end without one, at an END or a condition.)  *)
(* The validator does not ask this, but the editor draws no other flows.   *)
NoWayAround ==
  \A z \in Joins : \A x \in Before(z) : NextNodes(x) \subseteq Before(z) \cup {z}

(* Whether the walk back from n meets a row that is still pending.  It     *)
(* passes through conditions and through approvals that have no row yet,   *)
(* and stops at START and at the first row of a path.                      *)
checkPathNeedsWait(n, pending, present) ==
  LET transparent == Conditions \cup (Approvals \ present)
      back == [x \in Nodes |-> IF x \in transparent THEN Predecessors[x] ELSE {}]
  IN  WalkFrom(n, back) \cap pending # {}

(* Mutant: the node waits only while all of its predecessors need it.      *)
shouldWaitForOtherBranches_All(n, pending, present) ==
  /\ Several(n)
  /\ \A p \in findPredecessors(n) : checkPathNeedsWait(p, pending, present)

(* A node where several edges meet waits while any of them needs it.       *)
shouldWaitForOtherBranches(n, pending, present) ==
  /\ Several(n)
  /\ \E p \in findPredecessors(n) : checkPathNeedsWait(p, pending, present)
================================================================================
