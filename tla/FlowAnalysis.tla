------------------------------ MODULE FlowAnalysis -----------------------------
(***************************************************************************)
(* What the flow engine works out of a flow definition: which nodes are    *)
(* executed before a node in any case or possibly, and which were executed *)
(* given the approvals that have rows.  A flow g maps the keys of its      *)
(* nodes to records with a type, a `next` and a list of conditions, each   *)
(* the key of the node its branch leads to.  A set of pairs rejects holds  *)
(* the targets that approval nodes may send an application back to.        *)
(***************************************************************************)
EXTENDS SequencesExt

NodesOf(g, type) == {n \in DOMAIN g : g[n].type = type}

NextNodes(g, n) == IF g[n].type = "condition" THEN ToSet(g[n].conditions) ELSE {g[n].next}

Successors(g) == [n \in DOMAIN g |-> NextNodes(g, n) \cap DOMAIN g]

(* The nodes that are reached from those of S over the edges of f: the     *)
(* smallest set with S in it that no edge leaves.                          *)
Reach(f, S) ==
  LET closed == {T \in SUBSET DOMAIN f : S \subseteq T /\ \A n \in T : f[n] \subseteq T}
  IN  {n \in DOMAIN f : \A T \in closed : n \in T}

buildPredecessorsMap(g, rejects) ==
  [n \in DOMAIN g |-> {m \in DOMAIN g : n \in NextNodes(g, m) \/ <<m, n>> \in rejects}]

(* The nodes of each path back from n on which none comes twice.           *)
findAllPathsToStart(g, rejects, n) ==
  LET preds == buildPredecessorsMap(g, rejects)
      paths[at \in (DOMAIN g) \X SUBSET DOMAIN g] ==
        LET visited == at[2] \cup {at[1]} IN
        IF g[at[1]].type = "form" THEN {{at[1]}}
        ELSE UNION {{{at[1]} \cup p : p \in paths[<<m, visited>>]} : m \in preds[at[1]] \ visited}
  IN  paths[<<n, {}>>]

(* Mutant: the nodes of any path.                                          *)
calculatePathIntersection_Any(paths) == UNION paths

calculatePathIntersection(paths) ==
  {n \in UNION paths : \A p \in paths : n \in p}

findGuaranteedPrecedingNodes(g, rejects, n) ==
  calculatePathIntersection(findAllPathsToStart(g, rejects, n)) \ (NodesOf(g, "form") \cup {n})

findPossiblePrecedingNodes(g, rejects, n) ==
  UNION findAllPathsToStart(g, rejects, n) \ (NodesOf(g, "form") \cup {n})

(* Conditions leave no rows: one was executed if a branch of it was taken, *)
(* which is asked again until no more are found.                           *)
Inferred(g, traversed) ==
  {k \in NodesOf(g, "condition") \ traversed : ToSet(g[k].conditions) \cap traversed # {}}

(* Mutant: conditions that lead to conditions are not looked for.          *)
inferTraversedNodes_Once(g, traversed) == traversed \cup Inferred(g, traversed)

inferTraversedNodes(g, traversed) ==
  LET complete == {T \in SUBSET DOMAIN g : traversed \subseteq T /\ Inferred(g, T) = {}}
  IN  {n \in DOMAIN g : \A T \in complete : n \in T}

findSelectableRejectTargets(g, rejects, completed, n) ==
  inferTraversedNodes(g, completed) \cap findPossiblePrecedingNodes(g, rejects, n)

--------------------------------------------------------------------------------
(* The stage of validation that looks at the whole graph.                  *)
validateNodeNexts(g) == \A n \in DOMAIN g : g[n].type = "end" \/ NextNodes(g, n) \subseteq DOMAIN g

validateReachability(g) == Reach(Successors(g), NodesOf(g, "form")) = DOMAIN g

detectCircularReferences(g) ==
  \E n \in DOMAIN g : n \in Reach(Successors(g), Successors(g)[n])

validateFlowDefinition(g) ==
  /\ \E s \in DOMAIN g : NodesOf(g, "form") = {s}
  /\ \E e \in DOMAIN g : NodesOf(g, "end") = {e}
  /\ \A n \in NodesOf(g, "condition") : g[n].conditions # << >>
  /\ validateNodeNexts(g)
  /\ validateReachability(g)
  /\ ~ detectCircularReferences(g)

--------------------------------------------------------------------------------
(* For reference: the sets of nodes that an application can go through,    *)
(* each condition taking some of its branches.                             *)
Executions(g) ==
  LET Branches == UNION {{k} \X NextNodes(g, k) : k \in NodesOf(g, "condition")}
      SomeLeft(cut) == \A k \in NodesOf(g, "condition") : \E m \in NextNodes(g, k) : <<k, m>> \notin cut
      Taken(cut) == [n \in DOMAIN g |-> {m \in Successors(g)[n] : <<n, m>> \notin cut}]
  IN  {Reach(Taken(cut), NodesOf(g, "form")) : cut \in {c \in SUBSET Branches : SomeLeft(c)}}
================================================================================
