------------------------------ MODULE FlowBuilder ------------------------------
(***************************************************************************)
(* The editor of a workflow: a graph of nodes which know the node behind   *)
(* them and the nodes before them, and the edges that are drawn.  Every    *)
(* operation rewrites the nodes and has them laid out, which draws the     *)
(* edges anew.  Connections dragged by hand and the delete key change the  *)
(* edges, or the list of nodes, and not the links.  Approvals, parallel    *)
(* approvals and subflows are edited alike and are one type here.  A flow  *)
(* is saved if it is complete, and comes back with its parents worked out  *)
(* from the saved links.                                                   *)
(***************************************************************************)
EXTENDS FlowAnalysis, Naturals, FiniteSets

CONSTANT Fresh  \* keys of the nodes that are added

ASSUME BuilderAssumption ==
  IsFiniteSet(Fresh) /\ Fresh \cap {"form-node", "end-node", "null"} = {}

VARIABLES
  nodes, edges,
  bypassed  \* history: an edit passed the links of the nodes by

vars == <<nodes, edges, bypassed>>

Keys == Fresh \cup {"form-node", "end-node"}
None == "null"

Node(type, parents, next, conditions) ==
  [type |-> type, parents |-> parents, next |-> next, conditions |-> conditions]

TypeOK ==
  /\ DOMAIN nodes \subseteq Keys
  /\ nodes \in [DOMAIN nodes ->
       [type : {"form", "approval", "condition", "placeholder", "end"}, parents : SUBSET Keys,
        next : Keys \cup {None}, conditions : Seq(Keys \cup {None})]]
  /\ DOMAIN edges = DOMAIN nodes
  /\ \A n \in DOMAIN nodes :
       DOMAIN edges[n] \subseteq Nat /\ edges[n] \in [DOMAIN edges[n] -> DOMAIN nodes]
  /\ bypassed \in BOOLEAN

(* The targets of the edges of a node, one for each branch that leads on.  *)
calculateEdges(g) ==
  [n \in DOMAIN g |->
    RestrictValues(IF g[n].type = "condition" THEN g[n].conditions ELSE <<g[n].next>>,
                   LAMBDA m : m \in DOMAIN g)]

applyLayout(g) == nodes' = g /\ edges' = calculateEdges(g)

initialNodes ==
  [n \in {"form-node", "end-node"} |->
    IF n = "form-node" THEN Node("form", {}, "end-node", << >>)
    ELSE Node("end", {"form-node"}, None, << >>)]

Init == nodes = initialNodes /\ edges = calculateEdges(initialNodes) /\ bypassed = FALSE

NewKey(n) == n \in Fresh \ DOMAIN nodes

(* A condition is added with an empty place.                               *)
NewKeys(type, x, p) == NewKey(x) /\ IF type = "condition" THEN NewKey(p) /\ x # p ELSE x = p

Put(n, node) == [m \in {n} |-> node]
With(g, new) == [n \in DOMAIN g \cup DOMAIN new |-> IF n \in DOMAIN new THEN new[n] ELSE g[n]]

(* A link to one node replaced by a link to another, and likewise a parent.*)
Relinked(s, n, m)     == [i \in DOMAIN s |-> IF s[i] = n THEN m ELSE s[i]]
Reparented(S, n, new) == IF n \in S THEN (S \ {n}) \cup new ELSE S

(* What leads to n leads to m.                                             *)
Redirected(node, n, m) ==
  IF node.type = "condition" THEN [node EXCEPT !.conditions = Relinked(@, n, m)]
  ELSE IF node.next = n THEN [node EXCEPT !.next = m] ELSE node

--------------------------------------------------------------------------------
(* Insertion.                                                              *)

(* A new node, or a new condition whose fallback branch is an empty place. *)
Inserted(type, x, p, parents, next) ==
  IF type = "condition"
  THEN With(Put(x, Node("condition", parents, next, <<p>>)), Put(p, Node("placeholder", {x}, next, << >>)))
  ELSE Put(x, Node(type, parents, next, << >>))

LinkOf(type, x, p) == IF type = "condition" THEN p ELSE x

(* Mutant: the node behind keeps its parents.                              *)
insertNodeAfter_Keeps(type, s, x, p) ==
  /\ nodes[s].type \in {"form", "approval"}
  /\ applyLayout(With(
       [n \in DOMAIN nodes |-> IF n = s THEN [nodes[n] EXCEPT !.next = x] ELSE nodes[n]],
       Inserted(type, x, p, {s}, nodes[s].next)))

insertNodeAfter(type, s, x, p) ==
  /\ nodes[s].type \in {"form", "approval"}
  /\ applyLayout(With(
       [n \in DOMAIN nodes |->
         IF n = s THEN [nodes[n] EXCEPT !.next = x]
         ELSE [nodes[n] EXCEPT !.parents = Reparented(@, s, {LinkOf(type, x, p)})]],
       Inserted(type, x, p, {s}, nodes[s].next)))

insertNodeBefore(type, t, x, p) ==
  /\ nodes[t].type \in {"approval", "condition", "end"}
  /\ nodes[t].parents # {}
  /\ applyLayout(With(
       [n \in DOMAIN nodes |->
         IF n = t THEN [nodes[n] EXCEPT !.parents = {LinkOf(type, x, p)}]
         ELSE IF n \in nodes[t].parents THEN Redirected(nodes[n], t, x)
         ELSE nodes[n]],
       Inserted(type, x, p, nodes[t].parents, t)))

(* Where branches meet or the flow ends.                                   *)
Several(S)     == \E x, y \in S : x # y
IsShared(g, n) == Several(g[n].parents) \/ g[n].type = "end"

(* The shared nodes that are met first from those of S over edges of f.    *)
SharedAhead(f, S) ==
  LET onward == [n \in DOMAIN nodes |-> IF IsShared(nodes, n) THEN {} ELSE f[n]]
  IN  {n \in Reach(onward, S) : IsShared(nodes, n)}

FirstEdge ==
  [n \in DOMAIN nodes |-> {edges[n][i] : i \in {j \in DOMAIN edges[n] : \A l \in DOMAIN edges[n] : j <= l}}]

(* Joins the others where the first branch does.                           *)
addConditionBranch(k, x) ==
  /\ nodes[k].type = "condition"
  /\ \E shared \in SharedAhead(FirstEdge, FirstEdge[k]) :
       applyLayout(With(
         [n \in DOMAIN nodes |->
           IF n = shared THEN [nodes[n] EXCEPT !.parents = @ \cup {x}]
           ELSE IF n = k THEN [nodes[n] EXCEPT !.conditions = Append(@, x)]
           ELSE nodes[n]],
         Put(x, Node("placeholder", {k}, shared, << >>))))

--------------------------------------------------------------------------------
(* Replacement.                                                            *)

replaceNodeByCondition(r, p) ==
  applyLayout(With(
    [n \in DOMAIN nodes |->
      IF n = r THEN Node("condition", nodes[r].parents, None, <<p>>)
      ELSE IF n = nodes[r].next THEN [nodes[n] EXCEPT !.parents = (@ \ {r}) \cup {p}]
      ELSE nodes[n]],
    Put(p, Node("placeholder", {r}, nodes[r].next, << >>))))

replaceNode(r, type) ==
  applyLayout([nodes EXCEPT ![r] = Node(type, @.parents, @.next, << >>)])

(* The menu of an empty place.                                             *)
fillPlaceholder(r, p) ==
  /\ nodes[r].type = "placeholder"
  /\ \/ replaceNode(r, "approval")
     \/ NewKey(p) /\ replaceNodeByCondition(r, p)

--------------------------------------------------------------------------------
(* Removal.                                                                *)

(* Mutant: up to the end of the flow.                                      *)
Subtree_ToEnd(r) ==
  LET own(n) == {m \in Successors(nodes)[n] : nodes[m].type # "end"}
  IN  IF nodes[r].type = "end" THEN {} ELSE Reach([n \in DOMAIN nodes |-> own(n)], {r})

(* The node and what lies behind it, up to where branches meet.            *)
Subtree(r) ==
  LET own(n) == {m \in Successors(nodes)[n] : ~ IsShared(nodes, m)}
  IN  IF nodes[r].type = "end" THEN {} ELSE Reach([n \in DOMAIN nodes |-> own(n)], {r})

Pruned(gone) ==
  [n \in DOMAIN nodes \ gone |->
    [nodes[n] EXCEPT !.parents = @ \ gone,
                     !.next = IF @ \in gone /\ nodes[n].type # "condition" THEN None ELSE @,
                     !.conditions = [i \in DOMAIN @ |-> IF @[i] \in gone THEN None ELSE @[i]]]]

_deleteNode(r) ==
  LET child == nodes[r].next IN
  applyLayout(
    [n \in DOMAIN nodes \ {r} |->
      IF n = child THEN [nodes[n] EXCEPT !.parents = (@ \ {r}) \cup nodes[r].parents]
      ELSE IF n \in nodes[r].parents THEN Redirected(nodes[n], r, child)
      ELSE nodes[n]])

UnderCondition(r) == \E n \in nodes[r].parents : nodes[n].type = "condition"

EdgesTo(t) ==
  UNION {{<<n, i>> : i \in {j \in DOMAIN edges[n] : edges[n][j] = t}} : n \in DOMAIN nodes}

(* Mutant: nothing is left where the only node of a branch was.            *)
smartRemoveNode_Plain(r) == nodes[r].type = "approval" /\ _deleteNode(r)

(* The only node of a branch leaves an empty place.                        *)
smartRemoveNode(r) ==
  LET t == nodes[r].next
      branchEnds == t \in DOMAIN nodes /\ (nodes[t].type = "end" \/ Several(EdgesTo(t)))
  IN  /\ nodes[r].type = "approval"
      /\ IF UnderCondition(r) /\ branchEnds THEN replaceNode(r, "placeholder") ELSE _deleteNode(r)

(* The code takes the nearest; all branches of a condition lead to one.    *)
reconnectionTargets(r) == SharedAhead(Successors(nodes), Successors(nodes)[r])

(* A condition goes with all its branches; in a branch of another condition*)
(* an empty place takes its part.                                          *)
smartRemoveCondition(r, p) ==
  LET parents == nodes[r].parents
      pruned  == Pruned(Subtree(r))
      link(target) == IF UnderCondition(r) THEN p ELSE target
      Rejoined(node, target) ==
        IF node.type = "condition" THEN [node EXCEPT !.conditions = Relinked(@, None, link(target))]
        ELSE IF node.next = None THEN [node EXCEPT !.next = link(target)] ELSE node
      NewParents(S) == IF UnderCondition(r) THEN (S \cup {p}) \ parents ELSE S \cup parents
  IN  /\ nodes[r].type = "condition" /\ parents # {}
      /\ UnderCondition(r) => NewKey(p)
      /\ \/ reconnectionTargets(r) = {} /\ applyLayout(pruned)
         \/ \E target \in reconnectionTargets(r) :
              applyLayout(With(
                [n \in DOMAIN pruned |->
                  IF n \in parents THEN Rejoined(pruned[n], target)
                  ELSE IF n = target THEN [pruned[n] EXCEPT !.parents = NewParents(@)]
                  ELSE pruned[n]],
                IF UnderCondition(r) THEN Put(p, Node("placeholder", parents, target, << >>)) ELSE << >>))

(* A branch other than the fallback, with its nodes.                       *)
removeBranch(k, i) ==
  LET t == nodes[k].conditions[i]
      rest == IF t = None THEN nodes
              ELSE IF IsShared(nodes, t) THEN [nodes EXCEPT ![t].parents = @ \ {k}]
              ELSE Pruned(Subtree(t))
  IN  /\ nodes[k].type = "condition" /\ i \in 2 .. Len(nodes[k].conditions)
      /\ applyLayout([rest EXCEPT ![k].conditions = RemoveAt(@, i)])

--------------------------------------------------------------------------------
(* The edge that is drawn by hand replaces the one that was drawn.  One    *)
(* edge at a time is dragged in the model before the next layout.          *)
onConnect(s, t) ==
  /\ edges = calculateEdges(nodes)
  /\ nodes[s].type = "approval" /\ s # t
  /\ edges' = [edges EXCEPT ![s] = <<t>>]
  /\ UNCHANGED nodes

(* The delete key takes a selected edge away, or a selected node with its  *)
(* edges; the links that the other nodes keep are not looked at.           *)
onEdgesChange(s, i) ==
  /\ edges = calculateEdges(nodes)
  /\ edges' = [edges EXCEPT ![s] = Restrict(@, DOMAIN @ \ {i})]
  /\ UNCHANGED nodes

onNodesChange(n) ==
  /\ edges = calculateEdges(nodes)
  /\ nodes' = [m \in DOMAIN nodes \ {n} |-> nodes[m]]
  /\ edges' = [m \in DOMAIN nodes \ {n} |-> RestrictValues(edges[m], LAMBDA t : t # n)]

(* Mutant: empty places are not looked for.                                *)
validateNodes_Linked(g) ==
  /\ NodesOf(g, "form") # {}
  /\ \A k \in NodesOf(g, "condition") :
       g[k].conditions # << >> /\ \A i \in DOMAIN g[k].conditions : g[k].conditions[i] # None

(* What the editor asks of the graph before it saves.                      *)
validateNodes(g) ==
  /\ NodesOf(g, "form") # {}
  /\ \A k \in NodesOf(g, "condition") :
       /\ g[k].conditions # << >>
       /\ \A i \in DOMAIN g[k].conditions :
            g[k].conditions[i] \notin {None} \cup NodesOf(g, "placeholder")

(* What is sent: empty places are left out, a condition has no `next`.     *)
parseFlow(g) ==
  [n \in DOMAIN g \ NodesOf(g, "placeholder") |->
    IF g[n].type = "condition" THEN [g[n] EXCEPT !.next = None] ELSE g[n]]

deparseFlow(g) == [n \in DOMAIN g |-> [g[n] EXCEPT !.parents = {m \in DOMAIN g : n \in NextNodes(g, m)}]]

Save == validateNodes(nodes) /\ applyLayout(deparseFlow(parseFlow(nodes)))

ByNodes ==
  \/ \E n \in DOMAIN nodes, x, p \in Fresh, type \in {"approval", "condition"} :
       NewKeys(type, x, p) /\ (insertNodeAfter(type, n, x, p) \/ insertNodeBefore(type, n, x, p))
  \/ \E n \in DOMAIN nodes, x \in Fresh : fillPlaceholder(n, x) \/ smartRemoveCondition(n, x)
  \/ \E n \in DOMAIN nodes : \E i \in DOMAIN nodes[n].conditions : removeBranch(n, i)
  \/ \E s, t \in DOMAIN nodes : onConnect(s, t)
  \/ \E s \in DOMAIN nodes : \E i \in DOMAIN edges[s] : onEdgesChange(s, i)
  \/ Save

(* These go by the edges that are drawn, which may have been changed alone.*)
ByEdges ==
  \/ \E n \in DOMAIN nodes, x \in Fresh : NewKey(x) /\ addConditionBranch(n, x)
  \/ \E n \in DOMAIN nodes : smartRemoveNode(n)

(* The model goes no further than an edit that passed the links by.        *)
Next ==
  /\ ~bypassed
  /\ \/ ByNodes /\ UNCHANGED bypassed
     \/ ByEdges /\ bypassed' = (edges # calculateEdges(nodes))
     \/ \E n \in DOMAIN nodes : onNodesChange(n) /\ bypassed' = TRUE

Spec == Init /\ [][Next]_vars

--------------------------------------------------------------------------------
(* The two ways in which the links are kept agree: the parents of a node   *)
(* are the nodes that lead to it.  Each operation updates both by itself;  *)
(* only a node removed by the delete key, or an operation that goes by     *)
(* edges which were changed alone, may break this and what follows.        *)
ParentsAgree ==
  /\ TypeOK
  /\ ~bypassed =>
       \A n \in DOMAIN nodes : nodes[n].parents = {m \in DOMAIN nodes : n \in NextNodes(nodes, m)}

(* No node is cut off by an operation: each is reached from the form, and  *)
(* leads to the end.                                                       *)
NothingCutOff == ~bypassed =>
  /\ validateReachability(nodes)
  /\ \A n \in DOMAIN nodes : "end-node" \in Reach(Successors(nodes), {n})

(* Every branch has a node or an empty place of its own, as the rule of    *)
(* smartRemoveNode says: it leads neither to the end nor to where others   *)
(* join, so what is chosen for it later is in this branch only.            *)
NoEmptyBranch == ~bypassed =>
  \A k \in NodesOf(nodes, "condition") : \A i \in DOMAIN nodes[k].conditions :
    nodes[k].conditions[i] \in DOMAIN nodes /\ ~ IsShared(nodes, nodes[k].conditions[i])

(* What the editor lets pass the backend accepts, and nothing that is left *)
(* out of it was part of the flow.                                         *)
SavedIsValid ==
  ~bypassed /\ validateNodes(nodes) =>
    /\ validateFlowDefinition(parseFlow(nodes))
    /\ NodesOf(nodes, "placeholder") = {}

(* On a flow that was built here the engine infers exactly the conditions  *)
(* that an application went through from the approvals that have rows.     *)
InferredWasTraversed ==
  ~bypassed /\ validateNodes(nodes) => \A X \in Executions(nodes) :
    inferTraversedNodes(nodes, X \cap NodesOf(nodes, "approval"))
      = X \cap (NodesOf(nodes, "approval") \cup NodesOf(nodes, "condition"))

(* A node that may be configured as a target for send-backs is executed    *)
(* before the one that sends back, in every execution, also where another  *)
(* node may send back to a node before it.                                 *)
GuaranteedIsExecuted ==
  ~bypassed /\ validateNodes(nodes) => \A n, a \in NodesOf(nodes, "approval") :
    \A t \in findPossiblePrecedingNodes(nodes, {}, a) :
      \A X \in Executions(nodes) :
        n \in X => findGuaranteedPrecedingNodes(nodes, {<<a, t>>}, n) \subseteq X
================================================================================
