----------------------------- MODULE ApprovalNode ------------------------------
(***************************************************************************)
(* One approval node: the tasks of its approvers, in groups, and the       *)
(* request handlers that decide them.                                      *)
(*                                                                         *)
(* A handler validates its request outside any transaction; then it opens  *)
(* one, updates its own task (which locks that row until the commit),      *)
(* decides from what it sees and commits.  Transactions run at the default *)
(* isolation of the database: they read what is committed and their own    *)
(* writes, an update waits for the row locks of others, and two that wait  *)
(* for each other are broken by aborting one.  A decision is one step: it  *)
(* reads once it has the locks it needs.                                   *)
(***************************************************************************)
EXTENDS SequencesExt

CONSTANTS
  Users,      \* those who may be approvers
  Cases,      \* the nodes to examine: see CaseAssumption
  Handlers,   \* requests that may be handled at the same time
  MayReject   \* whether approvers may reject

(* An approver is a reporting LINE (one after the other), a list of users  *)
(* who must ALL approve, or a role of whom ANY may; `users` is whom it     *)
(* resolves to.  A single-approval node is an AND of one approver.  `prior`*)
(* are the users who approved earlier in the application.                  *)
ApproverTypes == {"LINE", "ALL", "ANY"}

ASSUME CaseAssumption ==
  \A c \in Cases :
    /\ c.logic \in {"AND", "OR"}
    /\ c.prior \subseteq Users
    /\ c.approvers \in Seq([type : ApproverTypes, reuse : BOOLEAN, users : Seq(Users)])
    /\ \E a \in ToSet(c.approvers) : a.users # << >>

VARIABLES
  setup,   \* the case examined
  node,    \* result of the node: NONE until it has a row, then PENDING, ...
  tasks,   \* status of each task
  pc,      \* of each handler: idle, validated (outside), then in its transaction
  request, \* of each handler: its task and whether it approves
  written  \* of each handler: what it has written and not committed

vars == <<setup, node, tasks, pc, request, written>>

TaskStatus == {"WAITING", "PENDING", "APPROVED", "REJECTED", "CANCELLED"}
Undecided  == {"WAITING", "PENDING"}

(* Approvers that resolve to nobody get no group, so groups are numbered   *)
(* apart from the approvers; a task is the k-th of group g.                *)
GroupsOf(c) == SelectSeq(c.approvers, LAMBDA a : a.users # << >>)
Groups == GroupsOf(setup)
Slots  == UNION {{<<g, k>> : k \in DOMAIN Groups[g].users} : g \in DOMAIN Groups}
Assignee(s) == Groups[s[1]].users[s[2]]
InGroup(g) == {s \in Slots : s[1] = g}

(* ... but the engine looks the approver of a group up by that number.     *)
ConfigOf(g) == setup.approvers[g]

NoRequest == [task |-> <<0, 0>>, approve |-> FALSE]

(* Rows of tasks and the result of the node; NONE is no write to the node. *)
Outcome(t, result) == [tasks |-> t, node |-> result]
Nothing == Outcome(<< >>, "NONE")

TypeOK ==
  /\ setup \in Cases
  /\ node \in {"NONE", "PENDING", "APPROVED", "REJECTED"}
  /\ tasks \in [IF node = "NONE" THEN {} ELSE Slots -> TaskStatus]
  /\ pc \in [Handlers -> {"idle", "validated", "updated", "decided"}]
  /\ request \in [Handlers -> [task : Slots \cup {<<0, 0>>}, approve : BOOLEAN]]
  /\ written \in [Handlers ->
       [tasks : UNION {[rows -> TaskStatus] : rows \in SUBSET DOMAIN tasks},
        node : {"NONE", "APPROVED", "REJECTED"}]]

Init ==
  /\ setup \in Cases
  /\ node = "NONE"
  /\ tasks = << >>
  /\ pc = [h \in Handlers |-> "idle"]
  /\ request = [h \in Handlers |-> NoRequest]
  /\ written = [h \in Handlers |-> Nothing]

--------------------------------------------------------------------------------
(* The executor reaches the node.                                          *)

shouldAutoApprove(a, user) == a.reuse /\ user \in setup.prior

(* The status of task k of an approver once the prior approvals have been  *)
(* used: up to the first new user of a line, for each of those who must    *)
(* all approve, for the first that can of those of whom any may.           *)
processAutoApprovals(a, k) ==
  LET fresh == {j \in DOMAIN a.users : ~ shouldAutoApprove(a, a.users[j])}
      known == DOMAIN a.users \ fresh
  IN  CASE a.type = "LINE" -> IF \A j \in fresh : k < j THEN "APPROVED"
                              ELSE IF k \in fresh /\ \A j \in fresh : k <= j THEN "PENDING"
                              ELSE "WAITING"
        [] a.type = "ALL"  -> IF k \in known THEN "APPROVED" ELSE "PENDING"
        [] OTHER           -> IF known = {} THEN "PENDING"
                              ELSE IF k = Min(known) THEN "APPROVED"
                              ELSE "CANCELLED"

(* The executor's own completion check.                                    *)
checkApprovalNodeCompletion(t) ==
  LET statuses(g) == {t[s] : s \in InGroup(g)}
      complete(g) == IF ConfigOf(g).type = "LINE"
                     THEN statuses(g) = {"APPROVED"}
                     ELSE "APPROVED" \in statuses(g) /\ statuses(g) \cap Undecided = {}
      completed == {g \in DOMAIN Groups : complete(g)}
  IN  IF setup.logic = "AND" THEN completed = DOMAIN Groups ELSE completed # {}

execute ==
  /\ node = "NONE"
  /\ tasks' = [s \in Slots |-> processAutoApprovals(Groups[s[1]], s[2])]
  /\ node' = IF checkApprovalNodeCompletion(tasks') THEN "APPROVED" ELSE "PENDING"
  /\ UNCHANGED <<setup, pc, request, written>>

--------------------------------------------------------------------------------
(* What one request does to the tasks it sees.                             *)

(* Promotion in group g: the waiting tasks of users who have approved      *)
(* before are approved, the first other one becomes pending.               *)
Waiting(t, g) == {s \in InGroup(g) : t[s] = "WAITING"}
Stops(t, g) ==
  {s \in Waiting(t, g) :
     ~ (/\ ConfigOf(g).reuse
        /\ Assignee(s) \in setup.prior \cup {Assignee(r) : r \in {r \in Slots : t[r] = "APPROVED"}})}

(* Mutant: the last waiting task is promoted instead of the first.          *)
Promoted_Last(t, g) ==
  [s \in Slots |->
     IF s \notin Waiting(t, g) THEN t[s]
     ELSE IF s \in Stops(t, g) /\ \A r \in Stops(t, g) : s[2] >= r[2] THEN "PENDING"
     ELSE IF Stops(t, g) = {} THEN "APPROVED"
     ELSE "WAITING"]

(* Mutant: nobody is promoted.                                              *)
Promoted_Never(t, g) ==
  [s \in Slots |->
     IF s \in Waiting(t, g) /\ \A r \in Stops(t, g) : s[2] < r[2] THEN "APPROVED" ELSE t[s]]

Promoted(t, g) ==
  [s \in Slots |->
     IF s \notin Waiting(t, g) THEN t[s]
     ELSE IF \A r \in Stops(t, g) : s[2] < r[2] THEN "APPROVED"
     ELSE IF s \in Stops(t, g) /\ \A r \in Stops(t, g) : s[2] <= r[2] THEN "PENDING"
     ELSE "WAITING"]

(* Mutant: tasks are cancelled whatever their status.                       *)
Cancelled_Unfiltered(t, which) ==
  [s \in Slots |-> IF s \in which /\ t[s] # "REJECTED" THEN "CANCELLED" ELSE t[s]]

Cancelled(t, which) ==
  [s \in Slots |-> IF s \in which /\ t[s] \in Undecided THEN "CANCELLED" ELSE t[s]]

(* Mutant: every group is settled by one approval.                          *)
requiresAllApprovers_Never(g) == FALSE

requiresAllApprovers(g) == ConfigOf(g).type = "ALL"

(* One approval of those of whom any may settles the group.                *)
SettledGroup(t, g) == IF requiresAllApprovers(g) THEN t ELSE Cancelled(t, InGroup(g))

(* Mutant: one open group is overlooked.                                    *)
isApprovalNodeCompleted_Last(t) ==
  Cardinality({g \in DOMAIN Groups : \E s \in InGroup(g) : t[s] \in Undecided}) <= 1

isApprovalNodeCompleted(t) ==
  LET remaining == {g \in DOMAIN Groups : \E s \in InGroup(g) : t[s] \in Undecided}
  IN  IF setup.logic = "AND"
      THEN remaining = {}
      ELSE Cardinality(remaining) < Len(setup.approvers)

(* Mutant: the other alternatives stay open.                                *)
Completed_Keeps(t) == t

(* An alternative that completes makes the other groups unnecessary.       *)
Completed(t) == IF setup.logic = "OR" THEN Cancelled(t, Slots) ELSE t

(* t is what the transaction sees, the task of group g approved.           *)
handleApproval(t, g) ==
  IF Stops(t, g) # {}
  THEN Outcome(Promoted(t, g), "NONE")
  ELSE LET settled == SettledGroup(Promoted(t, g), g)
       IN  IF isApprovalNodeCompleted(settled)
           THEN Outcome(Completed(settled), "APPROVED")
           ELSE Outcome(settled, "NONE")

handleRejection(t) == Outcome(Cancelled(t, Slots), "REJECTED")

(* The rows that a transaction has updated, and the tasks as it sees them. *)
Locked(h) == DOMAIN written[h].tasks
Seen(h)   == [s \in DOMAIN tasks |-> IF s \in Locked(h) THEN written[h].tasks[s] ELSE tasks[s]]

Result(h) ==
  IF request[h].approve THEN handleApproval(Seen(h), request[h].task[1]) ELSE handleRejection(Seen(h))

--------------------------------------------------------------------------------
(* The handlers.                                                           *)

Writes(h) == {s \in Slots : Result(h).tasks[s] # tasks[s]}
WaitsFor(h, o) ==
  /\ h # o
  /\ \/ pc[h] = "validated" /\ request[h].task \in Locked(o)
     \/ pc[h] = "updated" /\ Writes(h) \cap Locked(o) # {}

Waits(h) == \E o \in Handlers : WaitsFor(h, o)

validateApprovalRequest(h, s, approve) ==
  /\ pc[h] = "idle"
  /\ node \in {"PENDING", "APPROVED"}   \* the application is RUNNING
  /\ tasks[s] = "PENDING"
  /\ approve \/ MayReject
  /\ pc' = [pc EXCEPT ![h] = "validated"]
  /\ request' = [request EXCEPT ![h] = [task |-> s, approve |-> approve]]
  /\ UNCHANGED <<setup, node, tasks, written>>

(* The decision on the own task.                                           *)
UpdateTask(h) ==
  /\ pc[h] = "validated"
  /\ ~ Waits(h)
  /\ pc' = [pc EXCEPT ![h] = "updated"]
  /\ written' = [written EXCEPT ![h].tasks =
       [s \in {request[h].task} |-> IF request[h].approve THEN "APPROVED" ELSE "REJECTED"]]
  /\ UNCHANGED <<setup, node, tasks, request>>

(* What follows from it in the node.                                       *)
Decide(h) ==
  /\ pc[h] = "updated"
  /\ ~ Waits(h)
  /\ pc' = [pc EXCEPT ![h] = "decided"]
  /\ written' = [written EXCEPT ![h] =
       Outcome(Restrict(Result(h).tasks, Writes(h) \cup Locked(h)), Result(h).node)]
  /\ UNCHANGED <<setup, node, tasks, request>>

Finish(h) ==
  /\ pc' = [pc EXCEPT ![h] = "idle"]
  /\ request' = [request EXCEPT ![h] = NoRequest]
  /\ written' = [written EXCEPT ![h] = Nothing]
  /\ UNCHANGED setup

Commit(h) ==
  /\ pc[h] = "decided"
  /\ tasks' = Seen(h)
  /\ node' = IF written[h].node = "NONE" THEN node ELSE written[h].node
  /\ Finish(h)

(* The database ends a deadlock by rolling one transaction back.           *)
RollBack(h) ==
  /\ \E o \in Handlers : WaitsFor(h, o) /\ WaitsFor(o, h)
  /\ Finish(h)
  /\ UNCHANGED <<node, tasks>>

Arrive(approve) ==
  \E h \in Handlers, s \in DOMAIN tasks : validateApprovalRequest(h, s, approve)

Next ==
  \/ execute
  \/ \E approve \in BOOLEAN : Arrive(approve)
  \/ \E h \in Handlers : UpdateTask(h) \/ Decide(h) \/ Commit(h) \/ RollBack(h)

Spec == Init /\ [][Next]_vars

(* The server goes on with what it started; approvers who can, approve.    *)
FairSpec ==
  /\ Spec
  /\ WF_vars(execute)
  /\ \A h \in Handlers : WF_vars(UpdateTask(h) \/ Decide(h) \/ Commit(h) \/ RollBack(h))
  /\ WF_vars(Arrive(TRUE))

--------------------------------------------------------------------------------
(* Properties.                                                             *)

AllIdle == \A h \in Handlers : pc[h] = "idle"

(* What the approvers' types and the node's logic promise: a line and a    *)
(* list of users need everybody, a role needs one; AND needs every group,  *)
(* OR needs one.                                                           *)
GroupAgreed(g) ==
  LET given == {s \in InGroup(g) : tasks[s] = "APPROVED"}
  IN  IF Groups[g].type = "ANY" THEN given # {} ELSE given = InGroup(g)

Consensus ==
  IF setup.logic = "AND" THEN \A g \in DOMAIN Groups : GroupAgreed(g)
  ELSE \E g \in DOMAIN Groups : GroupAgreed(g)

(* A node is APPROVED only by that consensus.                              *)
ApprovedByConsensus == node = "APPROVED" => Consensus

(* A pending node has a task that somebody can decide, whenever no request *)
(* is being handled.                                                       *)
NoStuckNode == node = "PENDING" /\ AllIdle => \E s \in Slots : tasks[s] = "PENDING"

(* A decided node leaves no task to decide.                                *)
DecidedNodeIsQuiet ==
  node \in {"APPROVED", "REJECTED"} => \A s \in Slots : tasks[s] \notin Undecided

(* In a reporting line nobody is asked, and nobody decides, before all     *)
(* those before have approved.                                             *)
LineInOrder ==
  node # "NONE" => \A s, r \in Slots :
    /\ Groups[s[1]].type = "LINE" /\ s[1] = r[1] /\ r[2] < s[2]
    /\ tasks[s] \in {"PENDING", "APPROVED", "REJECTED"}
    => tasks[r] = "APPROVED"

(* The executor and the approval handler, which decide by different        *)
(* computations whether the node is complete, agree on every state that    *)
(* a request leaves behind.                                                *)
CompletionChecksAgree ==
  node \in {"PENDING", "APPROVED"} /\ AllIdle =>
    (node = "APPROVED" <=> checkApprovalNodeCompletion(tasks))

(* A task is decided once: only a pending or waiting one changes.          *)
DecidedOnce ==
  [][\A s \in DOMAIN tasks : tasks[s] \notin Undecided => tasks'[s] = tasks[s]]_vars

(* If approvers act, the node is decided.                                  *)
NodeDecided == <>(node \in {"APPROVED", "REJECTED"})
================================================================================
