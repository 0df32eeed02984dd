----------------------------- MODULE FlowExecutor ------------------------------
(***************************************************************************)
(* One application and the flow engine that drives it, one request at a    *)
(* time.  A request (submit, approve, reject, withdraw) changes the        *)
(* database and may start a PASS of the executor: the queue loop of        *)
(* executeWorkflow, which walks the flow graph, creates the rows of the    *)
(* approval nodes it reaches and stops at those that wait for a person.    *)
(* Each approval node has one approver here; the groups of approvers       *)
(* inside a node are the subject of ApprovalNode.                          *)
(***************************************************************************)
EXTENDS FlowGraph

CONSTANTS
  Approver,         \* who decides at each approval node
  Reuse,            \* reuse_prior_approvals of each approval node
  Unstaffable,      \* approval nodes whose approvers may resolve to nobody
  Editors,          \* approval nodes whose approver may edit the form
  RejectBehaviours, \* the behaviours a rejection at a node may resolve to
  SendTargets,      \* the nodes a rejection may be sent to
  CanCrash,         \* whether the process may stop inside a pass
  MaxIteration      \* bound of the model on current_iteration

Behaviours == {"CLOSE", "RETURN", "SEND", "BACK"}
None == "none"

ASSUME ExecutorAssumption ==
  /\ DOMAIN Approver = Approvals
  /\ Reuse \in [Approvals -> BOOLEAN]
  /\ Unstaffable \subseteq Approvals
  /\ Editors \subseteq Approvals
  /\ RejectBehaviours \in [Approvals -> SUBSET Behaviours]
  /\ SendTargets \in [Approvals -> SUBSET Nodes]
  /\ CanCrash \in BOOLEAN
  /\ MaxIteration \in Nat \ {0}
  /\ None \notin Nodes

VARIABLES
  status,     \* WorkflowInstance.status, or DELETED
  iteration,  \* WorkflowInstance.current_iteration
  rows,       \* the WorkflowNode row of each iteration and approval node
  born,       \* the order in which an iteration's rows were created, 0 for none
  form,       \* the latest form data
  pc,         \* where the executor is: idle, start, loop or complete
  queue,      \* nodesToProcess
  waiting,    \* hasWaitingApproval
  snapshot,   \* the form data the pass read when it started
  resume,     \* startNodeKey of the pass, or None
  saved,      \* current_iteration before the transaction of a submit; 0 outside
  reached     \* history: the nodes put in a queue during this iteration

db     == <<status, iteration, rows, born, form>>
engine == <<pc, queue, waiting, snapshot, resume, saved>>
vars   == <<status, iteration, rows, born, form,
            pc, queue, waiting, snapshot, resume, saved, reached>>

Iterations == 1 .. MaxIteration
Statuses   == {"DRAFT", "RUNNING", "COMPLETED", "REJECTED", "CANCELLED", "DELETED"}

(* A PENDING row is OPEN when its task can be decided and BARE when it has *)
(* no open task; DONE is a COMPLETED row without a result.                 *)
Pending   == {"OPEN", "BARE"}
Closed    == {"APPROVED", "REJECTED", "CANCELLED", "DONE"}
RowStates == {"NONE"} \cup Pending \cup Closed

TypeOK ==
  /\ status \in Statuses
  /\ iteration \in Iterations
  /\ rows \in [Iterations -> [Approvals -> RowStates]]
  /\ born \in [Iterations -> [Approvals -> Nat]]
  /\ form \in Forms
  /\ pc \in {"idle", "start", "loop", "complete"}
  /\ queue \in Seq(Nodes)
  /\ waiting \in BOOLEAN
  /\ snapshot \in Forms
  /\ resume \in Nodes \cup {None}
  /\ saved \in {0} \cup Iterations
  /\ reached \subseteq Nodes

--------------------------------------------------------------------------------
NoRows == [n \in Approvals |-> "NONE"]
NoAge  == [n \in Approvals |-> 0]

RowsIn(i, states) == {n \in Approvals : rows[i][n] \in states}
PendingRows == RowsIn(iteration, Pending)
PresentRows == RowsIn(iteration, Pending \cup Closed)

PriorApprovedUsers ==
  {Approver[n] : n \in {n \in Approvals : \E i \in Iterations : rows[i][n] = "APPROVED"}}

Init ==
  /\ status = "DRAFT"
  /\ iteration = 1
  /\ rows = [i \in Iterations |-> NoRows]
  /\ born = [i \in Iterations |-> NoAge]
  /\ form \in Forms
  /\ pc = "idle" /\ queue = << >> /\ waiting = FALSE
  /\ snapshot = form
  /\ resume = None
  /\ saved = 0
  /\ reached = {}

--------------------------------------------------------------------------------
(* A pass of the executor.                                                 *)

(* The sequence of the members of S, the youngest first.                   *)
NewestFirst(S, age) ==
  {q \in [1 .. Cardinality(S) -> S] :
     \A i, j \in 1 .. Cardinality(S) : i < j => age[q[i]] > age[q[j]]}

(* The successors, not reached yet, of the rows of this iteration, in the  *)
(* order in which the rows, newest first, lead to them.                    *)
UnexecutedNext ==
  LET nodes == {NextOf[n] : n \in PresentRows} \ PresentRows
      age   == [s \in nodes |->
                  Max({born[iteration][n] : n \in {m \in PresentRows : NextOf[m] = s}})]
  IN  NewestFirst(nodes, age)

(* The nodes a pass begins with: an explicit resume node; START when the   *)
(* iteration has no rows; every pending row; else what comes next.         *)
determineCurrentNodes ==
  IF resume # None THEN {<<resume>>}
  ELSE IF PresentRows = {} THEN {<<Start>>}
  ELSE IF PendingRows # {} THEN NewestFirst(PendingRows, born[iteration])
  ELSE UnexecutedNext

StartPass ==
  /\ pc = "start"
  /\ snapshot' = form
  /\ queue' \in determineCurrentNodes
  /\ reached' = reached \cup ToSet(queue')
  /\ waiting' = FALSE
  /\ resume' = None
  /\ pc' = IF queue' = << >> THEN "complete" ELSE "loop"
  /\ UNCHANGED <<status, iteration, rows, born, form, saved>>

(* Leave the loop by an exception.  A pass inside submit's transaction is  *)
(* rolled back; any other keeps what it has written.                       *)
Abort(rows1, born1) ==
  /\ pc' = "idle" /\ queue' = << >> /\ waiting' = FALSE
  /\ resume' = None
  /\ saved' = 0
  /\ IF saved = 0
     THEN /\ rows' = rows1 /\ born' = born1
          /\ UNCHANGED <<status, iteration>>
     ELSE /\ status' = "DRAFT"
          /\ iteration' = saved
          /\ rows' = [rows EXCEPT ![iteration] = NoRows]
          /\ born' = [born EXCEPT ![iteration] = NoAge]
  /\ UNCHANGED <<form, snapshot, reached>>

(* Take the first node off the queue, put `more` behind the others.        *)
Advance(more) ==
  /\ queue' = Tail(queue) \o more
  /\ reached' = reached \cup ToSet(more)
  /\ UNCHANGED <<status, iteration, form, pc, snapshot, resume, saved>>

Process(n) == pc = "loop" /\ queue # << >> /\ n = Head(queue)
MayRun(n)  == ~ shouldWaitForOtherBranches(n, PendingRows, PresentRows)

SkipNode(n) ==
  /\ Process(n) /\ ~ MayRun(n)
  /\ Advance(<< >>)
  /\ UNCHANGED <<rows, born, waiting>>

ExecuteStart(n) ==
  /\ Process(n) /\ MayRun(n) /\ n \in Of("START")
  /\ Advance(<<NextOf[n]>>)
  /\ UNCHANGED <<rows, born, waiting>>

ExecuteEnd(n) ==
  /\ Process(n) /\ MayRun(n) /\ n \in Of("END")
  /\ Advance(<< >>)
  /\ UNCHANGED <<rows, born, waiting>>

(* No matching branch and no default one is the NO_CONDITION_MATCHED error.*)
ExecuteCondition(n) ==
  /\ Process(n) /\ MayRun(n) /\ n \in Conditions
  /\ IF Branches[snapshot][n] = << >>
     THEN Abort(rows, born)
     ELSE /\ Advance(Branches[snapshot][n])
          /\ UNCHANGED <<rows, born, waiting>>

(* Mutant: a pending row met again does not keep the pass waiting.         *)
RevisitApproval_Forgets(n) ==
  /\ Process(n) /\ MayRun(n) /\ n \in PresentRows
  /\ Advance(IF n \in PendingRows THEN << >> ELSE <<NextOf[n]>>)
  /\ UNCHANGED <<rows, born, waiting>>

(* An approval node that already has a row in this iteration.              *)
RevisitApproval(n) ==
  /\ Process(n) /\ MayRun(n) /\ n \in PresentRows
  /\ IF n \in PendingRows
     THEN Advance(<< >>) /\ waiting' = TRUE
     ELSE Advance(<<NextOf[n]>>) /\ UNCHANGED waiting
  /\ UNCHANGED <<rows, born>>

WithRow(n, state) == [rows EXCEPT ![iteration] = [@ EXCEPT ![n] = state]]
WithBirth(n) ==
  [born EXCEPT ![iteration] = [@ EXCEPT ![n] = Cardinality(PresentRows) + 1]]

(* Mutant: a node approved at once stalls its branch.                      *)
CreateApproval_Stalls(n) ==
  /\ Process(n) /\ MayRun(n) /\ n \in Approvals \ PresentRows
  /\ rows' = WithRow(n, IF Reuse[n] /\ Approver[n] \in PriorApprovedUsers
                        THEN "APPROVED" ELSE "OPEN")
  /\ Advance(<< >>) /\ waiting' = TRUE
  /\ born' = WithBirth(n)

(* A node reached for the first time: its row and task are created, and    *)
(* the task is approved at once when its approver has approved before.     *)
CreateApproval(n) ==
  /\ Process(n) /\ MayRun(n) /\ n \in Approvals \ PresentRows
  /\ IF Reuse[n] /\ Approver[n] \in PriorApprovedUsers
     THEN rows' = WithRow(n, "APPROVED") /\ Advance(<<NextOf[n]>>) /\ UNCHANGED waiting
     ELSE rows' = WithRow(n, "OPEN") /\ Advance(<< >>) /\ waiting' = TRUE
  /\ born' = WithBirth(n)

(* The row is written before its approvers are resolved and its tasks are  *)
(* created: an exception or a crash in between leaves it without a task.   *)
FailApproval(n) ==
  /\ Process(n) /\ MayRun(n) /\ n \in Approvals \ PresentRows
  /\ n \in Unstaffable \/ CanCrash
  /\ Abort(WithRow(n, "BARE"), WithBirth(n))

FinishPass ==
  /\ pc = "loop" /\ queue = << >>
  /\ pc' = IF waiting THEN "idle" ELSE "complete"
  /\ waiting' = FALSE
  /\ saved' = IF waiting THEN 0 ELSE saved
  /\ UNCHANGED <<status, iteration, rows, born, form, queue, snapshot, resume, reached>>

(* Mutant: the tasks are cancelled and the rows forgotten.                 *)
ClosePending_TasksOnly(to) ==
  [i \in Iterations |-> [n \in Approvals |->
     IF rows[i][n] = "OPEN" THEN "BARE" ELSE rows[i][n]]]

(* Mutant: the update of the rows does not filter on PENDING.              *)
ClosePending_Unfiltered(to) ==
  [i \in Iterations |-> [n \in Approvals |->
     IF i = iteration /\ rows[i][n] # "NONE" THEN to ELSE rows[i][n]]]

(* Tasks are cancelled in every iteration, rows only in the current one.   *)
ClosePending(to) ==
  [i \in Iterations |-> [n \in Approvals |->
     IF i = iteration /\ rows[i][n] \in Pending THEN to
     ELSE IF rows[i][n] = "OPEN" THEN "BARE"
     ELSE rows[i][n]]]

CompleteWorkflow ==
  /\ pc = "complete"
  /\ rows' = ClosePending("CANCELLED")
  /\ status' = "COMPLETED"
  /\ pc' = "idle" /\ saved' = 0
  /\ UNCHANGED <<iteration, born, form, queue, waiting, snapshot, resume, reached>>

(* The process stops between two writes of a pass.                         *)
Crash ==
  /\ CanCrash /\ pc # "idle"
  /\ Abort(rows, born)

--------------------------------------------------------------------------------
(* Requests.  The server handles one at a time in this module.             *)

(* The applicant changes the form, also of an application that runs.      *)
saveApplicationInstance(f) ==
  /\ pc = "idle" /\ status \in {"DRAFT", "RUNNING"}
  /\ form' = f
  /\ UNCHANGED <<status, iteration, rows, born, engine, reached>>

(* A resubmission, recognised by the rows its iteration already has,       *)
(* moves to the next iteration and is refused while one is pending.        *)
submit ==
  /\ pc = "idle" /\ status = "DRAFT"
  /\ PendingRows = {}
  /\ iteration' = IF PresentRows = {} THEN iteration ELSE iteration + 1
  /\ iteration' <= MaxIteration
  /\ status' = "RUNNING"
  /\ pc' = "start" /\ saved' = iteration
  /\ reached' = {}
  /\ UNCHANGED <<rows, born, form, queue, waiting, snapshot, resume>>

(* Mutant: the approval does not continue the execution.                   *)
Approve_Stops(i, n, f) ==
  /\ pc = "idle" /\ status = "RUNNING" /\ rows[i][n] = "OPEN"
  /\ f = form \/ n \in Editors
  /\ form' = f
  /\ rows' = [rows EXCEPT ![i] = [@ EXCEPT ![n] = "APPROVED"]]
  /\ UNCHANGED <<status, iteration, born, engine, reached>>

(* The approver of row (i, n) approves, maybe editing the form.            *)
Approve(i, n, f) ==
  /\ pc = "idle" /\ status = "RUNNING" /\ rows[i][n] = "OPEN"
  /\ f = form \/ n \in Editors
  /\ form' = f
  /\ rows' = [rows EXCEPT ![i] = [@ EXCEPT ![n] = "APPROVED"]]
  /\ pc' = "start"
  /\ UNCHANGED <<status, iteration, born, queue, waiting, snapshot, resume,
                 saved, reached>>

RejectRow(i, n, behaviour) ==
  /\ pc = "idle" /\ status = "RUNNING" /\ rows[i][n] = "OPEN"
  /\ behaviour \in RejectBehaviours[n]
  /\ rows' = [ClosePending("CANCELLED") EXCEPT ![i] = [@ EXCEPT ![n] = "REJECTED"]]
  /\ UNCHANGED <<born, form, queue, waiting, snapshot, saved>>

handleCloseApplication(i, n) ==
  /\ RejectRow(i, n, "CLOSE")
  /\ status' = "REJECTED"
  /\ UNCHANGED <<iteration, pc, resume, reached>>

(* Mutant: the iteration grows on the return as well as on resubmission.   *)
handleReturnToApplicant_Bumps(i, n) ==
  /\ RejectRow(i, n, "RETURN")
  /\ status' = "DRAFT"
  /\ iteration < MaxIteration /\ iteration' = iteration + 1
  /\ UNCHANGED <<pc, resume, reached>>

handleReturnToApplicant(i, n) ==
  /\ RejectRow(i, n, "RETURN")
  /\ status' = "DRAFT"
  /\ UNCHANGED <<iteration, pc, resume, reached>>

(* Restart from node t in a new iteration; an approval node must have been *)
(* completed in the iteration that is left.                                *)
CanSendTo(t) == t \in Approvals => rows[iteration][t] \in Closed

SendTo(t) ==
  /\ CanSendTo(t)
  /\ iteration < MaxIteration
  /\ iteration' = iteration + 1
  /\ resume' = t
  /\ pc' = "start"
  /\ reached' = {}
  /\ UNCHANGED status

handleSendToSpecificNode(i, n) ==
  /\ RejectRow(i, n, "SEND")
  /\ \E t \in SendTargets[n] : SendTo(t)

(* The latest completed row among the direct predecessors, created before  *)
(* the row that is rejected.                                               *)
PreviousNodes(i, n) ==
  LET executed == {m \in findPredecessors(n) \cap RowsIn(iteration, Closed) :
                     born[iteration][m] < born[i][n]}
  IN  {m \in executed : \A k \in executed : born[iteration][k] <= born[iteration][m]}

handleBackToPreviousNode(i, n) ==
  /\ RejectRow(i, n, "BACK")
  /\ \E t \in PreviousNodes(i, n) : SendTo(t)

Reject(i, n) ==
  \/ handleCloseApplication(i, n) \/ handleReturnToApplicant(i, n)
  \/ handleSendToSpecificNode(i, n) \/ handleBackToPreviousNode(i, n)

WithdrawRunning ==
  /\ pc = "idle" /\ status = "RUNNING"
  /\ rows' = ClosePending("DONE")
  /\ status' = "CANCELLED"
  /\ UNCHANGED <<iteration, born, form, engine, reached>>

(* Only the rows of the current iteration are deleted, and a row left in   *)
(* another one makes the foreign key refuse the whole deletion.            *)
NoOtherRows == \A i \in Iterations \ {iteration} : rows[i] = NoRows

ForceDelete ==
  /\ pc = "idle" /\ status = "DRAFT"
  /\ NoOtherRows
  /\ status' = "DELETED"
  /\ rows' = [rows EXCEPT ![iteration] = NoRows]
  /\ born' = [born EXCEPT ![iteration] = NoAge]
  /\ UNCHANGED <<iteration, form, engine, reached>>

--------------------------------------------------------------------------------
ExecutorStep ==
  \/ StartPass \/ FinishPass \/ CompleteWorkflow
  \/ \E n \in Nodes : \/ SkipNode(n) \/ ExecuteStart(n) \/ ExecuteEnd(n)
                      \/ ExecuteCondition(n) \/ RevisitApproval(n)
                      \/ CreateApproval(n) \/ FailApproval(n)

ApproveSomewhere ==
  \E i \in Iterations, n \in Approvals, f \in Forms : Approve(i, n, f)

Next ==
  \/ ExecutorStep
  \/ Crash
  \/ \E f \in Forms : saveApplicationInstance(f)
  \/ submit
  \/ ApproveSomewhere
  \/ \E i \in Iterations, n \in Approvals : Reject(i, n)
  \/ WithdrawRunning
  \/ ForceDelete

Spec == Init /\ [][Next]_vars

(* The server finishes the passes it starts, and approvers decide.         *)
FairSpec == Spec /\ WF_vars(ExecutorStep) /\ WF_vars(ApproveSomewhere)

--------------------------------------------------------------------------------
(* Properties.                                                             *)

(* A join waits: in no iteration does a node downstream of a row that is   *)
(* still pending have a row (shouldWaitForOtherBranches).                  *)
NothingBeyondPending ==
  \A i \in Iterations : \A m, n \in Approvals :
    rows[i][m] \in Pending /\ Upstream(m, n) => rows[i][n] = "NONE"

(* No branch is lost: when the application is COMPLETED, every approval    *)
(* node the engine ever queued in this iteration was approved, those it    *)
(* skipped "for now" included.                                             *)
NoLostBranch ==
  status = "COMPLETED" =>
    \A n \in reached \cap Approvals : rows[iteration][n] = "APPROVED"

(* Leaving an iteration leaves nothing to decide in it, and nothing exists *)
(* in an iteration that has not begun.                                     *)
OtherIterationsClosed ==
  \A i \in Iterations \ {iteration} :
    RowsIn(i, IF i < iteration THEN Pending ELSE Pending \cup Closed) = {}

(* Withdrawal, rejection, completion and a rolled back submission all      *)
(* leave no pending row or task behind.                                    *)
NoWorkOutsideRunning ==
  status # "RUNNING" => \A i \in Iterations : RowsIn(i, Pending) = {}

(* An application that runs while no request is being handled waits for    *)
(* somebody: a task that can be decided.                                   *)
SomeoneCanAct ==
  status = "RUNNING" /\ pc = "idle" => RowsIn(iteration, {"OPEN"}) # {}

(* A decision, once recorded, is never overwritten or lost: only the       *)
(* rollback of the submission that recorded it, or the deletion of the     *)
(* whole application, takes it away.                                       *)
DecisionsKept ==
  [][\A i \in Iterations, n \in Approvals :
       rows[i][n] \in Closed =>
         \/ rows'[i][n] = rows[i][n]
         \/ status' = "DELETED"
         \/ saved # 0 /\ i = iteration]_vars

(* If approvers keep deciding, an application that runs stops running.     *)
EventuallySettled == status = "RUNNING" ~> status # "RUNNING"

(* The application keeps the promises of ApplicationStatus.  A submission  *)
(* is one transaction: until it commits, others see the draft it started   *)
(* from.                                                                   *)
Status == INSTANCE ApplicationStatus WITH
  phase <- IF saved # 0 THEN "DRAFT" ELSE status,
  round <- IF saved # 0 THEN saved ELSE iteration

ImplementsStatus == Status!Spec
================================================================================
