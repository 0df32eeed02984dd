-------------------------- MODULE FlowExecutor_proofs --------------------------
(***************************************************************************)
(* What holds of FlowExecutor for every flow graph, every assignment of    *)
(* approvers and reject behaviours, and every bound on the iterations.     *)
(***************************************************************************)
EXTENDS FlowExecutor, FiniteSetTheorems, SequenceTheorems, TLAPS

USE DEF WellFormed, Acyclic

(* The flow has a START node, whose key the engine finds.                  *)
LEMMA StartIsNode == Start \in Nodes /\ Start \in Linked
  BY GraphAssumption DEF Start, Of, Linked

(* Every `next` is a node of the flow.                                     *)
LEMMA NextOfIsNode == \A n \in Linked : NextOf[n] \in Nodes
  BY GraphAssumption

LEMMA ApprovalsAreLinked == Approvals \subseteq Linked /\ Approvals \subseteq Nodes
  BY DEF Approvals, Linked, Of

(* A queue sorted by age holds nodes only.                                 *)
LEMMA NewestFirstIsQueue ==
  ASSUME NEW S \in SUBSET Nodes, NEW age, NEW q \in NewestFirst(S, age)
  PROVE  q \in Seq(Nodes)
  <1>1. IsFiniteSet(S)
    BY GraphAssumption, FS_Subset
  <1>2. Cardinality(S) \in Nat
    BY <1>1, FS_CardinalityType
  <1>3. q \in [1 .. Cardinality(S) -> S]
    BY DEF NewestFirst
  <1> QED
    BY <1>2, <1>3

(* Every pass begins with nodes of the flow.                               *)
LEMMA CurrentNodesAreQueue ==
  ASSUME TypeOK, NEW q \in determineCurrentNodes
  PROVE  q \in Seq(Nodes)
  <1>1. CASE resume # None
    <2>1. resume \in Nodes
      BY <1>1 DEF TypeOK
    <2>2. q = <<resume>>
      BY <1>1 DEF determineCurrentNodes
    <2> QED
      BY <2>1, <2>2
  <1>2. CASE resume = None /\ PresentRows = {}
    <2>1. q = <<Start>>
      BY <1>2 DEF determineCurrentNodes
    <2> QED
      BY <2>1, StartIsNode
  <1>3. CASE resume = None /\ PresentRows # {} /\ PendingRows # {}
    <2>1. PendingRows \in SUBSET Nodes
      BY ApprovalsAreLinked DEF PendingRows, RowsIn
    <2> QED
      BY <1>3, <2>1, NewestFirstIsQueue DEF determineCurrentNodes
  <1>4. CASE resume = None /\ PresentRows # {} /\ PendingRows = {}
    <2> DEFINE nodes == {NextOf[n] : n \in PresentRows} \ PresentRows
               age == [s \in nodes |->
                  Max({born[iteration][n] : n \in {m \in PresentRows : NextOf[m] = s}})]
    <2>1. nodes \in SUBSET Nodes
      BY ApprovalsAreLinked, NextOfIsNode DEF PresentRows, RowsIn
    <2>2. q \in NewestFirst(nodes, age)
      BY <1>4 DEF determineCurrentNodes, UnexecutedNext
    <2> HIDE DEF nodes, age
    <2> QED
      BY <2>1, <2>2, NewestFirstIsQueue
  <1> QED
    BY <1>1, <1>2, <1>3, <1>4

--------------------------------------------------------------------------------
(* Type correctness.                                                       *)

(* Taking a node off the queue and adding nodes to it keeps its type.      *)
LEMMA AdvanceType ==
  ASSUME TypeOK, NEW n, Process(n), NEW more \in Seq(Nodes), Advance(more)
  PROVE  /\ queue' \in Seq(Nodes)
         /\ reached' \subseteq Nodes
         /\ UNCHANGED <<status, iteration, form, pc, snapshot, resume, saved>>
  <1>1. queue \in Seq(Nodes) /\ queue # << >>
    BY DEF TypeOK, Process
  <1>2. Tail(queue) \in Seq(Nodes)
    BY <1>1
  <1>3. ToSet(more) \subseteq Nodes
    BY DEF ToSet
  <1> QED
    BY <1>2, <1>3 DEF Advance, TypeOK

(* A pass that fails restores or keeps well-typed rows.                    *)
LEMMA AbortType ==
  ASSUME TypeOK,
         NEW rows1 \in [Iterations -> [Approvals -> RowStates]],
         NEW born1 \in [Iterations -> [Approvals -> Nat]],
         Abort(rows1, born1)
  PROVE  TypeOK'
  <1>1. NoRows \in [Approvals -> RowStates] /\ NoAge \in [Approvals -> Nat]
    BY DEF NoRows, NoAge, RowStates
  <1>2. status' \in Statuses /\ iteration' \in Iterations
    BY DEF Abort, TypeOK, Statuses
  <1>3. rows' \in [Iterations -> [Approvals -> RowStates]]
    BY <1>1 DEF Abort, TypeOK
  <1>4. born' \in [Iterations -> [Approvals -> Nat]]
    BY <1>1 DEF Abort, TypeOK
  <1>5. << >> \in Seq(Nodes)
    OBVIOUS
  <1> QED
    BY <1>2, <1>3, <1>4, <1>5 DEF Abort, TypeOK

(* The row and the birth that an action gives to a node have their type.   *)
LEMMA WithRowType ==
  ASSUME TypeOK, NEW n \in Approvals, NEW state \in RowStates
  PROVE  /\ WithRow(n, state) \in [Iterations -> [Approvals -> RowStates]]
         /\ WithBirth(n) \in [Iterations -> [Approvals -> Nat]]
  <1>1. IsFiniteSet(PresentRows)
    <2>1. PresentRows \subseteq Nodes
      BY ApprovalsAreLinked DEF PresentRows, RowsIn
    <2> QED
      BY <2>1, GraphAssumption, FS_Subset
  <1>2. Cardinality(PresentRows) + 1 \in Nat
    BY <1>1, FS_CardinalityType
  <1>3. WithRow(n, state) \in [Iterations -> [Approvals -> RowStates]]
    BY DEF WithRow, TypeOK
  <1>4. WithBirth(n) \in [Iterations -> [Approvals -> Nat]]
    BY <1>2 DEF WithBirth, TypeOK
  <1> QED
    BY <1>3, <1>4

LEMMA ClosePendingType ==
  ASSUME TypeOK, NEW to \in RowStates
  PROVE  ClosePending(to) \in [Iterations -> [Approvals -> RowStates]]
  BY DEF ClosePending, TypeOK, RowStates, Pending

LEMMA RejectRowType ==
  ASSUME TypeOK, NEW i \in Iterations, NEW n \in Approvals, NEW behaviour,
         RejectRow(i, n, behaviour)
  PROVE  /\ rows' \in [Iterations -> [Approvals -> RowStates]]
         /\ pc = "idle" /\ status = "RUNNING"
         /\ UNCHANGED <<born, form, queue, waiting, snapshot, saved>>
  <1>1. ClosePending("CANCELLED") \in [Iterations -> [Approvals -> RowStates]]
    BY ClosePendingType DEF RowStates, Closed
  <1> HIDE DEF ClosePending
  <1> QED
    BY <1>1 DEF RejectRow, RowStates, Closed

(* One step of the executor keeps the types.                               *)
LEMMA ProcessType ==
  ASSUME TypeOK, NEW n \in Nodes,
         \/ SkipNode(n) \/ ExecuteStart(n) \/ ExecuteEnd(n) \/ ExecuteCondition(n)
         \/ RevisitApproval(n) \/ CreateApproval(n) \/ FailApproval(n)
  PROVE  TypeOK'
  <1>b. << >> \in Seq(Nodes)
    OBVIOUS
  <1>a. n \in Linked => <<NextOf[n]>> \in Seq(Nodes)
    BY NextOfIsNode
  <1>1. CASE SkipNode(n)
    BY <1>1, <1>b, AdvanceType DEF SkipNode, TypeOK
  <1>2. CASE ExecuteStart(n)
    <2>1. n \in Linked
      BY <1>2 DEF ExecuteStart, Linked
    <2> QED
      BY <1>2, <1>a, <2>1, AdvanceType DEF ExecuteStart, TypeOK
  <1>3. CASE ExecuteEnd(n)
    BY <1>3, <1>b, AdvanceType DEF ExecuteEnd, TypeOK
  <1>4. CASE ExecuteCondition(n)
    <2>1. CASE Branches[snapshot][n] = << >>
      <3>1. Abort(rows, born)
        BY <1>4, <2>1 DEF ExecuteCondition
      <3> QED
        BY <3>1, AbortType DEF TypeOK
    <2>2. CASE Branches[snapshot][n] # << >>
      <3>1. Branches[snapshot][n] \in Seq(Nodes)
        BY <1>4, GraphAssumption DEF ExecuteCondition, TypeOK
      <3>2. Process(n) /\ Advance(Branches[snapshot][n]) /\ UNCHANGED <<rows, born, waiting>>
        BY <1>4, <2>2 DEF ExecuteCondition
      <3> QED
        BY <3>1, <3>2, AdvanceType DEF TypeOK
    <2> QED
      BY <2>1, <2>2
  <1>5. CASE RevisitApproval(n)
    <2>1. n \in Linked
      BY <1>5, ApprovalsAreLinked DEF RevisitApproval, PresentRows, RowsIn
    <2>2. CASE n \in PendingRows
      BY <1>5, <2>2, <1>b, AdvanceType DEF RevisitApproval, TypeOK
    <2>3. CASE n \notin PendingRows
      BY <1>5, <2>1, <2>3, <1>a, AdvanceType DEF RevisitApproval, TypeOK
    <2> QED
      BY <2>2, <2>3
  <1>6. CASE CreateApproval(n)
    <2>1. n \in Approvals /\ n \in Linked
      BY <1>6, ApprovalsAreLinked DEF CreateApproval
    <2>2. /\ WithRow(n, "APPROVED") \in [Iterations -> [Approvals -> RowStates]]
          /\ WithRow(n, "OPEN") \in [Iterations -> [Approvals -> RowStates]]
          /\ WithBirth(n) \in [Iterations -> [Approvals -> Nat]]
      BY <2>1, WithRowType DEF RowStates, Closed, Pending
    <2>3. CASE Reuse[n] /\ Approver[n] \in PriorApprovedUsers
      <3>1. /\ Process(n) /\ Advance(<<NextOf[n]>>)
            /\ rows' = WithRow(n, "APPROVED") /\ born' = WithBirth(n)
            /\ UNCHANGED waiting
        BY <1>6, <2>3 DEF CreateApproval
      <3> QED
        BY <3>1, <2>1, <2>2, <1>a, AdvanceType DEF TypeOK
    <2>4. CASE ~ (Reuse[n] /\ Approver[n] \in PriorApprovedUsers)
      <3>1. /\ Process(n) /\ Advance(<< >>)
            /\ rows' = WithRow(n, "OPEN") /\ born' = WithBirth(n)
            /\ waiting' = TRUE
        BY <1>6, <2>4 DEF CreateApproval
      <3> QED
        BY <3>1, <2>2, <1>b, AdvanceType DEF TypeOK
    <2> QED
      BY <2>3, <2>4
  <1>7. CASE FailApproval(n)
    <2>1. n \in Approvals /\ Abort(WithRow(n, "BARE"), WithBirth(n))
      BY <1>7 DEF FailApproval
    <2>2. /\ WithRow(n, "BARE") \in [Iterations -> [Approvals -> RowStates]]
          /\ WithBirth(n) \in [Iterations -> [Approvals -> Nat]]
      BY <2>1, WithRowType DEF RowStates, Pending
    <2> QED
      BY <2>1, <2>2, AbortType
  <1> QED
    BY <1>1, <1>2, <1>3, <1>4, <1>5, <1>6, <1>7

LEMMA SendToType ==
  ASSUME TypeOK, NEW t \in Nodes, SendTo(t)
  PROVE  /\ iteration' \in Iterations /\ resume' \in Nodes
         /\ pc' = "start" /\ reached' = {} /\ UNCHANGED status
  BY ExecutorAssumption DEF SendTo, TypeOK, Iterations

(* One request keeps the types.                                            *)
LEMMA RequestType ==
  ASSUME TypeOK, NEW i \in Iterations, NEW n \in Approvals, NEW f \in Forms,
         Approve(i, n, f) \/ Reject(i, n)
  PROVE  TypeOK'
  <1>1. CASE Approve(i, n, f)
    BY <1>1 DEF Approve, TypeOK, RowStates, Closed
  <1>2. CASE handleCloseApplication(i, n)
    BY <1>2, RejectRowType DEF handleCloseApplication, TypeOK, Statuses
  <1>3. CASE handleReturnToApplicant(i, n)
    BY <1>3, RejectRowType DEF handleReturnToApplicant, TypeOK, Statuses
  <1>4. CASE handleSendToSpecificNode(i, n)
    <2>1. PICK t \in SendTargets[n] : SendTo(t)
      BY <1>4 DEF handleSendToSpecificNode
    <2>2. t \in Nodes
      BY <2>1, ExecutorAssumption
    <2> QED
      BY <1>4, <2>1, <2>2, SendToType, RejectRowType
      DEF handleSendToSpecificNode, TypeOK
  <1>5. CASE handleBackToPreviousNode(i, n)
    <2>1. PICK t \in PreviousNodes(i, n) : SendTo(t)
      BY <1>5 DEF handleBackToPreviousNode
    <2>2. t \in Nodes
      BY <2>1 DEF PreviousNodes, findPredecessors
    <2> QED
      BY <1>5, <2>1, <2>2, SendToType, RejectRowType
      DEF handleBackToPreviousNode, TypeOK
  <1> QED
    BY <1>1, <1>2, <1>3, <1>4, <1>5 DEF Reject

(* The initial state has the type.                                         *)
LEMMA InitType == Init => TypeOK
  <1> SUFFICES ASSUME Init PROVE TypeOK
    OBVIOUS
  <1>1. iteration \in Iterations
    BY ExecutorAssumption DEF Init, Iterations
  <1>2. rows \in [Iterations -> [Approvals -> RowStates]]
    BY DEF Init, NoRows, RowStates
  <1>3. born \in [Iterations -> [Approvals -> Nat]]
    BY DEF Init, NoAge
  <1>4. queue \in Seq(Nodes)
    BY DEF Init
  <1> QED
    BY <1>1, <1>2, <1>3, <1>4 DEF Init, TypeOK, Statuses

LEMMA NextType == TypeOK /\ [Next]_vars => TypeOK'
  <1> SUFFICES ASSUME TypeOK, [Next]_vars PROVE TypeOK'
    OBVIOUS
  <1>1. CASE StartPass
    <2>1. queue' \in Seq(Nodes)
      BY <1>1, CurrentNodesAreQueue DEF StartPass
    <2>2. reached' \subseteq Nodes
      BY <1>1, <2>1 DEF StartPass, ToSet, TypeOK
    <2> QED
      BY <1>1, <2>1, <2>2 DEF StartPass, TypeOK
  <1>2. CASE FinishPass
    BY <1>2 DEF FinishPass, TypeOK
  <1>3. CASE CompleteWorkflow
    <2>1. ClosePending("CANCELLED") \in [Iterations -> [Approvals -> RowStates]]
      BY ClosePendingType DEF RowStates, Closed
    <2> QED
      BY <1>3, <2>1 DEF CompleteWorkflow, TypeOK, Statuses
  <1>4. ASSUME NEW n \in Nodes,
               \/ SkipNode(n) \/ ExecuteStart(n) \/ ExecuteEnd(n)
               \/ ExecuteCondition(n) \/ RevisitApproval(n)
               \/ CreateApproval(n) \/ FailApproval(n)
        PROVE  TypeOK'
    BY <1>4, ProcessType
  <1>5. CASE Crash
    BY <1>5, AbortType DEF Crash, TypeOK
  <1>6. ASSUME NEW f \in Forms, saveApplicationInstance(f) PROVE TypeOK'
    BY <1>6 DEF saveApplicationInstance, engine, TypeOK
  <1>7. CASE submit
    BY <1>7 DEF submit, TypeOK, Iterations, Statuses
  <1>8. CASE ApproveSomewhere
    BY <1>8, RequestType DEF ApproveSomewhere
  <1>9. ASSUME NEW i \in Iterations, NEW n \in Approvals, Reject(i, n)
        PROVE  TypeOK'
    BY <1>9, RequestType, GraphAssumption
  <1>10. CASE WithdrawRunning
    <2>1. ClosePending("DONE") \in [Iterations -> [Approvals -> RowStates]]
      BY ClosePendingType DEF RowStates, Closed
    <2> QED
      BY <1>10, <2>1 DEF WithdrawRunning, engine, TypeOK, Statuses
  <1>11. CASE ForceDelete
    <2>1. NoRows \in [Approvals -> RowStates] /\ NoAge \in [Approvals -> Nat]
      BY DEF NoRows, NoAge, RowStates
    <2> QED
      BY <1>11, <2>1 DEF ForceDelete, engine, TypeOK, Statuses
  <1>12. CASE UNCHANGED vars
    BY <1>12 DEF vars, TypeOK
  <1> QED
    BY <1>1, <1>2, <1>3, <1>4, <1>5, <1>6, <1>7, <1>8, <1>9, <1>10, <1>11, <1>12
    DEF Next, ExecutorStep

(* Whatever the flow and the order of the requests, instance, rows and     *)
(* queue keep their types.                                                 *)
THEOREM TypeCorrect == Spec => []TypeOK
  BY InitType, NextType, PTL DEF Spec

--------------------------------------------------------------------------------
(* Nothing is left to decide outside a running application's iteration.    *)

(* The inductive invariant.  A pass runs only on a RUNNING application; a  *)
(* submission in progress is in the iteration it started from or in the    *)
(* next; no row of another iteration is pending, a later one has no row at *)
(* all; and no row is pending at all unless the application is RUNNING.    *)
PassesRun == pc # "idle" => status = "RUNNING"

SubmissionOpen ==
  saved # 0 => /\ pc # "idle"
               /\ saved = iteration \/ saved + 1 = iteration

OthersClosed ==
  \A i \in Iterations, n \in Approvals :
    i # iteration => /\ rows[i][n] \notin Pending
                     /\ i > iteration => rows[i][n] = "NONE"

Quiet ==
  status # "RUNNING" => \A i \in Iterations, n \in Approvals : rows[i][n] \notin Pending

IInv == PassesRun /\ SubmissionOpen /\ OthersClosed /\ Quiet

(* It gives the two invariants that the runs check.                        *)
LEMMA IInvImplies ==
  ASSUME TypeOK, IInv
  PROVE  OtherIterationsClosed /\ NoWorkOutsideRunning
  <1>1. OtherIterationsClosed
    <2> SUFFICES ASSUME NEW i \in Iterations, i # iteration
                 PROVE  RowsIn(i, IF i < iteration THEN Pending ELSE Pending \cup Closed) = {}
      BY DEF OtherIterationsClosed
    <2>1. \A n \in Approvals : rows[i][n] \notin Pending
      BY DEF IInv, OthersClosed
    <2>2. ~ (i < iteration) => \A n \in Approvals : rows[i][n] \notin Pending \cup Closed
      <3>1. ~ (i < iteration) => i > iteration
        BY ExecutorAssumption DEF TypeOK, Iterations
      <3> QED
        BY <2>1, <3>1 DEF IInv, OthersClosed, Closed
    <2> QED
      BY <2>1, <2>2 DEF RowsIn
  <1>2. NoWorkOutsideRunning
    BY DEF IInv, Quiet, NoWorkOutsideRunning, RowsIn
  <1> QED
    BY <1>1, <1>2

LEMMA InitIInv == Init => IInv
  BY DEF Init, IInv, PassesRun, SubmissionOpen, OthersClosed, Quiet, NoRows, Pending

(* A step inside a pass touches the rows of the current iteration only.    *)
LEMMA PassStep ==
  ASSUME TypeOK, IInv, pc # "idle", pc' # "idle",
         UNCHANGED <<status, iteration>>, saved' = saved,
         \A i \in Iterations : i # iteration => rows'[i] = rows[i]
  PROVE  IInv'
  BY DEF IInv, PassesRun, SubmissionOpen, OthersClosed, Quiet

(* A rolled back submission leaves a quiet draft; any other pass that      *)
(* fails leaves a running application.                                     *)
LEMMA AbortStep ==
  ASSUME TypeOK, IInv, pc # "idle",
         NEW rows1 \in [Iterations -> [Approvals -> RowStates]], NEW born1,
         \A i \in Iterations : i # iteration => rows1[i] = rows[i],
         Abort(rows1, born1)
  PROVE  IInv'
  <1>1. status = "RUNNING" /\ pc' = "idle" /\ saved' = 0
    BY DEF IInv, PassesRun, Abort
  <1>2. CASE saved = 0
    BY <1>1, <1>2 DEF Abort, IInv, PassesRun, SubmissionOpen, OthersClosed, Quiet
  <1>3. CASE saved # 0
    <2>1. /\ status' = "DRAFT" /\ iteration' = saved
          /\ rows' = [rows EXCEPT ![iteration] = NoRows]
      BY <1>3 DEF Abort
    <2>2. saved = iteration \/ saved + 1 = iteration
      BY <1>3 DEF IInv, SubmissionOpen
    <2>3. saved \in Int /\ iteration \in Int /\ Iterations \subseteq Int
      BY ExecutorAssumption DEF TypeOK, Iterations
    <2>4. \A i \in Iterations, n \in Approvals : rows'[i][n] \notin Pending
      BY <2>1 DEF IInv, OthersClosed, TypeOK, NoRows, Pending
    <2>5. \A i \in Iterations, n \in Approvals : i > saved => rows'[i][n] = "NONE"
      <3> SUFFICES ASSUME NEW i \in Iterations, NEW n \in Approvals, i > saved
                   PROVE  rows'[i][n] = "NONE"
        OBVIOUS
      <3>1. CASE i = iteration
        BY <2>1, <3>1 DEF TypeOK, NoRows
      <3>2. CASE i # iteration
        <4>1. i > iteration
          BY <2>2, <2>3, <3>2
        <4> QED
          BY <2>1, <3>2, <4>1 DEF TypeOK, IInv, OthersClosed
      <3> QED
        BY <3>1, <3>2
    <2> QED
      BY <1>1, <2>1, <2>4, <2>5 DEF IInv, PassesRun, SubmissionOpen, OthersClosed, Quiet
  <1> QED
    BY <1>2, <1>3

(* Closing the pending rows of a running application leaves none.          *)
LEMMA ClosePendingCloses ==
  ASSUME TypeOK, IInv, NEW to \in Closed
  PROVE  /\ \A i \in Iterations, n \in Approvals : ClosePending(to)[i][n] \notin Pending
         /\ \A i \in Iterations, n \in Approvals :
              i > iteration => ClosePending(to)[i][n] = "NONE"
  <1> SUFFICES ASSUME NEW i \in Iterations, NEW n \in Approvals
               PROVE  /\ ClosePending(to)[i][n] \notin Pending
                      /\ i > iteration => ClosePending(to)[i][n] = "NONE"
    OBVIOUS
  <1>1. iteration \in Int /\ i \in Int
    BY ExecutorAssumption DEF TypeOK, Iterations
  <1>2. to \notin Pending
    BY DEF Closed, Pending
  <1>3. CASE i = iteration
    <2>1. ~ (i > iteration)
      BY <1>1, <1>3
    <2> QED
      BY <1>2, <1>3, <2>1 DEF ClosePending, Pending
  <1>4. CASE i # iteration
    <2>1. rows[i][n] \notin Pending /\ (i > iteration => rows[i][n] = "NONE")
      BY <1>4 DEF IInv, OthersClosed
    <2> QED
      BY <1>4, <2>1 DEF ClosePending, Pending
  <1> QED
    BY <1>3, <1>4

(* A rejection leaves nothing pending, in whatever iteration goes on.      *)
LEMMA RejectCloses ==
  ASSUME TypeOK, IInv, NEW i \in Iterations, NEW n \in Approvals, NEW behaviour,
         RejectRow(i, n, behaviour)
  PROVE  /\ i = iteration /\ saved' = 0
         /\ \A j \in Iterations, m \in Approvals : rows'[j][m] \notin Pending
         /\ \A j \in Iterations, m \in Approvals : j > iteration => rows'[j][m] = "NONE"
  <1>1. i = iteration
    BY DEF RejectRow, IInv, OthersClosed, Pending
  <1>2. saved = 0 /\ saved' = saved
    BY DEF RejectRow, IInv, SubmissionOpen
  <1>3. ClosePending("CANCELLED") \in [Iterations -> [Approvals -> RowStates]]
    BY ClosePendingType DEF RowStates, Closed
  <1>4. /\ \A j \in Iterations, m \in Approvals : ClosePending("CANCELLED")[j][m] \notin Pending
        /\ \A j \in Iterations, m \in Approvals :
             j > iteration => ClosePending("CANCELLED")[j][m] = "NONE"
    BY ClosePendingCloses DEF Closed
  <1>5. rows' = [ClosePending("CANCELLED") EXCEPT ![i] = [@ EXCEPT ![n] = "REJECTED"]]
    BY DEF RejectRow
  <1>6. iteration \in Int
    BY ExecutorAssumption DEF TypeOK, Iterations
  <1> HIDE DEF ClosePending
  <1> QED
    BY <1>1, <1>2, <1>3, <1>4, <1>5, <1>6 DEF Pending

LEMMA ProcessIInv ==
  ASSUME TypeOK, IInv, NEW n \in Nodes,
         \/ SkipNode(n) \/ ExecuteStart(n) \/ ExecuteEnd(n) \/ ExecuteCondition(n)
         \/ RevisitApproval(n) \/ CreateApproval(n) \/ FailApproval(n)
  PROVE  IInv'
  <1>1. pc = "loop"
    BY DEF SkipNode, ExecuteStart, ExecuteEnd, ExecuteCondition, RevisitApproval,
           CreateApproval, FailApproval, Process
  <1>2. CASE SkipNode(n) \/ ExecuteStart(n) \/ ExecuteEnd(n) \/ RevisitApproval(n)
    <2>1. UNCHANGED <<status, iteration, pc, saved, rows>>
      BY <1>2 DEF SkipNode, ExecuteStart, ExecuteEnd, RevisitApproval, Advance
    <2> QED
      BY <1>1, <2>1, PassStep
  <1>3. CASE ExecuteCondition(n)
    <2>1. CASE Branches[snapshot][n] = << >>
      <3>1. Abort(rows, born)
        BY <1>3, <2>1 DEF ExecuteCondition
      <3> QED
        BY <1>1, <3>1, AbortStep DEF TypeOK
    <2>2. CASE Branches[snapshot][n] # << >>
      <3>1. UNCHANGED <<status, iteration, pc, saved, rows>>
        BY <1>3, <2>2 DEF ExecuteCondition, Advance
      <3> QED
        BY <1>1, <3>1, PassStep
    <2> QED
      BY <2>1, <2>2
  <1>4. CASE CreateApproval(n)
    <2>1. /\ UNCHANGED <<status, iteration, pc, saved>>
          /\ rows' = WithRow(n, "APPROVED") \/ rows' = WithRow(n, "OPEN")
      BY <1>4 DEF CreateApproval, Advance
    <2>2. \A i \in Iterations : i # iteration => rows'[i] = rows[i]
      BY <2>1 DEF WithRow, TypeOK
    <2> QED
      BY <1>1, <2>1, <2>2, PassStep
  <1>5. CASE FailApproval(n)
    <2>1. n \in Approvals /\ Abort(WithRow(n, "BARE"), WithBirth(n))
      BY <1>5 DEF FailApproval
    <2>2. WithRow(n, "BARE") \in [Iterations -> [Approvals -> RowStates]]
      BY <2>1, WithRowType DEF RowStates, Pending
    <2>3. \A i \in Iterations : i # iteration => WithRow(n, "BARE")[i] = rows[i]
      BY DEF WithRow, TypeOK
    <2> QED
      BY <1>1, <2>1, <2>2, <2>3, AbortStep
  <1> QED
    BY <1>2, <1>3, <1>4, <1>5

LEMMA RequestIInv ==
  ASSUME TypeOK, IInv, NEW i \in Iterations, NEW n \in Approvals, NEW f \in Forms,
         Approve(i, n, f) \/ Reject(i, n)
  PROVE  IInv'
  <1>1. CASE Approve(i, n, f)
    <2>1. i = iteration /\ status = "RUNNING"
      BY <1>1 DEF Approve, IInv, OthersClosed, Pending
    <2>2. /\ UNCHANGED <<status, iteration, saved>> /\ pc' = "start"
          /\ rows' = [rows EXCEPT ![i] = [@ EXCEPT ![n] = "APPROVED"]]
      BY <1>1 DEF Approve
    <2> QED
      BY <2>1, <2>2
      DEF TypeOK, IInv, PassesRun, SubmissionOpen, OthersClosed, Quiet
  <1>2. CASE handleCloseApplication(i, n)
    BY <1>2, RejectCloses
    DEF handleCloseApplication, RejectRow, IInv, PassesRun, SubmissionOpen, OthersClosed, Quiet
  <1>3. CASE handleReturnToApplicant(i, n)
    BY <1>3, RejectCloses
    DEF handleReturnToApplicant, RejectRow, IInv, PassesRun, SubmissionOpen, OthersClosed, Quiet
  <1>4. ASSUME NEW behaviour, NEW t, RejectRow(i, n, behaviour), SendTo(t)
        PROVE  IInv'
    <2>1. /\ saved' = 0 /\ status' = "RUNNING" /\ iteration' = iteration + 1
          /\ \A j \in Iterations, m \in Approvals : rows'[j][m] \notin Pending
          /\ \A j \in Iterations, m \in Approvals : j > iteration => rows'[j][m] = "NONE"
      BY <1>4, RejectCloses DEF SendTo, RejectRow
    <2>2. iteration \in Int /\ Iterations \subseteq Int
      BY ExecutorAssumption DEF TypeOK, Iterations
    <2>3. \A j \in Iterations : j > iteration' => j > iteration
      BY <2>1, <2>2
    <2> QED
      BY <2>1, <2>3 DEF IInv, PassesRun, SubmissionOpen, OthersClosed, Quiet
  <1>5. CASE handleSendToSpecificNode(i, n)
    BY <1>4, <1>5 DEF handleSendToSpecificNode
  <1>6. CASE handleBackToPreviousNode(i, n)
    BY <1>4, <1>6 DEF handleBackToPreviousNode
  <1> QED
    BY <1>1, <1>2, <1>3, <1>5, <1>6 DEF Reject

LEMMA NextIInv == TypeOK /\ IInv /\ [Next]_vars => IInv'
  <1> SUFFICES ASSUME TypeOK, IInv, [Next]_vars PROVE IInv'
    OBVIOUS
  <1>1. CASE StartPass
    <2>1. pc # "idle" /\ pc' # "idle" /\ UNCHANGED <<status, iteration, rows, saved>>
      BY <1>1 DEF StartPass
    <2> QED
      BY <2>1, PassStep
  <1>2. CASE FinishPass
    BY <1>2 DEF FinishPass, IInv, PassesRun, SubmissionOpen, OthersClosed, Quiet
  <1>3. CASE CompleteWorkflow
    <2>1. /\ \A i \in Iterations, n \in Approvals : rows'[i][n] \notin Pending
          /\ \A i \in Iterations, n \in Approvals : i > iteration => rows'[i][n] = "NONE"
      BY <1>3, ClosePendingCloses DEF CompleteWorkflow, Closed
    <2>2. pc' = "idle" /\ saved' = 0 /\ iteration' = iteration
      BY <1>3 DEF CompleteWorkflow
    <2> QED
      BY <2>1, <2>2 DEF IInv, PassesRun, SubmissionOpen, OthersClosed, Quiet
  <1>4. ASSUME NEW n \in Nodes,
               \/ SkipNode(n) \/ ExecuteStart(n) \/ ExecuteEnd(n)
               \/ ExecuteCondition(n) \/ RevisitApproval(n)
               \/ CreateApproval(n) \/ FailApproval(n)
        PROVE  IInv'
    BY <1>4, ProcessIInv
  <1>5. CASE Crash
    BY <1>5, AbortStep DEF Crash, TypeOK
  <1>6. ASSUME NEW f \in Forms, saveApplicationInstance(f) PROVE IInv'
    BY <1>6 DEF saveApplicationInstance, engine, IInv, PassesRun, SubmissionOpen, OthersClosed, Quiet
  <1>7. CASE submit
    <2>1. /\ status = "DRAFT" /\ status' = "RUNNING" /\ pc' = "start" /\ pc = "idle"
          /\ saved' = iteration /\ rows' = rows
          /\ iteration' = iteration \/ iteration' = iteration + 1
      BY <1>7 DEF submit
    <2>2. \A i \in Iterations, n \in Approvals : rows[i][n] \notin Pending
      BY <2>1 DEF IInv, Quiet
    <2>3. iteration \in Int /\ Iterations \subseteq Int
      BY ExecutorAssumption DEF TypeOK, Iterations
    <2>4. \A i \in Iterations : i > iteration' => i > iteration /\ i # iteration
      BY <2>1, <2>3
    <2>5. OthersClosed'
      BY <2>1, <2>2, <2>4 DEF IInv, OthersClosed
    <2>6. PassesRun' /\ SubmissionOpen' /\ Quiet'
      BY <2>1 DEF PassesRun, SubmissionOpen, Quiet
    <2> QED
      BY <2>5, <2>6 DEF IInv
  <1>8. CASE ApproveSomewhere
    BY <1>8, RequestIInv DEF ApproveSomewhere
  <1>9. ASSUME NEW i \in Iterations, NEW n \in Approvals, Reject(i, n)
        PROVE  IInv'
    BY <1>9, RequestIInv, GraphAssumption
  <1>10. CASE WithdrawRunning
    <2>1. /\ \A i \in Iterations, n \in Approvals : rows'[i][n] \notin Pending
          /\ \A i \in Iterations, n \in Approvals : i > iteration => rows'[i][n] = "NONE"
      BY <1>10, ClosePendingCloses DEF WithdrawRunning, Closed
    <2> QED
      BY <1>10, <2>1
      DEF WithdrawRunning, engine, IInv, PassesRun, SubmissionOpen, OthersClosed, Quiet
  <1>11. CASE ForceDelete
    <2>1. /\ status = "DRAFT" /\ UNCHANGED <<iteration, pc, saved>> /\ pc = "idle"
          /\ rows' = [rows EXCEPT ![iteration] = NoRows]
      BY <1>11 DEF ForceDelete, engine
    <2>2. \A i \in Iterations, n \in Approvals : rows[i][n] \notin Pending
      BY <2>1 DEF IInv, Quiet
    <2>3. \A i \in Iterations, n \in Approvals : rows'[i][n] \in {rows[i][n], "NONE"}
      BY <2>1 DEF NoRows, TypeOK
    <2>4. \A i \in Iterations, n \in Approvals : rows'[i][n] \notin Pending
      BY <2>2, <2>3 DEF Pending
    <2> QED
      BY <2>1, <2>3, <2>4
      DEF IInv, PassesRun, SubmissionOpen, OthersClosed, Quiet
  <1>12. CASE UNCHANGED vars
    BY <1>12 DEF vars, IInv, PassesRun, SubmissionOpen, OthersClosed, Quiet
  <1> QED
    BY <1>1, <1>2, <1>3, <1>4, <1>5, <1>6, <1>7, <1>8, <1>9, <1>10, <1>11, <1>12
    DEF Next, ExecutorStep

(* A closed iteration stays closed and an application that does not run    *)
(* has nothing left to decide, whichever way it stopped running.           *)
THEOREM NothingLeftBehind == Spec => [](OtherIterationsClosed /\ NoWorkOutsideRunning)
  <1>1. Init => TypeOK /\ IInv
    BY InitType, InitIInv
  <1>2. TypeOK /\ IInv /\ [Next]_vars => (TypeOK /\ IInv)'
    BY NextType, NextIInv
  <1>3. TypeOK /\ IInv => OtherIterationsClosed /\ NoWorkOutsideRunning
    BY IInvImplies
  <1> QED
    BY <1>1, <1>2, <1>3, PTL DEF Spec

(* A send-back, a resubmission or a crash never leaves an iteration with    *)
(* something to decide in it, on no flow graph.                             *)
THEOREM IterationsStayClosed == Spec => []OtherIterationsClosed
  BY NothingLeftBehind, PTL

(* An application that does not run asks nobody, on no flow graph.          *)
THEOREM NoWorkLeftBehind == Spec => []NoWorkOutsideRunning
  BY NothingLeftBehind, PTL

--------------------------------------------------------------------------------
(* No step overwrites a decision.                                          *)

Kept ==
  \A i \in Iterations, n \in Approvals :
    rows[i][n] \in Closed =>
      \/ rows'[i][n] = rows[i][n]
      \/ status' = "DELETED"
      \/ saved # 0 /\ i = iteration

(* Closing what is pending leaves the decisions alone.                     *)
LEMMA ClosePendingKeeps ==
  ASSUME NEW to, NEW i \in Iterations, NEW n \in Approvals, rows[i][n] \in Closed
  PROVE  ClosePending(to)[i][n] = rows[i][n]
  BY DEF ClosePending, Closed, Pending

LEMMA AbortKeeps ==
  ASSUME TypeOK, NEW rows1, NEW born1, Abort(rows1, born1),
         \A i \in Iterations, n \in Approvals :
           rows[i][n] \in Closed => rows1[i][n] = rows[i][n]
  PROVE  Kept
  <1>1. CASE saved = 0
    BY <1>1 DEF Abort, Kept
  <1>2. CASE saved # 0
    <2>1. rows' = [rows EXCEPT ![iteration] = NoRows]
      BY <1>2 DEF Abort
    <2> QED
      BY <1>2, <2>1 DEF Kept, TypeOK
  <1> QED
    BY <1>1, <1>2

(* A node without a row has nothing to lose.                               *)
LEMMA WithRowKeeps ==
  ASSUME TypeOK, NEW n \in Approvals \ PresentRows, NEW state
  PROVE  \A i \in Iterations, m \in Approvals :
           rows[i][m] \in Closed => WithRow(n, state)[i][m] = rows[i][m]
  <1>1. rows[iteration][n] \notin Closed
    BY DEF PresentRows, RowsIn
  <1> QED
    BY <1>1 DEF WithRow, TypeOK

LEMMA NextKeeps == TypeOK /\ [Next]_vars => Kept \/ UNCHANGED vars
  <1> SUFFICES ASSUME TypeOK, Next PROVE Kept
    OBVIOUS
  <1>1. CASE UNCHANGED rows
    BY <1>1 DEF Kept
  <1>2. ASSUME NEW n \in Nodes, CreateApproval(n) PROVE Kept
    <2>1. n \in Approvals \ PresentRows
      BY <1>2 DEF CreateApproval
    <2>2. rows' = WithRow(n, "APPROVED") \/ rows' = WithRow(n, "OPEN")
      BY <1>2 DEF CreateApproval
    <2> QED
      BY <2>1, <2>2, WithRowKeeps DEF Kept
  <1>3. ASSUME NEW n \in Nodes, FailApproval(n) PROVE Kept
    <2>1. n \in Approvals \ PresentRows /\ Abort(WithRow(n, "BARE"), WithBirth(n))
      BY <1>3 DEF FailApproval
    <2> QED
      BY <2>1, WithRowKeeps, AbortKeeps
  <1>4. ASSUME NEW n \in Nodes, ExecuteCondition(n) PROVE Kept
    BY <1>1, <1>4, AbortKeeps DEF ExecuteCondition
  <1>5. CASE Crash
    BY <1>5, AbortKeeps DEF Crash
  <1>6. CASE CompleteWorkflow \/ WithdrawRunning
    BY <1>6, ClosePendingKeeps DEF CompleteWorkflow, WithdrawRunning, Kept
  <1>7. CASE ApproveSomewhere
    <2>1. PICK i \in Iterations, n \in Approvals :
            /\ rows[i][n] = "OPEN"
            /\ rows' = [rows EXCEPT ![i] = [@ EXCEPT ![n] = "APPROVED"]]
      BY <1>7 DEF ApproveSomewhere, Approve
    <2> QED
      BY <2>1 DEF Kept, TypeOK, Closed
  <1>8. ASSUME NEW i \in Iterations, NEW n \in Approvals, Reject(i, n)
        PROVE  Kept
    <2>1. /\ rows[i][n] = "OPEN"
          /\ rows' = [ClosePending("CANCELLED") EXCEPT ![i] = [@ EXCEPT ![n] = "REJECTED"]]
      BY <1>8
      DEF Reject, RejectRow, handleCloseApplication, handleReturnToApplicant,
          handleSendToSpecificNode, handleBackToPreviousNode
    <2>2. ClosePending("CANCELLED") \in [Iterations -> [Approvals -> RowStates]]
      BY ClosePendingType DEF RowStates, Closed
    <2>3. \A j \in Iterations, m \in Approvals :
            rows[j][m] \in Closed => ClosePending("CANCELLED")[j][m] = rows[j][m]
      BY ClosePendingKeeps
    <2> HIDE DEF ClosePending
    <2> QED
      BY <2>1, <2>2, <2>3 DEF Kept, Closed
  <1>9. CASE ForceDelete
    BY <1>9 DEF ForceDelete, Kept
  <1> QED
    BY <1>1, <1>2, <1>3, <1>4, <1>5, <1>6, <1>7, <1>8, <1>9
    DEF Next, ExecutorStep, StartPass, FinishPass, saveApplicationInstance, submit,
        SkipNode, ExecuteStart, ExecuteEnd, RevisitApproval

(* An approval, rejection or cancellation that is recorded stays recorded, *)
(* for every flow and every sequence of requests, crashes included.        *)
THEOREM DecisionsAreKept == Spec => DecisionsKept
  <1>1. TypeOK /\ [Next]_vars => [Kept]_vars
    BY NextKeeps
  <1> QED
    BY <1>1, TypeCorrect, PTL DEF Spec, DecisionsKept, Kept

--------------------------------------------------------------------------------
(* The executor implements the abstract application.                       *)

LEMMA InitMaps == Init => Status!Init
  BY DEF Init, Status!Init

(* What others see of a step that fails.                                   *)
LEMMA AbortMaps ==
  ASSUME TypeOK, IInv, NEW rows1, NEW born1, Abort(rows1, born1)
  PROVE  UNCHANGED <<IF saved # 0 THEN "DRAFT" ELSE status,
                     IF saved # 0 THEN saved ELSE iteration>>
  BY DEF Abort

LEMMA NextMaps ==
  TypeOK /\ IInv /\ [Next]_vars =>
    [Status!Next]_<<IF saved # 0 THEN "DRAFT" ELSE status,
                    IF saved # 0 THEN saved ELSE iteration>>
  <1> DEFINE phase == IF saved # 0 THEN "DRAFT" ELSE status
             round == IF saved # 0 THEN saved ELSE iteration
  <1> SUFFICES ASSUME TypeOK, IInv, [Next]_vars
               PROVE  Status!Next \/ UNCHANGED <<phase, round>>
    OBVIOUS
  <1>1. CASE UNCHANGED <<status, iteration, saved>>
    BY <1>1
  <1>2. saved # 0 => saved = iteration \/ iteration = saved + 1
    BY DEF IInv, SubmissionOpen
  <1>3. ASSUME NEW rows1, NEW born1, Abort(rows1, born1)
        PROVE  UNCHANGED <<phase, round>>
    BY <1>3, AbortMaps
  <1>4. CASE FinishPass
    <2>1. status = "RUNNING"
      BY <1>4 DEF FinishPass, IInv, PassesRun
    <2> QED
      BY <1>2, <1>4, <2>1
      DEF FinishPass, Status!Next, Status!Submit, Status!Move
  <1>5. CASE CompleteWorkflow
    <2>1. status = "RUNNING"
      BY <1>5 DEF CompleteWorkflow, IInv, PassesRun
    <2> QED
      BY <1>2, <1>5, <2>1
      DEF CompleteWorkflow, Status!Next, Status!Submit, Status!Decide, Status!Move
  <1>6. ASSUME NEW n \in Nodes,
               \/ SkipNode(n) \/ ExecuteStart(n) \/ ExecuteEnd(n)
               \/ RevisitApproval(n) \/ CreateApproval(n)
        PROVE  UNCHANGED <<status, iteration, saved>>
    BY <1>6 DEF SkipNode, ExecuteStart, ExecuteEnd, RevisitApproval, CreateApproval, Advance
  <1>7. ASSUME NEW n \in Nodes, ExecuteCondition(n) \/ FailApproval(n)
        PROVE  UNCHANGED <<phase, round>>
    BY <1>1, <1>3, <1>7 DEF ExecuteCondition, FailApproval, Advance
  <1>8. CASE submit
    <2>1. saved = 0
      BY <1>8 DEF submit, IInv, SubmissionOpen
    <2>2. saved' = iteration /\ iteration # 0 /\ status = "DRAFT"
      BY <1>8, ExecutorAssumption DEF submit, TypeOK, Iterations
    <2> QED
      BY <2>1, <2>2
  <1>9. ASSUME NEW i \in Iterations, NEW n \in Approvals, Reject(i, n)
        PROVE  Status!Next
    <2>1. status = "RUNNING" /\ saved = 0 /\ saved' = 0
      BY <1>9
      DEF Reject, RejectRow, handleCloseApplication, handleReturnToApplicant,
          handleSendToSpecificNode, handleBackToPreviousNode, IInv, SubmissionOpen
    <2>2. \/ status' \in {"REJECTED", "DRAFT"} /\ iteration' = iteration
          \/ status' = "RUNNING" /\ iteration' = iteration + 1
      BY <1>9, <2>1
      DEF Reject, RejectRow, handleCloseApplication, handleReturnToApplicant,
          handleSendToSpecificNode, handleBackToPreviousNode, SendTo
    <2> QED
      BY <2>1, <2>2
      DEF Status!Next, Status!Decide, Status!SendBack, Status!Move
  <1>10. CASE WithdrawRunning \/ ForceDelete
    <2>1. saved = 0 /\ saved' = 0
      BY <1>10 DEF WithdrawRunning, ForceDelete, engine, IInv, SubmissionOpen
    <2> QED
      BY <1>10, <2>1
      DEF WithdrawRunning, ForceDelete, Status!Next, Status!Withdraw, Status!Move
  <1> HIDE DEF phase, round
  <1> QED
    BY <1>1, <1>3, <1>4, <1>5, <1>6, <1>7, <1>8, <1>9, <1>10
    DEF Next, ExecutorStep, StartPass, saveApplicationInstance, engine, Crash, ApproveSomewhere,
        Approve, vars

(* The engine, pass by pass and crash by crash, shows others the life of   *)
(* an application that ApplicationStatus describes.                        *)
THEOREM ExecutorImplementsStatus == Spec => ImplementsStatus
  <1>1. Init => TypeOK /\ IInv
    BY InitType, InitIInv
  <1>2. TypeOK /\ IInv /\ [Next]_vars => (TypeOK /\ IInv)'
    BY NextType, NextIInv
  <1> QED
    BY <1>1, <1>2, InitMaps, NextMaps, PTL DEF Spec, ImplementsStatus, Status!Spec
================================================================================
