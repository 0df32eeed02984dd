-------------------------- MODULE FlowProgress_proofs --------------------------
(***************************************************************************)
(* What a pass of the executor leaves behind when it does not fail: an     *)
(* application that runs waits for somebody, and one that is completed has *)
(* forgotten no branch.  For every flow graph, or for those whose joins    *)
(* are on every way, every reject behaviour and every edit of the form.    *)
(***************************************************************************)
EXTENDS FlowExecutor_proofs, WellFoundedInduction

(* No pass ends by an exception or a crash: approvers resolve to somebody, *)
(* and whatever the form says, a condition has a branch to take.           *)
PassesSucceed ==
  /\ ~ CanCrash
  /\ Unstaffable = {}
  /\ \A f \in Forms, c \in Conditions : Branches[f][c] # << >>

USE DEF WellFormed, Acyclic

--------------------------------------------------------------------------------
(* Walks through the flow.                                                 *)

LEMMA WalkBegins ==
  ASSUME NEW n \in Nodes, NEW step
  PROVE  n \in WalkFrom(n, step)
  BY DEF WalkFrom

LEMMA WalkGoesOn ==
  ASSUME NEW step \in [Nodes -> SUBSET Nodes], NEW n \in Nodes,
         NEW m \in WalkFrom(n, step), NEW k \in step[m]
  PROVE  k \in WalkFrom(n, step)
  <1>1. m \in Nodes /\ k \in Nodes
    BY DEF WalkFrom
  <1>2. ASSUME NEW S \in SUBSET Nodes, n \in S, \A x \in S : step[x] \subseteq S
        PROVE  k \in S
    BY <1>2 DEF WalkFrom
  <1> QED BY <1>1, <1>2 DEF WalkFrom

(* What no step leaves, no walk leaves.                                    *)
LEMMA WalkStays ==
  ASSUME NEW step, NEW n, NEW S \in SUBSET Nodes, n \in S,
         \A x \in S : step[x] \subseteq S
  PROVE  WalkFrom(n, step) \subseteq S
  BY DEF WalkFrom

LEMMA EdgesAreNodes ==
  /\ \A n \in Nodes : NextNodes(n) \subseteq Nodes
  /\ Successors \in [Nodes -> SUBSET Nodes]
  /\ Predecessors \in [Nodes -> SUBSET Nodes]
  <1>1. ASSUME NEW n \in Nodes PROVE NextNodes(n) \subseteq Nodes
    <2>1. n \in Linked => NextNodes(n) \subseteq Nodes
      BY NextOfIsNode DEF NextNodes
    <2>2. \A f \in Forms : n \in Conditions => ToSet(Branches[f][n]) \subseteq Nodes
      BY GraphAssumption DEF ToSet
    <2>3. n \notin Linked /\ n \in Conditions => NextNodes(n) \subseteq Nodes
      BY <2>2 DEF NextNodes
    <2> QED BY <2>1, <2>3 DEF NextNodes
  <1> QED BY <1>1 DEF Successors, Predecessors, findPredecessors

LEMMA ReachesIs ==
  /\ \A n \in Nodes : Reaches[n] \subseteq Nodes /\ n \in Reaches[n]
  /\ \A n \in Nodes : \A m \in Reaches[n] : NextNodes(m) \subseteq Reaches[n]
  /\ \A n \in Nodes : \A m \in Reaches[n] : Reaches[m] \subseteq Reaches[n]
  <1>1. \A n \in Nodes : Reaches[n] = WalkFrom(n, Successors)
    BY DEF Reaches
  <1>2. \A n \in Nodes : Reaches[n] \subseteq Nodes /\ n \in Reaches[n]
    BY <1>1, WalkBegins DEF WalkFrom
  <1>3. \A n \in Nodes : \A m \in Reaches[n] : NextNodes(m) \subseteq Reaches[n]
    <2> SUFFICES ASSUME NEW n \in Nodes, NEW m \in Reaches[n], NEW k \in NextNodes(m)
                 PROVE  k \in Reaches[n]
      OBVIOUS
    <2>1. m \in Nodes /\ k \in Successors[m]
      BY <1>2 DEF Successors
    <2> QED BY <1>1, <2>1, EdgesAreNodes, WalkGoesOn
  <1>4. ASSUME NEW n \in Nodes, NEW m \in Reaches[n] PROVE Reaches[m] \subseteq Reaches[n]
    <2>1. \A x \in Reaches[n] : Successors[x] \subseteq Reaches[n]
      BY <1>2, <1>3 DEF Successors
    <2> QED BY <1>1, <1>2, <2>1, WalkStays
  <1> QED BY <1>2, <1>3, <1>4

(* A walk that goes anywhere begins with a step.                           *)
LEMMA FirstStep ==
  ASSUME NEW m \in Nodes, NEW n \in Reaches[m], m # n
  PROVE  \E k \in NextNodes(m) : n \in Reaches[k]
  <1> DEFINE S == {m} \cup UNION {Reaches[k] : k \in NextNodes(m)}
  <1>1. \A k \in NextNodes(m) : /\ k \in Nodes /\ k \in Reaches[k] /\ Reaches[k] \subseteq Nodes
                                /\ \A x \in Reaches[k] : NextNodes(x) \subseteq Reaches[k]
    BY EdgesAreNodes, ReachesIs
  <1>2. S \in SUBSET Nodes /\ m \in S
    BY <1>1
  <1>3. ASSUME NEW x \in S PROVE Successors[x] \subseteq S
    <2>1. x \in Nodes /\ Successors[x] = NextNodes(x)
      BY <1>2 DEF Successors
    <2>2. CASE x = m
      BY <1>1, <2>1, <2>2
    <2>3. CASE x # m
      <3>1. PICK k \in NextNodes(m) : x \in Reaches[k]
        BY <2>3
      <3> QED BY <1>1, <2>1, <3>1
    <2> QED BY <2>2, <2>3
  <1> HIDE DEF S
  <1>4. Reaches[m] \subseteq S
    BY <1>2, <1>3, WalkStays DEF Reaches
  <1> QED BY <1>4 DEF S

LEMMA NoCycle ==
  ASSUME NEW m \in Nodes, NEW n \in Nodes, n \in Reaches[m], m \in Reaches[n]
  PROVE  m = n
  <1> SUFFICES ASSUME m # n PROVE FALSE
    OBVIOUS
  <1>1. PICK k \in NextNodes(m) : n \in Reaches[k]
    BY FirstStep
  <1>2. m \in Reaches[k]
    BY <1>1, EdgesAreNodes, ReachesIs
  <1> QED BY <1>1, <1>2, AcyclicAssumption

(* The walk back to see whether a join must wait meets what lies before it.*)
LEMMA WaitsForUpstream ==
  ASSUME NEW n \in Nodes, NEW pending \in SUBSET Nodes, NEW present,
         shouldWaitForOtherBranches(n, pending, present)
  PROVE  Several(n) /\ \E m \in pending : Upstream(m, n)
  <1> DEFINE transparent == Conditions \cup (Approvals \ present)
             back == [x \in Nodes |-> IF x \in transparent THEN Predecessors[x] ELSE {}]
  <1>1. PICK p \in findPredecessors(n) : WalkFrom(p, back) \cap pending # {}
    BY DEF shouldWaitForOtherBranches, checkPathNeedsWait
  <1>2. p \in Nodes /\ n \in NextNodes(p)
    BY DEF findPredecessors
  <1> DEFINE S == {x \in Nodes : p \in Reaches[x]}
  <1>3. ASSUME NEW x \in S PROVE back[x] \subseteq S
    <2>1. \A y \in Predecessors[x] : y \in Nodes /\ x \in NextNodes(y)
      BY DEF Predecessors, findPredecessors
    <2>2. \A y \in Predecessors[x] : p \in Reaches[y]
      BY <2>1, ReachesIs
    <2> QED BY <2>1, <2>2
  <1>4. p \in S /\ S \in SUBSET Nodes
    BY <1>2, ReachesIs
  <1> HIDE DEF back, S
  <1>5. WalkFrom(p, back) \subseteq S
    BY <1>3, <1>4, WalkStays
  <1>6. PICK m \in pending : m \in Nodes /\ p \in Reaches[m]
    BY <1>1, <1>5 DEF S
  <1>7. n \in Reaches[m]
    BY <1>2, <1>6, ReachesIs
  <1>8. m # n
    BY <1>2, <1>6, AcyclicAssumption
  <1> QED BY <1>7, <1>8 DEF Upstream, shouldWaitForOtherBranches, Several

(* Of some nodes, one has none of the others before it, and one has none   *)
(* of the others behind it.                                                *)
LEMMA SomeNodeIsExtreme ==
  ASSUME NEW behind \in [Nodes -> SUBSET Nodes], NEW S \in SUBSET Nodes, S # {}
  PROVE  \E m \in S : \A p \in S : ~ (behind[p] \subseteq behind[m] /\ behind[p] # behind[m])
  <1> DEFINE T == {behind[m] : m \in S}
             R == StrictSubsetOrdering(Nodes)
  <1>1. IsWellFoundedOn(R, SUBSET Nodes)
    BY GraphAssumption, FS_StrictSubsetOrderingWellFounded, FS_FiniteSubsetsOfFinite
  <1>2. T \subseteq SUBSET Nodes /\ T # {}
    OBVIOUS
  <1>3. \A A, B \in SUBSET Nodes : A \subseteq B /\ A # B => <<A, B>> \in R
    BY DEF StrictSubsetOrdering
  <1> HIDE DEF R, T
  <1>4. PICK B \in T : \A A \in T : <<A, B>> \notin R
    BY <1>1, <1>2, WFMin
  <1>5. PICK m \in S : B = behind[m]
    BY <1>4 DEF T
  <1>6. ASSUME NEW p \in S PROVE ~ (behind[p] \subseteq B /\ behind[p] # B)
    BY <1>2, <1>3, <1>4 DEF T
  <1> QED BY <1>5, <1>6

LEMMA SomeNodeIsFirst ==
  ASSUME NEW S \in SUBSET Nodes, S # {}
  PROVE  \E m \in S : \A p \in S : ~ Upstream(p, m)
  <1> DEFINE behind == [n \in Nodes |-> {m \in Nodes : n \in Reaches[m]}]
  <1>1. PICK m \in S : \A p \in S : ~ (behind[p] \subseteq behind[m] /\ behind[p] # behind[m])
    <2>1. behind \in [Nodes -> SUBSET Nodes]
      OBVIOUS
    <2> HIDE DEF behind
    <2> QED BY <2>1, SomeNodeIsExtreme
  <1>2. ASSUME NEW p \in S, Upstream(p, m) PROVE FALSE
    <2>1. p # m /\ m \in Reaches[p]
      BY <1>2 DEF Upstream
    <2>2. behind[p] \subseteq behind[m]
      BY <2>1, ReachesIs
    <2>3. m \in behind[m] /\ m \notin behind[p]
      BY <2>1, ReachesIs, NoCycle
    <2> QED BY <1>1, <2>2, <2>3
  <1> QED BY <1>2

LEMMA SomeNodeIsLast ==
  ASSUME NEW S \in SUBSET Nodes, S # {}
  PROVE  \E m \in S : \A p \in S : ~ Upstream(m, p)
  <1> DEFINE behind == [n \in Nodes |-> Reaches[n]]
  <1>1. PICK m \in S : \A p \in S : ~ (behind[p] \subseteq behind[m] /\ behind[p] # behind[m])
    <2>1. behind \in [Nodes -> SUBSET Nodes]
      BY ReachesIs
    <2> HIDE DEF behind
    <2> QED BY <2>1, SomeNodeIsExtreme
  <1>2. ASSUME NEW p \in S, Upstream(m, p) PROVE FALSE
    <2>1. m # p /\ p \in Reaches[m]
      BY <1>2 DEF Upstream
    <2>2. Reaches[p] \subseteq Reaches[m] /\ m \in Reaches[m] /\ m \notin Reaches[p]
      BY <2>1, ReachesIs, NoCycle
    <2> QED BY <1>1, <2>2
  <1> QED BY <1>2

--------------------------------------------------------------------------------
(* One step of the loop, by what it does to the node's row.                *)

(* The join waits: somebody else has still to decide.                      *)
Waits(n, more) ==
  /\ Several(n) /\ \E m \in PendingRows : Upstream(m, n)
  /\ more = << >>
  /\ UNCHANGED <<rows, waiting>>

(* The node is behind the engine: it goes on to what follows.              *)
Passes(n, more) ==
  /\ n \notin Approvals \/ n \in PresentRows
  /\ n \notin PendingRows
  /\ ToSet(more) \subseteq NextNodes(n)
  /\ NextNodes(n) # {} => more # << >>
  /\ UNCHANGED <<rows, waiting>>

(* The node has been reached before and is not decided.                    *)
Meets(n, more) ==
  /\ n \in PendingRows
  /\ more = << >> /\ waiting'
  /\ UNCHANGED rows

(* The node is reached for the first time, and decided at once or not.     *)
Enters(n, more) ==
  /\ n \in Approvals \ PresentRows
  /\ \/ /\ rows' = WithRow(n, "APPROVED") /\ more = <<NextOf[n]>>
        /\ UNCHANGED waiting
     \/ /\ rows' = WithRow(n, "OPEN") /\ more = << >>
        /\ waiting'

Handled(n, more) ==
  /\ pc = "loop" /\ queue # << >> /\ n = Head(queue)
  /\ queue' = Tail(queue) \o more
  /\ reached' = reached \cup ToSet(more)
  /\ UNCHANGED <<status, iteration, pc, resume, saved>>
  /\ Waits(n, more) \/ Passes(n, more) \/ Meets(n, more) \/ Enters(n, more)

LEMMA StepIsHandled ==
  ASSUME TypeOK, PassesSucceed, NEW n \in Nodes,
         \/ SkipNode(n) \/ ExecuteStart(n) \/ ExecuteEnd(n) \/ ExecuteCondition(n)
         \/ RevisitApproval(n) \/ CreateApproval(n) \/ FailApproval(n)
  PROVE  \E more \in Seq(Nodes) : Handled(n, more)
  <1>1. << >> \in Seq(Nodes) /\ ToSet(<< >>) = {}
    BY DEF ToSet
  <1>2. n \in Linked => /\ <<NextOf[n]>> \in Seq(Nodes)
                        /\ ToSet(<<NextOf[n]>>) \subseteq NextNodes(n)
                        /\ <<NextOf[n]>> # << >>
    BY NextOfIsNode DEF ToSet, NextNodes
  <1>3. /\ n \in Of("END") => n \notin Linked /\ n \notin Conditions /\ n \notin Approvals
        /\ n \in Of("START") => n \in Linked /\ n \notin Approvals
        /\ n \in Conditions => n \notin Linked /\ n \notin Approvals
        /\ PresentRows \subseteq Approvals /\ PendingRows \subseteq PresentRows
    BY DEF Of, Linked, Conditions, Approvals, PresentRows, PendingRows, RowsIn
  <1>4. CASE SkipNode(n)
    <2>0. PendingRows \in SUBSET Nodes
      BY <1>3, ApprovalsAreLinked
    <2>1. Several(n) /\ \E m \in PendingRows : Upstream(m, n)
      BY <1>4, <2>0, WaitsForUpstream DEF SkipNode, MayRun
    <2>2. Handled(n, << >>)
      BY <1>4, <2>1 DEF SkipNode, Process, Advance, Handled, Waits
    <2> QED BY <1>1, <2>2
  <1>5. CASE ExecuteStart(n)
    <2>1. Passes(n, <<NextOf[n]>>)
      BY <1>2, <1>3, <1>5 DEF ExecuteStart, Passes
    <2>2. Handled(n, <<NextOf[n]>>)
      BY <1>5, <2>1 DEF ExecuteStart, Process, Advance, Handled
    <2> QED BY <1>2, <1>3, <1>5, <2>2 DEF ExecuteStart
  <1>6. CASE ExecuteEnd(n)
    <2>1. Passes(n, << >>)
      BY <1>1, <1>3, <1>6 DEF ExecuteEnd, Passes, NextNodes
    <2>2. Handled(n, << >>)
      BY <1>6, <2>1 DEF ExecuteEnd, Process, Advance, Handled
    <2> QED BY <1>1, <2>2
  <1>7. CASE ExecuteCondition(n)
    <2> DEFINE more == Branches[snapshot][n]
    <2>1. n \in Conditions /\ snapshot \in Forms /\ more # << >>
      BY <1>7 DEF ExecuteCondition, TypeOK, PassesSucceed
    <2>2. more \in Seq(Nodes) /\ ToSet(more) \subseteq NextNodes(n)
      BY <1>3, <2>1, GraphAssumption DEF NextNodes
    <2>3. Process(n) /\ Advance(more) /\ UNCHANGED <<rows, born, waiting>>
      BY <1>7, <2>1 DEF ExecuteCondition
    <2> HIDE DEF more
    <2>4. Passes(n, more)
      BY <1>3, <2>1, <2>2, <2>3 DEF Passes
    <2>5. Handled(n, more)
      BY <2>3, <2>4 DEF Process, Advance, Handled
    <2> QED BY <2>2, <2>5
  <1>8. CASE RevisitApproval(n)
    <2>1. n \in PresentRows /\ n \in Linked
      BY <1>3, <1>8, ApprovalsAreLinked DEF RevisitApproval
    <2>2. CASE n \in PendingRows
      <3>1. Handled(n, << >>)
        BY <1>8, <2>2 DEF RevisitApproval, Process, Advance, Handled, Meets
      <3> QED BY <1>1, <3>1
    <2>3. CASE n \notin PendingRows
      <3>1. Passes(n, <<NextOf[n]>>)
        BY <1>2, <1>8, <2>1, <2>3 DEF RevisitApproval, Passes
      <3>2. Handled(n, <<NextOf[n]>>)
        BY <1>8, <2>3, <3>1 DEF RevisitApproval, Process, Advance, Handled
      <3> QED BY <1>2, <2>1, <3>2
    <2> QED BY <2>2, <2>3
  <1>9. CASE CreateApproval(n)
    <2>1. n \in Approvals \ PresentRows /\ n \in Linked
      BY <1>9, ApprovalsAreLinked DEF CreateApproval
    <2>2. CASE Reuse[n] /\ Approver[n] \in PriorApprovedUsers
      <3>1. Handled(n, <<NextOf[n]>>)
        BY <1>9, <2>1, <2>2 DEF CreateApproval, Process, Advance, Handled, Enters
      <3> QED BY <1>2, <2>1, <3>1
    <2>3. CASE ~ (Reuse[n] /\ Approver[n] \in PriorApprovedUsers)
      <3>1. Handled(n, << >>)
        BY <1>9, <2>1, <2>3 DEF CreateApproval, Process, Advance, Handled, Enters
      <3> QED BY <1>1, <3>1
    <2> QED BY <2>2, <2>3
  <1>10. CASE FailApproval(n)
    BY <1>10 DEF FailApproval, PassesSucceed
  <1> QED BY <1>4, <1>5, <1>6, <1>7, <1>8, <1>9, <1>10

(* Rows keep their names under a step of the loop: only n may get one.     *)
LEMMA RowsAfter ==
  ASSUME TypeOK, NEW n \in Nodes, NEW more, Handled(n, more)
  PROVE  /\ \A m \in Approvals :
              \/ rows'[iteration][m] = rows[iteration][m]
              \/ /\ m = n /\ rows[iteration][m] = "NONE"
                 /\ rows'[iteration][m] \in {"OPEN", "APPROVED"}
                 /\ rows'[iteration][m] = "OPEN" => waiting'
         /\ waiting' => \/ waiting
                        \/ n \in Approvals /\ rows'[iteration][n] \in Pending
         /\ waiting => waiting'
  <1>1. CASE Waits(n, more) \/ Passes(n, more)
    BY <1>1 DEF Waits, Passes, TypeOK
  <1>2. CASE Meets(n, more)
    BY <1>2 DEF Meets, PendingRows, RowsIn, TypeOK
  <1>3. CASE Enters(n, more)
    <2>1. n \in Approvals /\ rows[iteration][n] = "NONE"
      BY <1>3 DEF Enters, PresentRows, RowsIn, TypeOK, RowStates
    <2>2. ASSUME NEW state, rows' = WithRow(n, state)
          PROVE  \A m \in Approvals :
                   rows'[iteration][m] = IF m = n THEN state ELSE rows[iteration][m]
      BY <2>2 DEF WithRow, TypeOK
    <2>3. CASE rows' = WithRow(n, "APPROVED") /\ UNCHANGED waiting
      <3>1. waiting' = waiting
        BY <2>3
      <3>2. \A m \in Approvals :
              rows'[iteration][m] = IF m = n THEN "APPROVED" ELSE rows[iteration][m]
        BY <2>2, <2>3
      <3> QED BY <2>1, <3>1, <3>2
    <2>4. CASE rows' = WithRow(n, "OPEN") /\ waiting'
      <3>1. \A m \in Approvals :
              rows'[iteration][m] = IF m = n THEN "OPEN" ELSE rows[iteration][m]
        BY <2>2, <2>4
      <3> QED BY <2>1, <2>4, <3>1 DEF Pending
    <2> QED BY <1>3, <2>3, <2>4 DEF Enters
  <1> QED BY <1>1, <1>2, <1>3 DEF Handled

--------------------------------------------------------------------------------
(* Somebody is asked.                                                      *)

(* The rows of an iteration that goes on are open or approved, and a pass  *)
(* that is going to wait has an open one to wait for.                      *)
Answered ==
  status = "RUNNING" =>
    \A n \in Approvals : rows[iteration][n] \in {"NONE", "OPEN", "APPROVED"}

SomeOpen == \E n \in Approvals : rows[iteration][n] = "OPEN"

Asked ==
  /\ status = "RUNNING" /\ pc = "idle" => SomeOpen
  /\ waiting => pc = "loop" /\ SomeOpen

AInv == TypeOK /\ IInv /\ Answered /\ Asked

LEMMA InitAInv == Init => AInv
  BY InitType, InitIInv DEF AInv, Answered, Asked, Init

(* An answer is the only thing that takes an open row away in a pass.      *)
LEMMA HandledAInv ==
  ASSUME AInv, TypeOK', IInv', NEW n \in Nodes, NEW more, Handled(n, more)
  PROVE  AInv'
  <1>1. /\ TypeOK /\ status = "RUNNING" /\ status' = "RUNNING" /\ pc = "loop" /\ pc' = "loop"
        /\ iteration' = iteration
    BY DEF Handled, AInv, IInv, PassesRun
  <1>2. Answered'
    BY <1>1, RowsAfter DEF AInv, Answered
  <1>3. waiting' => SomeOpen'
    <2>1. CASE waiting
      <3>1. PICK m \in Approvals : rows[iteration][m] = "OPEN"
        BY <2>1 DEF AInv, Asked, SomeOpen
      <3>2. rows'[iteration][m] = "OPEN"
        BY <1>1, <3>1, RowsAfter
      <3> QED BY <1>1, <3>2 DEF SomeOpen
    <2>2. ASSUME waiting', ~ waiting PROVE SomeOpen'
      <3>1. n \in Approvals /\ rows'[iteration][n] \in Pending
        BY <1>1, <2>2, RowsAfter
      <3>2. rows'[iteration][n] = "OPEN"
        BY <1>1, <1>2, <3>1 DEF Answered, Pending
      <3> QED BY <1>1, <3>1, <3>2 DEF SomeOpen
    <2> QED BY <2>1, <2>2
  <1> QED BY <1>1, <1>2, <1>3 DEF AInv, Asked

(* A new iteration begins without rows.                                    *)
LEMMA NewIteration ==
  ASSUME TypeOK, IInv, NEW i \in Iterations, i = iteration + 1, NEW n \in Approvals
  PROVE  rows[i][n] = "NONE"
  <1>1. iteration \in Int /\ i > iteration /\ i # iteration
    BY ExecutorAssumption DEF TypeOK, Iterations
  <1> QED BY <1>1 DEF IInv, OthersClosed

LEMMA SubmitIs ==
  ASSUME TypeOK, TypeOK', IInv, submit
  PROVE  \A n \in Approvals : rows'[iteration'][n] = "NONE"
  <1>1. CASE PresentRows = {}
    BY <1>1 DEF submit, PresentRows, RowsIn, TypeOK, RowStates
  <1>2. CASE PresentRows # {}
    BY <1>2, NewIteration DEF submit, TypeOK
  <1> QED BY <1>1, <1>2

(* A rejection stops the application or restarts it where nothing is.      *)
LEMMA RejectIs ==
  ASSUME TypeOK, TypeOK', IInv, NEW i \in Iterations, NEW n \in Approvals, Reject(i, n)
  PROVE  /\ pc = "idle" /\ status = "RUNNING" /\ waiting' = waiting /\ queue' = queue
         /\ \/ status' \in {"REJECTED", "DRAFT"} /\ pc' = pc /\ resume' = resume
            \/ /\ status' = "RUNNING" /\ pc' = "start" /\ reached' = {} /\ resume' \in Nodes
               /\ \A m \in Approvals : rows'[iteration'][m] = "NONE"
  <1>1. CASE handleCloseApplication(i, n) \/ handleReturnToApplicant(i, n)
    BY <1>1 DEF handleCloseApplication, handleReturnToApplicant, RejectRow
  <1>2. ASSUME NEW behaviour, NEW t, RejectRow(i, n, behaviour), SendTo(t), t \in Nodes
        PROVE  /\ pc = "idle" /\ status = "RUNNING" /\ waiting' = waiting /\ queue' = queue
               /\ status' = "RUNNING" /\ pc' = "start" /\ reached' = {} /\ resume' \in Nodes
               /\ \A m \in Approvals : rows'[iteration'][m] = "NONE"
    <2>1. \A j \in Iterations, m \in Approvals : j > iteration => rows'[j][m] = "NONE"
      BY <1>2, RejectCloses
    <2>2. iteration' \in Iterations /\ iteration' > iteration
      BY <1>2, ExecutorAssumption DEF SendTo, TypeOK, Iterations
    <2> QED BY <1>2, <2>1, <2>2 DEF SendTo, RejectRow
  <1>3. CASE handleSendToSpecificNode(i, n)
    <2>1. PICK t \in SendTargets[n] : SendTo(t)
      BY <1>3 DEF handleSendToSpecificNode
    <2>2. t \in Nodes
      BY <2>1, ExecutorAssumption
    <2> QED BY <1>2, <1>3, <2>1, <2>2 DEF handleSendToSpecificNode
  <1>4. CASE handleBackToPreviousNode(i, n)
    <2>1. PICK t \in PreviousNodes(i, n) : SendTo(t)
      BY <1>4 DEF handleBackToPreviousNode
    <2>2. t \in Nodes
      BY <2>1 DEF PreviousNodes, findPredecessors
    <2> QED BY <1>2, <1>4, <2>1, <2>2 DEF handleBackToPreviousNode
  <1> QED BY <1>1, <1>3, <1>4 DEF Reject

(* An approval turns an open row of the current iteration and no other.    *)
LEMMA ApproveIs ==
  ASSUME TypeOK, IInv, NEW i \in Iterations, NEW n \in Approvals, NEW f, Approve(i, n, f)
  PROVE  /\ pc = "idle" /\ status = "RUNNING" /\ pc' = "start"
         /\ rows[iteration][n] = "OPEN"
         /\ \A m \in Approvals :
              rows'[iteration][m] = IF m = n THEN "APPROVED" ELSE rows[iteration][m]
         /\ UNCHANGED <<status, iteration, queue, waiting, resume, saved, reached>>
  <1>1. i = iteration
    BY DEF Approve, IInv, OthersClosed, Pending
  <1> QED BY <1>1 DEF Approve, TypeOK

LEMMA NextAInv ==
  ASSUME PassesSucceed, AInv, [Next]_vars
  PROVE  AInv'
  <1>1. TypeOK /\ IInv /\ TypeOK' /\ IInv'
    BY NextType, NextIInv DEF AInv
  <1>2. CASE StartPass
    BY <1>1, <1>2 DEF StartPass, AInv, Answered, Asked, SomeOpen
  <1>3. CASE FinishPass
    BY <1>1, <1>3 DEF FinishPass, AInv, Answered, Asked, SomeOpen
  <1>4. CASE CompleteWorkflow
    BY <1>1, <1>4 DEF CompleteWorkflow, AInv, Answered, Asked
  <1>5. ASSUME NEW n \in Nodes,
               \/ SkipNode(n) \/ ExecuteStart(n) \/ ExecuteEnd(n) \/ ExecuteCondition(n)
               \/ RevisitApproval(n) \/ CreateApproval(n) \/ FailApproval(n)
        PROVE  AInv'
    BY <1>1, <1>5, StepIsHandled, HandledAInv
  <1>6. CASE Crash
    BY <1>6 DEF Crash, PassesSucceed
  <1>7. ASSUME NEW f \in Forms, saveApplicationInstance(f) PROVE AInv'
    BY <1>1, <1>7 DEF saveApplicationInstance, engine, AInv, Answered, Asked, SomeOpen
  <1>8. CASE submit
    BY <1>1, <1>8, SubmitIs DEF submit, AInv, Answered, Asked
  <1>9. ASSUME NEW i \in Iterations, NEW n \in Approvals, NEW f \in Forms, Approve(i, n, f)
        PROVE  AInv'
    <2>1. Answered'
      BY <1>1, <1>9, ApproveIs DEF AInv, Answered
    <2>2. Asked'
      BY <1>1, <1>9, ApproveIs DEF AInv, Asked
    <2> QED BY <1>1, <2>1, <2>2 DEF AInv
  <1>10. ASSUME NEW i \in Iterations, NEW n \in Approvals, Reject(i, n)
         PROVE  AInv'
    BY <1>1, <1>10, RejectIs DEF AInv, Answered, Asked
  <1>11. CASE WithdrawRunning
    BY <1>1, <1>11 DEF WithdrawRunning, engine, AInv, Answered, Asked
  <1>12. CASE ForceDelete
    BY <1>1, <1>12 DEF ForceDelete, engine, AInv, Answered, Asked
  <1>13. CASE UNCHANGED vars
    BY <1>1, <1>13 DEF vars, AInv, Answered, Asked, SomeOpen
  <1> QED
    BY <1>2, <1>3, <1>4, <1>5, <1>6, <1>7, <1>8, <1>9, <1>10, <1>11, <1>12, <1>13
    DEF Next, ExecutorStep, ApproveSomewhere

(* Whatever the flow, the rejections and the edits of the form: while an   *)
(* application runs and nothing is being handled, there is a task that can *)
(* be decided, as long as no pass fails.                                   *)
THEOREM RunningWaitsForSomebody ==
  ASSUME PassesSucceed PROVE Spec => []SomeoneCanAct
  <1>1. AInv => SomeoneCanAct
    BY DEF AInv, Asked, SomeOpen, SomeoneCanAct, RowsIn
  <1>2. AInv /\ [Next]_vars => AInv'
    BY NextAInv
  <1> QED BY <1>1, <1>2, InitAInv, PTL DEF Spec

--------------------------------------------------------------------------------
(* No branch is forgotten, on flows where no way leads around a join.      *)

LEMMA BeforeIs ==
  ASSUME NoWayAround, NEW z \in Joins
  PROVE  /\ z \in Nodes /\ z \in Approvals /\ z \notin Before(z) /\ Before(z) \subseteq Nodes
         /\ \A x \in Before(z) : NextNodes(x) # {} /\ NextNodes(x) \subseteq Before(z) \cup {z}
         /\ \A x \in Nodes \ Before(z) : NextNodes(x) \cap (Before(z) \cup {z}) = {}
  <1>1. z \in Nodes /\ z \in Approvals /\ z \notin Before(z) /\ Before(z) \subseteq Nodes
    BY ApprovalsAreLinked DEF Joins, Before, Upstream
  <1>2. ASSUME NEW x \in Before(z) PROVE NextNodes(x) # {}
    <2>1. x \in Nodes /\ z \in Reaches[x] /\ x # z
      BY DEF Before, Upstream
    <2> QED BY <2>1, FirstStep
  <1>3. ASSUME NEW x \in Nodes, NEW k \in NextNodes(x), k \in Before(z) \cup {z}
        PROVE  x \in Before(z)
    <2>1. k \in Nodes /\ z \in Reaches[k] /\ k \in Reaches[x] /\ x \notin Reaches[k]
      BY <1>1, <1>3, EdgesAreNodes, ReachesIs, AcyclicAssumption DEF Before, Upstream
    <2>2. z \in Reaches[x] /\ x # z
      BY <2>1, ReachesIs
    <2> QED BY <2>2 DEF Before, Upstream
  <1> QED BY <1>1, <1>2, <1>3 DEF NoWayAround

(* Unless the pass is going to wait already, it still has before it a      *)
(* pending row that waits for no other one.                                *)
FirstPending(m) == m \in PendingRows /\ \A p \in PendingRows : ~ Upstream(p, m)

Met ==
  /\ pc = "loop" => waiting \/ PendingRows = {} \/ \E m \in ToSet(queue) : FirstPending(m)
  /\ pc = "complete" => PendingRows = {}
  /\ pc # "loop" => queue = << >>

(* What has a row or is in the queue was reached, and an iteration that is *)
(* about to begin has reached nothing.                                     *)
Begun ==
  /\ resume # None => pc = "start" /\ PresentRows = {}
  /\ status = "RUNNING" => /\ ToSet(queue) \subseteq reached
                           /\ PresentRows \subseteq reached
                           /\ pc = "start" /\ PresentRows = {} => reached = {}

(* An approval that is no join has its row or is about to get it.          *)
Single ==
  status = "RUNNING" =>
    \A n \in reached \cap Approvals : ~ Several(n) => n \in PresentRows \cup ToSet(queue)

(* Until a join has its row, an iteration is on one side of it.            *)
OneSide ==
  status = "RUNNING" =>
    \A z \in Joins \ PresentRows :
      reached \subseteq Before(z) \cup {z} \/ reached \cap (Before(z) \cup {z}) = {}

(* A join that was reached and has no row will be reached again: something *)
(* before it is pending, in the queue, or has led the engine there.        *)
Carried ==
  status = "RUNNING" =>
    \A z \in (Joins \cap reached) \ PresentRows :
      IF pc \in {"loop", "complete"}
      THEN waiting \/ PendingRows # {} \/ ToSet(queue) \cap (Before(z) \cup {z}) # {}
      ELSE PresentRows \cap Before(z) # {}

PInv == AInv /\ Met /\ Begun /\ Single /\ OneSide /\ Carried /\ NoLostBranch

LEMMA EmptyQueue == ToSet(<< >>) = {}
  BY DEF ToSet

LEMMA QueueSets ==
  ASSUME NEW q \in Seq(Nodes), q # << >>, NEW more \in Seq(Nodes)
  PROVE  /\ ToSet(q) = {Head(q)} \cup ToSet(Tail(q))
         /\ ToSet(Tail(q) \o more) = ToSet(Tail(q)) \cup ToSet(more)
         /\ more # << >> => ToSet(more) # {}
  <1>1. Tail(q) \in Seq(Nodes) /\ Tail(q) \o more \in Seq(Nodes)
    OBVIOUS
  <1>2. ToSet(q) = {Head(q)} \cup ToSet(Tail(q))
    <2>1. Len(q) \in Nat \ {0} /\ Len(Tail(q)) = Len(q) - 1 /\ Head(q) = q[1]
      OBVIOUS
    <2>2. \A j \in 1 .. Len(q) - 1 : Tail(q)[j] = q[j + 1]
      OBVIOUS
    <2>3. \A i \in 1 .. Len(q) : i = 1 \/ (i - 1 \in 1 .. Len(q) - 1 /\ q[i] = Tail(q)[i - 1])
      <3> SUFFICES ASSUME NEW i \in 1 .. Len(q), i # 1
                   PROVE  i - 1 \in 1 .. Len(q) - 1 /\ q[i] = Tail(q)[i - 1]
        OBVIOUS
      <3>1. PICK k \in 1 .. Len(q) - 1 : i = k + 1
        <4>1. i - 1 \in 1 .. Len(q) - 1 /\ i = (i - 1) + 1
          BY <2>1
        <4> QED BY <4>1
      <3>2. k = i - 1
        BY <2>1, <3>1
      <3> QED BY <2>2, <3>1, <3>2
    <2>4. \A j \in 1 .. Len(q) - 1 : j + 1 \in 1 .. Len(q)
      BY <2>1
    <2>5. DOMAIN q = 1 .. Len(q) /\ DOMAIN Tail(q) = 1 .. Len(q) - 1 /\ 1 \in 1 .. Len(q)
      BY <1>1, <2>1
    <2>6. ToSet(q) \subseteq {Head(q)} \cup ToSet(Tail(q))
      <3> SUFFICES ASSUME NEW i \in DOMAIN q
                   PROVE  q[i] = Head(q) \/ \E j \in DOMAIN Tail(q) : q[i] = Tail(q)[j]
        BY DEF ToSet
      <3> QED BY <2>1, <2>3, <2>5
    <2>7. {Head(q)} \cup ToSet(Tail(q)) \subseteq ToSet(q)
      BY <2>1, <2>2, <2>4, <2>5 DEF ToSet
    <2> QED BY <2>6, <2>7
  <1>3. ToSet(Tail(q) \o more) = ToSet(Tail(q)) \cup ToSet(more)
    <2> DEFINE t == Tail(q)
    <2>1. t \in Seq(Nodes) /\ Len(t \o more) = Len(t) + Len(more) /\ Len(t) \in Nat /\ Len(more) \in Nat
      OBVIOUS
    <2> HIDE DEF t
    <2>2. \A i \in 1 .. Len(t) : i \in 1 .. Len(t \o more) /\ (t \o more)[i] = t[i]
      BY <2>1
    <2>3. \A j \in 1 .. Len(more) :
            Len(t) + j \in 1 .. Len(t \o more) /\ (t \o more)[Len(t) + j] = more[j]
      BY <2>1
    <2>4. \A i \in 1 .. Len(t \o more) :
            i \in 1 .. Len(t) \/ (i - Len(t) \in 1 .. Len(more) /\ (t \o more)[i] = more[i - Len(t)])
      BY <2>1
    <2>5. /\ DOMAIN t = 1 .. Len(t) /\ DOMAIN more = 1 .. Len(more)
          /\ DOMAIN (t \o more) = 1 .. Len(t \o more)
      BY <2>1
    <2>6. ToSet(t \o more) \subseteq ToSet(t) \cup ToSet(more)
      BY <2>2, <2>4, <2>5 DEF ToSet
    <2>7. ToSet(t) \subseteq ToSet(t \o more) /\ ToSet(more) \subseteq ToSet(t \o more)
      BY <2>2, <2>3, <2>5 DEF ToSet
    <2> QED BY <2>6, <2>7 DEF t
  <1>4. more # << >> => ToSet(more) # {}
    <2>1. more # << >> => 1 \in DOMAIN more
      OBVIOUS
    <2> QED BY <2>1 DEF ToSet
  <1> QED BY <1>2, <1>3, <1>4

(* A queue sorted by age holds what was to be sorted, all of it.           *)
LEMMA NewestFirstHolds ==
  ASSUME NEW S \in SUBSET Nodes, NEW age, \A s \in S : age[s] \in Int,
         NEW q \in NewestFirst(S, age)
  PROVE  ToSet(q) = S
  <1>1. IsFiniteSet(S) /\ Cardinality(S) \in Nat
    BY GraphAssumption, FS_Subset, FS_CardinalityType
  <1> DEFINE D == 1 .. Cardinality(S)
  <1>2. q \in [D -> S] /\ \A i, j \in D : i < j => age[q[i]] > age[q[j]]
    BY DEF NewestFirst
  <1>3. \A i, j \in D : i # j => q[i] # q[j]
    <2> SUFFICES ASSUME NEW i \in D, NEW j \in D, i < j PROVE q[i] # q[j]
      OBVIOUS
    <2>1. age[q[i]] \in Int /\ age[q[j]] \in Int /\ age[q[i]] > age[q[j]]
      BY <1>2
    <2> QED BY <2>1
  <1>4. IsFiniteSet(D) /\ Cardinality(D) = Cardinality(S)
    BY <1>1, FS_Interval
  <1>5. q \in Injection(D, S)
    BY <1>2, <1>3 DEF Injection, IsInjective
  <1>6. q \in Surjection(D, S)
    BY <1>1, <1>4, <1>5, FS_Injection
  <1> HIDE DEF D
  <1>7. \A s \in S : \E i \in D : q[i] = s
    BY <1>6 DEF Surjection
  <1> QED BY <1>2, <1>7 DEF ToSet

(* Of some rows, one is the youngest.                                      *)
LEMMA SomeIsYoungest ==
  ASSUME NEW S \in SUBSET Nodes, S # {}, NEW f, \A n \in S : f[n] \in Nat
  PROVE  \E m \in S : \A p \in S : f[p] <= f[m]
  <1> DEFINE behind == [n \in Nodes |-> {p \in S : n \in S /\ f[p] > f[n]}]
  <1>1. behind \in [Nodes -> SUBSET Nodes]
    OBVIOUS
  <1>2. \A n \in S : behind[n] = {p \in S : f[p] > f[n]}
    OBVIOUS
  <1> HIDE DEF behind
  <1>3. PICK m \in S : \A p \in S : ~ (behind[p] \subseteq behind[m] /\ behind[p] # behind[m])
    BY <1>1, SomeNodeIsExtreme
  <1>4. ASSUME NEW p \in S, f[p] > f[m] PROVE FALSE
    <2>1. behind[p] \subseteq behind[m]
      BY <1>2, <1>4
    <2>2. p \in behind[m] /\ p \notin behind[p]
      BY <1>2, <1>4
    <2> QED BY <1>3, <2>1, <2>2
  <1> QED BY <1>4

LEMMA RowSets ==
  ASSUME TypeOK
  PROVE  /\ PresentRows = {n \in Approvals : rows[iteration][n] # "NONE"}
         /\ PendingRows = {n \in Approvals : rows[iteration][n] \in Pending}
         /\ PendingRows \subseteq PresentRows /\ PresentRows \subseteq Approvals
         /\ PresentRows \subseteq Nodes /\ PendingRows \subseteq Nodes
  <1>1. \A n \in Approvals : rows[iteration][n] \in RowStates
    BY DEF TypeOK
  <1> QED BY <1>1, ApprovalsAreLinked
    DEF PresentRows, PendingRows, RowsIn, RowStates, Pending, Closed

(* What comes next: the successors of the rows that have no row.           *)
LEMMA NextAreSuccessors ==
  ASSUME TypeOK, NEW q \in UnexecutedNext
  PROVE  ToSet(q) = {NextOf[n] : n \in PresentRows} \ PresentRows
  <1> DEFINE nodes == {NextOf[n] : n \in PresentRows} \ PresentRows
             from(s) == {m \in PresentRows : NextOf[m] = s}
             ages(s) == {born[iteration][n] : n \in from(s)}
             age == [s \in nodes |-> Max(ages(s))]
  <1>1. nodes \in SUBSET Nodes
    BY RowSets, ApprovalsAreLinked, NextOfIsNode
  <1>2. q \in NewestFirst(nodes, age)
    BY DEF UnexecutedNext
  <1>3. ASSUME NEW s \in nodes PROVE age[s] \in Int
    <2>1. from(s) \in SUBSET Nodes /\ from(s) # {}
      BY RowSets
    <2>2. \A n \in from(s) : born[iteration][n] \in Nat
      BY RowSets DEF TypeOK
    <2>3. PICK m \in from(s) : \A p \in from(s) : born[iteration][p] <= born[iteration][m]
      <3> HIDE DEF from
      <3> QED BY <2>1, <2>2, SomeIsYoungest
    <2>4. /\ born[iteration][m] \in ages(s)
          /\ \A y \in ages(s) : y \in Nat /\ born[iteration][m] >= y
      <3> HIDE DEF from
      <3> QED BY <2>2, <2>3
    <2> HIDE DEF ages
    <2>5. Max(ages(s)) \in ages(s)
      BY <2>4 DEF Max
    <2> QED BY <2>4, <2>5
  <1> HIDE DEF nodes, age
  <1>4. ToSet(q) = nodes
    BY <1>1, <1>2, <1>3, NewestFirstHolds
  <1> QED BY <1>4 DEF nodes

--------------------------------------------------------------------------------
(* One node of the queue.                                                  *)

(* What a step of the loop does to the sets of nodes: `waits` is the case  *)
(* in which the node is skipped, `more` what is put in the queue.          *)
LEMMA HandledSets ==
  ASSUME TypeOK, TypeOK', NEW n \in Nodes, NEW more \in Seq(Nodes), Handled(n, more)
  PROVE  /\ ToSet(queue) = {n} \cup ToSet(Tail(queue))
         /\ ToSet(queue)' = ToSet(Tail(queue)) \cup ToSet(more)
         /\ ToSet(more) \subseteq NextNodes(n)
         /\ PresentRows \subseteq PresentRows' /\ PresentRows' \subseteq PresentRows \cup {n}
         /\ PendingRows \subseteq PendingRows'
         /\ PendingRows' # PendingRows => waiting'
         /\ waiting => waiting'
         /\ \/ Several(n) /\ more = << >> /\ \E m \in PendingRows : Upstream(m, n)
            \/ /\ n \in Approvals => n \in PresentRows'
               /\ \/ waiting'
                  \/ n \notin PendingRows /\ (NextNodes(n) # {} => ToSet(more) # {})
  <1>1. queue \in Seq(Nodes) /\ queue # << >> /\ n = Head(queue) /\ queue' = Tail(queue) \o more
    BY DEF TypeOK, Handled
  <1>2. /\ ToSet(queue) = {n} \cup ToSet(Tail(queue))
        /\ ToSet(queue)' = ToSet(Tail(queue)) \cup ToSet(more)
        /\ more # << >> => ToSet(more) # {}
    BY <1>1, QueueSets
  <1>3. /\ PresentRows = {m \in Approvals : rows[iteration][m] # "NONE"}
        /\ PendingRows = {m \in Approvals : rows[iteration][m] \in Pending}
        /\ PresentRows' = {m \in Approvals : rows'[iteration][m] # "NONE"}
        /\ PendingRows' = {m \in Approvals : rows'[iteration][m] \in Pending}
    <2>1. iteration' = iteration
      BY DEF Handled
    <2>2. \A m \in Approvals : rows'[iteration][m] \in RowStates
      BY <2>1 DEF TypeOK
    <2>3. /\ PresentRows' = {m \in Approvals : rows'[iteration][m] # "NONE"}
          /\ PendingRows' = {m \in Approvals : rows'[iteration][m] \in Pending}
      BY <2>1, <2>2 DEF PresentRows, PendingRows, RowsIn, RowStates, Pending, Closed
    <2> QED BY <2>3, RowSets
  <1>4. /\ PresentRows \subseteq PresentRows' /\ PresentRows' \subseteq PresentRows \cup {n}
        /\ PendingRows \subseteq PendingRows' /\ (PendingRows' # PendingRows => waiting')
        /\ waiting => waiting'
    BY <1>3, RowsAfter DEF Pending
  <1>5. CASE Waits(n, more)
    <2>1. ToSet(more) = {}
      BY <1>5, EmptyQueue DEF Waits
    <2> QED BY <1>2, <1>4, <1>5, <2>1 DEF Waits
  <1>6. CASE Passes(n, more)
    <2>1. n \in Approvals => n \in PresentRows'
      BY <1>4, <1>6 DEF Passes
    <2>2. n \notin PendingRows /\ (NextNodes(n) # {} => ToSet(more) # {})
          /\ ToSet(more) \subseteq NextNodes(n)
      BY <1>2, <1>6 DEF Passes
    <2> QED BY <1>2, <1>4, <2>1, <2>2
  <1>7. CASE Meets(n, more)
    <2>1. ToSet(more) = {} /\ waiting' /\ n \in PresentRows'
      BY <1>4, <1>7, RowSets, EmptyQueue DEF Meets
    <2> QED BY <1>2, <1>4, <2>1
  <1>8. CASE Enters(n, more)
    <2>1. n \in Approvals /\ n \notin PresentRows /\ n \notin PendingRows /\ n \in Linked
      BY <1>8, RowSets, ApprovalsAreLinked DEF Enters
    <2>2. n \in PresentRows'
      <3>1. \A state : WithRow(n, state)[iteration][n] = state
        <4>1. rows \in [Iterations -> [Approvals -> RowStates]] /\ iteration \in Iterations
          BY DEF TypeOK
        <4> QED BY <2>1, <4>1 DEF WithRow
      <3>2. rows'[iteration][n] \in {"OPEN", "APPROVED"}
        BY <1>8, <3>1 DEF Enters
      <3> QED BY <1>3, <2>1, <3>2
    <2>3. CASE waiting' /\ more = << >>
      <3>1. ToSet(more) = {}
        BY <2>3, EmptyQueue
      <3> QED BY <1>2, <1>4, <2>2, <2>3, <3>1
    <2>4. CASE more = <<NextOf[n]>>
      <3>1. NextNodes(n) = {NextOf[n]}
        BY <2>1 DEF NextNodes
      <3>2. ToSet(more) = {NextOf[n]}
        BY <2>4 DEF ToSet
      <3> QED BY <1>2, <1>4, <2>1, <2>2, <3>1, <3>2
    <2> QED BY <1>8, <2>3, <2>4 DEF Enters
  <1> QED BY <1>5, <1>6, <1>7, <1>8 DEF Handled

LEMMA HandledPInv ==
  ASSUME NoWayAround, PInv, AInv',
         NEW n \in Nodes, NEW more \in Seq(Nodes), Handled(n, more)
  PROVE  PInv'
  <1> DEFINE rest == ToSet(Tail(queue))
             added == ToSet(more)
             skipped == Several(n) /\ more = << >> /\ \E m \in PendingRows : Upstream(m, n)
  <1>1. /\ TypeOK /\ TypeOK' /\ status = "RUNNING" /\ status' = "RUNNING"
        /\ pc = "loop" /\ pc' = "loop" /\ reached' = reached \cup added
        /\ resume' = resume
    BY DEF PInv, AInv, IInv, PassesRun, Handled
  <1>2. /\ ToSet(queue) = {n} \cup rest /\ ToSet(queue)' = rest \cup added
        /\ added \subseteq NextNodes(n)
        /\ PresentRows \subseteq PresentRows' /\ PresentRows' \subseteq PresentRows \cup {n}
        /\ PendingRows \subseteq PendingRows'
        /\ PendingRows' # PendingRows => waiting'
        /\ waiting => waiting'
        /\ \/ skipped
           \/ /\ n \in Approvals => n \in PresentRows'
              /\ waiting' \/ (n \notin PendingRows /\ (NextNodes(n) # {} => added # {}))
    BY <1>1, HandledSets
  <1>3. skipped => added = {}
    BY EmptyQueue
  <1>4. /\ ToSet(queue) \subseteq reached /\ PresentRows \subseteq reached /\ resume = None
    BY <1>1 DEF PInv, Begun
  <1>5. Met'
    <2> SUFFICES ASSUME ~ waiting', PendingRows' # {}
                 PROVE  \E m \in rest : FirstPending(m)'
      BY <1>1, <1>2 DEF Met
    <2>1. ~ waiting /\ PendingRows' = PendingRows
      BY <1>2
    <2>2. PICK m \in ToSet(queue) : FirstPending(m)
      BY <1>1, <2>1 DEF PInv, Met
    <2>3. m # n
      BY <1>2, <2>1, <2>2 DEF FirstPending
    <2>4. m \in rest
      BY <1>2, <2>2, <2>3
    <2> QED BY <2>1, <2>2, <2>4 DEF FirstPending
  <1>6. Begun'
    BY <1>1, <1>2, <1>4 DEF Begun
  <1> HIDE DEF rest, added
  <1>7. Single'
    <2> SUFFICES ASSUME NEW x \in reached \cup added, x \in Approvals, ~ Several(x),
                        x \notin PresentRows'
                 PROVE  x \in rest \cup added
      BY <1>1, <1>2 DEF Single
    <2>1. x \in reached => x \in {n} \cup rest
      BY <1>1, <1>2 DEF PInv, Single
    <2> QED BY <1>2, <2>1
  <1>8. OneSide'
    <2> SUFFICES ASSUME NEW z \in Joins, z \notin PresentRows'
                 PROVE  \/ reached \cup added \subseteq Before(z) \cup {z}
                        \/ (reached \cup added) \cap (Before(z) \cup {z}) = {}
      BY <1>1 DEF OneSide
    <2>1. z \notin PresentRows /\ n \in reached
      BY <1>2, <1>4
    <2>2. n = z => added = {}
      BY <1>2, <1>3, BeforeIs
    <2>3. CASE reached \subseteq Before(z) \cup {z}
      BY <1>2, <2>1, <2>2, <2>3, BeforeIs
    <2>4. CASE reached \cap (Before(z) \cup {z}) = {}
      BY <1>2, <2>1, <2>4, BeforeIs
    <2> QED BY <1>1, <2>1, <2>3, <2>4 DEF PInv, OneSide
  <1>9. Carried'
    <2> SUFFICES ASSUME NEW z \in Joins, z \in reached \cup added, z \notin PresentRows',
                        ~ waiting', PendingRows' = {}
                 PROVE  (rest \cup added) \cap (Before(z) \cup {z}) # {}
      BY <1>1, <1>2 DEF Carried
    <2>1. ~ waiting /\ PendingRows = {} /\ z \notin PresentRows /\ ~ skipped
      BY <1>2
    <2>2. CASE z \in added
      BY <2>2
    <2>3. CASE z \in reached
      <3>1. PICK x \in {n} \cup rest : x \in Before(z) \cup {z}
        BY <1>1, <1>2, <2>1, <2>3 DEF PInv, Carried
      <3>2. CASE x \in rest
        BY <3>1, <3>2
      <3>3. CASE x = n
        <4>1. n # z
          BY <1>2, <2>1, BeforeIs
        <4>2. n \in Before(z) /\ NextNodes(n) # {} /\ NextNodes(n) \subseteq Before(z) \cup {z}
          BY <3>1, <3>3, <4>1, BeforeIs
        <4>3. added # {} /\ added \subseteq Before(z) \cup {z}
          BY <1>2, <2>1, <4>2
        <4> QED BY <4>3
      <3> QED BY <3>1, <3>2, <3>3
    <2> QED BY <2>2, <2>3
  <1>10. NoLostBranch'
    BY <1>1 DEF NoLostBranch
  <1> QED BY <1>5, <1>6, <1>7, <1>8, <1>9, <1>10 DEF PInv

--------------------------------------------------------------------------------
(* The other steps of a pass.                                              *)

(* What a pass begins with, by what the rows of the iteration are.         *)
LEMMA StartSets ==
  ASSUME PInv, StartPass
  PROVE  /\ queue' = << >> <=> ToSet(queue') = {}
         /\ \/ PresentRows = {} /\ reached = {} /\ \E x \in Nodes : ToSet(queue') = {x}
            \/ PendingRows # {} /\ ToSet(queue') = PendingRows
            \/ PendingRows = {} /\ ToSet(queue') = {NextOf[n] : n \in PresentRows} \ PresentRows
  <1>1. /\ TypeOK /\ pc = "start" /\ status = "RUNNING"
        /\ queue' \in determineCurrentNodes /\ queue' \in Seq(Nodes)
    BY CurrentNodesAreQueue DEF StartPass, PInv, AInv, IInv, PassesRun
  <1>2. queue' = << >> <=> ToSet(queue') = {}
    <2>1. \A q \in Seq(Nodes) : q # << >> => ToSet(q) # {}
      BY QueueSets
    <2> QED BY <1>1, <2>1, EmptyQueue
  <1>3. PresentRows = {} => reached = {}
    BY <1>1 DEF PInv, Begun
  <1>4. \A x : ToSet(<<x>>) = {x}
    BY DEF ToSet
  <1>5. CASE resume # None
    <2>1. PresentRows = {} /\ resume \in Nodes /\ queue' = <<resume>>
      BY <1>1, <1>5 DEF PInv, Begun, TypeOK, determineCurrentNodes
    <2> QED BY <1>2, <1>3, <1>4, <2>1
  <1>6. CASE resume = None /\ PresentRows = {}
    <2>1. queue' = <<Start>> /\ Start \in Nodes
      BY <1>1, <1>6, StartIsNode DEF determineCurrentNodes
    <2> QED BY <1>2, <1>3, <1>4, <1>6, <2>1
  <1>7. CASE resume = None /\ PresentRows # {} /\ PendingRows # {}
    <2>1. queue' \in NewestFirst(PendingRows, born[iteration])
      BY <1>1, <1>7 DEF determineCurrentNodes
    <2>2. PendingRows \in SUBSET Nodes /\ \A n \in PendingRows : born[iteration][n] \in Int
      BY <1>1, RowSets DEF TypeOK
    <2>3. ToSet(queue') = PendingRows
      BY <2>1, <2>2, NewestFirstHolds
    <2> QED BY <1>2, <1>7, <2>3
  <1>8. CASE resume = None /\ PresentRows # {} /\ PendingRows = {}
    <2>1. queue' \in UnexecutedNext
      BY <1>1, <1>8 DEF determineCurrentNodes
    <2>2. ToSet(queue') = {NextOf[n] : n \in PresentRows} \ PresentRows
      BY <1>1, <2>1, NextAreSuccessors
    <2> QED BY <1>2, <1>8, <2>2
  <1> QED BY <1>5, <1>6, <1>7, <1>8

LEMMA StartPInv ==
  ASSUME NoWayAround, PInv, AInv', StartPass
  PROVE  PInv'
  <1> DEFINE q == ToSet(queue')
  <1>1. /\ TypeOK /\ status = "RUNNING" /\ status' = "RUNNING"
        /\ pc = "start" /\ pc' = (IF queue' = << >> THEN "complete" ELSE "loop")
        /\ ~ waiting' /\ resume' = None /\ reached' = reached \cup q
        /\ PresentRows' = PresentRows /\ PendingRows' = PendingRows
    BY DEF StartPass, PInv, AInv, IInv, PassesRun, PresentRows, PendingRows, RowsIn
  <1>2. /\ queue' = << >> <=> q = {}
        /\ \/ PresentRows = {} /\ reached = {} /\ \E x \in Nodes : q = {x}
           \/ PendingRows # {} /\ q = PendingRows
           \/ PendingRows = {} /\ q = {NextOf[n] : n \in PresentRows} \ PresentRows
    BY StartSets
  <1>3. ToSet(queue)' = q
    OBVIOUS
  <1>4. /\ queue = << >> /\ PresentRows \subseteq reached
        /\ PendingRows \subseteq PresentRows /\ PendingRows \in SUBSET Nodes
        /\ \A n \in PresentRows : n \in Nodes /\ n \in Linked /\ NextNodes(n) = {NextOf[n]}
    BY <1>1, RowSets, ApprovalsAreLinked DEF PInv, Met, Begun, NextNodes
  <1> HIDE DEF q
  <1>5. Met'
    <2>1. PendingRows # {} => q = PendingRows
      BY <1>2, <1>4
    <2>2. PendingRows # {} => \E m \in PendingRows : FirstPending(m)
      BY <1>4, SomeNodeIsFirst DEF FirstPending
    <2>3. \A m : FirstPending(m) => FirstPending(m)'
      BY <1>1 DEF FirstPending
    <2> QED BY <1>1, <1>2, <1>3, <2>1, <2>2, <2>3 DEF Met
  <1>6. Begun'
    BY <1>1, <1>3, <1>4 DEF Begun
  <1>7. Single'
    <2>1. \A n \in reached \cap Approvals : ~ Several(n) => n \in PresentRows
      BY <1>1, <1>4, EmptyQueue DEF PInv, Single
    <2> QED BY <1>1, <1>3, <2>1 DEF Single
  <1>8. OneSide'
    <2> SUFFICES ASSUME NEW z \in Joins, z \notin PresentRows
                 PROVE  \/ reached \cup q \subseteq Before(z) \cup {z}
                        \/ (reached \cup q) \cap (Before(z) \cup {z}) = {}
      BY <1>1 DEF OneSide
    <2>1. \/ reached \subseteq Before(z) \cup {z}
          \/ reached \cap (Before(z) \cup {z}) = {}
      BY <1>1 DEF PInv, OneSide
    <2>2. CASE PendingRows = {} /\ q = {NextOf[n] : n \in PresentRows} \ PresentRows
      <3>1. CASE reached \subseteq Before(z) \cup {z}
        <4>1. \A n \in PresentRows : NextOf[n] \in Before(z) \cup {z}
          BY <1>4, <3>1, BeforeIs
        <4> QED BY <2>2, <3>1, <4>1
      <3>2. CASE reached \cap (Before(z) \cup {z}) = {}
        <4>1. \A n \in PresentRows : NextOf[n] \notin Before(z) \cup {z}
          BY <1>4, <3>2, BeforeIs
        <4> QED BY <2>2, <3>2, <4>1
      <3> QED BY <2>1, <3>1, <3>2
    <2>3. CASE PendingRows # {} /\ q = PendingRows
      BY <1>4, <2>1, <2>3
    <2>4. CASE reached = {} /\ \E x \in Nodes : q = {x}
      BY <2>4
    <2> QED BY <1>2, <2>2, <2>3, <2>4
  <1>9. Carried'
    <2> SUFFICES ASSUME NEW z \in Joins, z \in reached \cup q, z \notin PresentRows,
                        PendingRows = {}
                 PROVE  q \cap (Before(z) \cup {z}) # {}
      BY <1>1, <1>3 DEF Carried
    <2>1. CASE z \in q
      BY <2>1
    <2>2. CASE z \in reached /\ z \notin q
      <3> DEFINE S == PresentRows \cap Before(z)
      <3>1. S # {} /\ S \in SUBSET Nodes
        BY <1>1, <1>4, <2>2 DEF PInv, Carried
      <3>2. PICK m \in S : \A p \in S : ~ Upstream(m, p)
        <4> HIDE DEF S
        <4> QED BY <3>1, SomeNodeIsLast
      <3>3. NextOf[m] \in Before(z) \cup {z} /\ NextOf[m] \in NextNodes(m)
        BY <1>4, <3>2, BeforeIs
      <3>4. NextOf[m] \notin PresentRows
        <4> SUFFICES ASSUME NextOf[m] \in PresentRows PROVE FALSE
          OBVIOUS
        <4>1. NextOf[m] \in S
          BY <3>3
        <4>2. NextOf[m] \in Reaches[m] /\ m # NextOf[m]
          BY <1>4, <3>1, <3>3, <4>1, ReachesIs, AcyclicAssumption
        <4> QED BY <3>2, <4>1, <4>2 DEF Upstream
      <3>5. NextOf[m] \in q
        BY <1>2, <1>4, <2>2, <3>2, <3>4
      <3> QED BY <3>3, <3>5
    <2> QED BY <2>1, <2>2
  <1>10. NoLostBranch'
    BY <1>1 DEF NoLostBranch
  <1> QED BY <1>5, <1>6, <1>7, <1>8, <1>9, <1>10 DEF PInv

LEMMA FinishPInv ==
  ASSUME PInv, AInv', FinishPass
  PROVE  PInv'
  <1>1. /\ TypeOK /\ status = "RUNNING" /\ status' = "RUNNING"
        /\ pc = "loop" /\ pc' = (IF waiting THEN "idle" ELSE "complete")
        /\ ~ waiting' /\ queue = << >> /\ queue' = queue /\ resume' = resume
        /\ reached' = reached
        /\ PresentRows' = PresentRows /\ PendingRows' = PendingRows
    BY DEF FinishPass, PInv, AInv, IInv, PassesRun, PresentRows, PendingRows, RowsIn
  <1>2. ToSet(queue) = {} /\ ToSet(queue)' = {}
    BY <1>1, EmptyQueue
  <1>3. Met' /\ Begun' /\ Single' /\ OneSide'
    BY <1>1, <1>2 DEF PInv, Met, Begun, Single, OneSide
  <1>4. Carried'
    <2> SUFFICES ASSUME NEW z \in Joins, z \in reached, z \notin PresentRows
                 PROVE  IF waiting THEN PresentRows \cap Before(z) # {}
                        ELSE PendingRows # {}
      BY <1>1 DEF Carried
    <2>1. CASE waiting
      <3>1. PICK m \in PresentRows : TRUE
        BY <1>1, <2>1, RowSets DEF PInv, AInv, Asked, SomeOpen
      <3>2. m \in reached /\ m # z
        BY <1>1, <3>1 DEF PInv, Begun
      <3>3. reached \subseteq Before(z) \cup {z}
        BY <1>1 DEF PInv, OneSide
      <3> QED BY <2>1, <3>1, <3>2, <3>3
    <2>2. CASE ~ waiting
      BY <1>1, <1>2, <2>2 DEF PInv, Carried
    <2> QED BY <2>1, <2>2
  <1>5. NoLostBranch'
    BY <1>1 DEF NoLostBranch
  <1> QED BY <1>3, <1>4, <1>5 DEF PInv

(* The application is completed when everything it ever asked for has been *)
(* approved.                                                               *)
LEMMA CompletePInv ==
  ASSUME PInv, AInv', CompleteWorkflow
  PROVE  PInv'
  <1>1. /\ TypeOK /\ status = "RUNNING" /\ status' = "COMPLETED"
        /\ pc = "complete" /\ pc' = "idle" /\ ~ waiting
        /\ queue = << >> /\ queue' = queue /\ resume = None /\ resume' = None
        /\ reached' = reached /\ iteration' = iteration /\ PendingRows = {}
    BY DEF CompleteWorkflow, PInv, AInv, IInv, PassesRun, Asked, Met, Begun
  <1>2. reached \cap Approvals \subseteq PresentRows
    <2> SUFFICES ASSUME NEW n \in reached, n \in Approvals, n \notin PresentRows PROVE FALSE
      OBVIOUS
    <2>1. CASE ~ Several(n)
      BY <1>1, <2>1, EmptyQueue DEF PInv, Single
    <2>2. CASE Several(n)
      BY <1>1, <2>2, EmptyQueue DEF PInv, Carried, Joins
    <2> QED BY <2>1, <2>2
  <1>3. ASSUME NEW n \in reached \cap Approvals PROVE rows'[iteration][n] = "APPROVED"
    <2>1. rows[iteration][n] \in {"OPEN", "APPROVED"}
      BY <1>1, <1>2, RowSets DEF PInv, AInv, Answered
    <2>2. rows[iteration][n] # "OPEN"
      BY <1>1, RowSets DEF Pending
    <2>3. iteration \in Iterations /\ rows[iteration][n] \in Closed
      BY <1>1, <2>1, <2>2 DEF TypeOK, Closed
    <2> QED BY <2>1, <2>2, <2>3, ClosePendingKeeps DEF CompleteWorkflow
  <1>4. NoLostBranch'
    BY <1>1, <1>3 DEF NoLostBranch
  <1>5. Met' /\ Begun' /\ Single' /\ OneSide' /\ Carried'
    BY <1>1 DEF Met, Begun, Single, OneSide, Carried
  <1> QED BY <1>4, <1>5 DEF PInv

--------------------------------------------------------------------------------
(* Requests.                                                               *)

(* An application that stops without being completed.                      *)
LEMMA StoppedPInv ==
  ASSUME PInv, AInv', pc = "idle", status' \notin {"RUNNING", "COMPLETED"},
         UNCHANGED <<pc, queue, resume>>
  PROVE  PInv'
  BY DEF PInv, Met, Begun, Single, OneSide, Carried, NoLostBranch

(* A pass that is to begin where the iteration has nothing yet.            *)
LEMMA FreshPInv ==
  ASSUME PInv, AInv', pc = "idle", status' = "RUNNING", pc' = "start", queue' = queue,
         reached' = {}, \A n \in Approvals : rows'[iteration'][n] = "NONE"
  PROVE  PInv'
  <1>1. PresentRows' = {}
    BY DEF PresentRows, RowsIn, Pending, Closed
  <1>2. queue' = << >>
    BY DEF PInv, Met
  <1>3. ToSet(queue)' = {}
    BY <1>2, EmptyQueue
  <1> QED
    BY <1>1, <1>2, <1>3 DEF PInv, Met, Begun, Single, OneSide, Carried, NoLostBranch

LEMMA ApprovePInv ==
  ASSUME PInv, AInv', NEW i \in Iterations, NEW n \in Approvals, NEW f, Approve(i, n, f)
  PROVE  PInv'
  <1>1. /\ TypeOK /\ pc = "idle" /\ status = "RUNNING" /\ pc' = "start"
        /\ rows[iteration][n] = "OPEN"
        /\ \A m \in Approvals :
             rows'[iteration][m] = IF m = n THEN "APPROVED" ELSE rows[iteration][m]
        /\ UNCHANGED <<status, iteration, queue, waiting, resume, saved, reached>>
    BY ApproveIs DEF PInv, AInv
  <1>2. PresentRows' = PresentRows /\ PresentRows # {}
    BY <1>1 DEF PresentRows, RowsIn, Pending, Closed
  <1> QED
    BY <1>1, <1>2 DEF PInv, Met, Begun, Single, OneSide, Carried, NoLostBranch

LEMMA InitPInv == Init => PInv
  BY InitAInv DEF Init, PInv, Met, Begun, Single, OneSide, Carried, NoLostBranch

LEMMA NextPInv ==
  ASSUME PassesSucceed, NoWayAround, PInv, [Next]_vars
  PROVE  PInv'
  <1>1. AInv'
    BY NextAInv DEF PInv
  <1>2. TypeOK /\ IInv /\ TypeOK'
    BY <1>1 DEF PInv, AInv
  <1>3. CASE StartPass
    BY <1>1, <1>3, StartPInv
  <1>4. CASE FinishPass
    BY <1>1, <1>4, FinishPInv
  <1>5. CASE CompleteWorkflow
    BY <1>1, <1>5, CompletePInv
  <1>6. ASSUME NEW n \in Nodes,
               \/ SkipNode(n) \/ ExecuteStart(n) \/ ExecuteEnd(n) \/ ExecuteCondition(n)
               \/ RevisitApproval(n) \/ CreateApproval(n) \/ FailApproval(n)
        PROVE  PInv'
    <2>1. PICK more \in Seq(Nodes) : Handled(n, more)
      BY <1>2, <1>6, StepIsHandled
    <2> QED BY <1>1, <2>1, HandledPInv
  <1>7. CASE Crash
    BY <1>7 DEF Crash, PassesSucceed
  <1>8. CASE (\E f \in Forms : saveApplicationInstance(f)) \/ UNCHANGED vars
    <2>1. UNCHANGED <<status, iteration, rows, pc, queue, waiting, resume, reached>>
      BY <1>8 DEF saveApplicationInstance, engine, vars
    <2>2. PresentRows' = PresentRows /\ PendingRows' = PendingRows
      BY <2>1 DEF PresentRows, PendingRows, RowsIn
    <2>3. Met'
      BY <2>1, <2>2 DEF PInv, Met, FirstPending
    <2> QED
      BY <1>1, <2>1, <2>2, <2>3 DEF PInv, Begun, Single, OneSide, Carried, NoLostBranch
  <1>9. CASE submit
    <2>1. /\ pc = "idle" /\ status' = "RUNNING" /\ pc' = "start" /\ queue' = queue
          /\ reached' = {}
      BY <1>9 DEF submit
    <2> QED BY <1>1, <1>2, <1>9, <2>1, SubmitIs, FreshPInv
  <1>10. ASSUME NEW i \in Iterations, NEW n \in Approvals, NEW f \in Forms, Approve(i, n, f)
         PROVE  PInv'
    BY <1>1, <1>10, ApprovePInv
  <1>11. ASSUME NEW i \in Iterations, NEW n \in Approvals, Reject(i, n)
         PROVE  PInv'
    <2>1. /\ pc = "idle" /\ queue' = queue
          /\ \/ status' \in {"REJECTED", "DRAFT"} /\ pc' = pc /\ resume' = resume
             \/ /\ status' = "RUNNING" /\ pc' = "start" /\ reached' = {}
                /\ \A m \in Approvals : rows'[iteration'][m] = "NONE"
      BY <1>2, <1>11, RejectIs
    <2>2. CASE status' \in {"REJECTED", "DRAFT"} /\ pc' = pc /\ resume' = resume
      BY <1>1, <2>1, <2>2, StoppedPInv
    <2>3. CASE /\ status' = "RUNNING" /\ pc' = "start" /\ reached' = {}
               /\ \A m \in Approvals : rows'[iteration'][m] = "NONE"
      BY <1>1, <2>1, <2>3, FreshPInv
    <2> QED BY <2>1, <2>2, <2>3
  <1>12. CASE WithdrawRunning \/ ForceDelete
    <2>1. pc = "idle" /\ status' \in {"CANCELLED", "DELETED"} /\ UNCHANGED <<pc, queue, resume>>
      BY <1>12 DEF WithdrawRunning, ForceDelete, engine
    <2> QED BY <1>1, <2>1, StoppedPInv
  <1> QED
    BY <1>3, <1>4, <1>5, <1>6, <1>7, <1>8, <1>9, <1>10, <1>11, <1>12
    DEF Next, ExecutorStep, ApproveSomewhere

(* Whatever the rejections and the edits of the form, and however branches *)
(* overtake each other: on a flow without a way around a join, every       *)
(* approval node that an iteration ever put in the queue, those skipped    *)
(* "for now" included, is approved when the application is COMPLETED.      *)
THEOREM NoBranchIsForgotten ==
  ASSUME PassesSucceed, NoWayAround PROVE Spec => []NoLostBranch
  <1>1. PInv => NoLostBranch
    BY DEF PInv
  <1>2. PInv /\ [Next]_vars => PInv'
    BY NextPInv
  <1> QED BY <1>1, <1>2, InitPInv, PTL DEF Spec

================================================================================
