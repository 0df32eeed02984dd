----------------------- MODULE InstanceLifecycle_proofs ------------------------
(***************************************************************************)
(* What holds of InstanceLifecycle for any flows, requests and races.      *)
(***************************************************************************)
EXTENDS InstanceLifecycle, TLAPS

Asked ==
  [kind : Kinds, task : Tasks \cup {NoRequest.task},
   status : Statuses, iteration : Iterations, resume : SUBSET Approvals]

Logged == [before : Statuses \cup {"NONE"}, after : Statuses]

USE LifecycleAssumption DEF Kinds, Iterations, Statuses, TaskStates, Steps

LEMMA Nothing == NoRequest \in Asked /\ 1 \in Iterations
  BY DEF NoRequest, Asked

(* What the writes of a request produce.                                   *)
LEMMA Typed ==
  ASSUME TypeOK
  PROVE  /\ Cancelled \in [Tasks -> TaskStates]
         /\ \A i, S : Created(i, S) \in [Tasks -> TaskStates]
         /\ \A before \in Statuses \cup {"NONE"}, after \in Statuses :
              Event(before, after) \in Logged
  BY DEF TypeOK, Cancelled, Created, Event, Logged

LEMMA AtTyped ==
  ASSUME TypeOK, NEW r \in Requests, NEW step \in Steps, At(r, step)
  PROVE  pc' \in [Requests -> Steps] /\ request' \in [Requests -> Asked]
  <1>1. request \in [Requests -> Asked] /\ pc \in [Requests -> Steps]
    BY DEF TypeOK, Asked
  <1> QED BY <1>1, Nothing DEF At

LEMMA InitTypeOK == Init => TypeOK
  <1> SUFFICES ASSUME Init PROVE TypeOK
    OBVIOUS
  <1>1. events \in Seq(Logged)
    BY DEF Init, Event, Logged
  <1>2. request \in [Requests -> Asked]
    BY Nothing DEF Init
  <1> QED BY <1>1, <1>2 DEF Init, TypeOK, Asked, Logged

LEMMA BeginTyped ==
  ASSUME TypeOK, NEW r \in Requests, NEW kind \in Kinds,
         NEW t \in Tasks \cup {NoRequest.task}, Begin(r, kind, t)
  PROVE  TypeOK'
  <1>1. Request(kind, t) \in Asked
    BY DEF Request, Asked, TypeOK
  <1>2. request' \in [Requests -> Asked]
    BY <1>1 DEF Begin, TypeOK, Asked
  <1> QED BY <1>2 DEF Begin, TypeOK, Asked

LEMMA RejectTyped ==
  ASSUME TypeOK, NEW r \in Requests, NEW to \in Statuses, NEW i \in Iterations,
         NEW S \in SUBSET Approvals, Reject(r, to, i, S)
  PROVE  TypeOK'
  <1>1. request[r] \in Asked /\ request \in [Requests -> Asked]
    BY DEF TypeOK, Asked
  <1>2. tasks' \in [Tasks -> TaskStates]
    BY Typed DEF Reject
  <1>3. events' \in Seq(Logged) /\ status' \in Statuses
    BY <1>1, Typed DEF Reject, Change, TypeOK, Asked, Logged
  <1>4. request' \in [Requests -> Asked]
    BY <1>1 DEF Reject, Asked
  <1> QED BY <1>2, <1>3, <1>4 DEF Reject, TypeOK, Asked, Logged

LEMMA NextTypeOK == TypeOK /\ [Next]_vars => TypeOK'
  <1> SUFFICES ASSUME TypeOK, [Next]_vars PROVE TypeOK'
    OBVIOUS
  <1>1. ASSUME NEW r \in Requests, Arrive(r) PROVE TypeOK'
    BY <1>1, BeginTyped DEF Arrive, ReadSubmit, ReadWithdraw, validateApprovalRequest
  <1>2. ASSUME NEW r \in Requests, Handle(r) PROVE TypeOK'
    <2>1. request[r] \in Asked /\ events \in Seq(Logged)
      BY DEF TypeOK, Asked, Logged
    <2>2. CASE submit(r)
      <3>1. pc' \in [Requests -> Steps] /\ request' \in [Requests -> Asked]
        BY <2>2, AtTyped DEF submit
      <3>2. current_iteration' \in Iterations
        BY <2>1, <2>2 DEF submit, Asked
      <3>3. tasks' \in [Tasks -> TaskStates] /\ flow' = flow
        BY <2>2, Typed DEF submit, TypeOK
      <3>4. status' \in Statuses /\ events' \in Seq(Logged)
        <4>1. Event(request[r].status, "RUNNING") \in Logged /\ Event("RUNNING", "COMPLETED") \in Logged
          BY <2>1, Typed DEF Asked
        <4>2. CASE flow = << >>
          <5>1. <<Event(request[r].status, "RUNNING"), Event("RUNNING", "COMPLETED")>> \in Seq(Logged)
            BY <4>1
          <5>2. status' = "COMPLETED"
                /\ events' = events \o <<Event(request[r].status, "RUNNING"), Event("RUNNING", "COMPLETED")>>
            BY <2>2, <4>2 DEF submit
          <5> HIDE DEF Logged
          <5>3. events' \in Seq(Logged)
            BY <2>1, <5>1, <5>2
          <5> QED BY <5>2, <5>3
        <4>3. CASE flow # << >>
          BY <2>1, <2>2, <4>1, <4>3 DEF submit, Change
        <4> QED BY <4>2, <4>3
      <3> QED BY <3>1, <3>2, <3>3, <3>4 DEF TypeOK, Asked, Logged
    <2>3. CASE withdrawApplicationInstance(r)
      <3>1. pc' \in [Requests -> Steps] /\ request' \in [Requests -> Asked]
        BY <2>3, AtTyped DEF withdrawApplicationInstance
      <3>2. tasks' \in [Tasks -> TaskStates]
        BY <2>3, Typed DEF withdrawApplicationInstance, TypeOK
      <3>3. status' \in Statuses /\ events' \in Seq(Logged)
        <4>1. Event("RUNNING", "CANCELLED") \in Logged
          BY Typed
        <4>2. << >> \in Seq(Logged)
          OBVIOUS
        <4>3. \/ status' = "CANCELLED" /\ events' = Append(events, Event("RUNNING", "CANCELLED"))
              \/ status' = "DELETED" /\ events' = << >>
              \/ status' = status /\ events' = events
          BY <2>3 DEF withdrawApplicationInstance, Change
        <4>4. Append(events, Event("RUNNING", "CANCELLED")) \in Seq(Logged)
          BY <2>1, <4>1
        <4>5. status \in Statuses
          BY DEF TypeOK
        <4> QED BY <2>1, <4>2, <4>3, <4>4, <4>5
      <3> QED BY <2>3, <3>1, <3>2, <3>3 DEF withdrawApplicationInstance, TypeOK, Asked, Logged
    <2>4. CASE Approve(r)
      <3>1. pc' \in [Requests -> Steps] /\ request' \in [Requests -> Asked]
        BY <2>4, AtTyped DEF Approve
      <3> QED BY <2>4, <3>1 DEF Approve, TypeOK, Asked
    <2>5. CASE handleCloseApplication(r)
      BY <2>5, RejectTyped DEF handleCloseApplication, TypeOK
    <2>6. CASE handleReturnToApplicant(r)
      BY <2>6, RejectTyped DEF handleReturnToApplicant, TypeOK
    <2>7. CASE handleSendToSpecificNode(r)
      <3>1. PICK S \in Resumed(request[r].iteration) :
              request[r].iteration < MaxIteration /\ Reject(r, "RUNNING", request[r].iteration + 1, S)
        BY <2>7 DEF handleSendToSpecificNode
      <3>2. request[r].iteration + 1 \in Iterations
        BY <2>1, <3>1 DEF Asked
      <3>3. S \in SUBSET Approvals
        <4>1. \A k \in DOMAIN flow : flow[k] \in SUBSET Approvals
          BY DEF TypeOK
        <4>2. \/ \E k \in DOMAIN flow : S = flow[k]
              \/ \E a \in Approvals : S = {a}
          BY <3>1 DEF Resumed
        <4> QED BY <4>1, <4>2
      <3> QED BY <3>1, <3>2, <3>3, RejectTyped
    <2>8. CASE Reread(r) \/ Complete(r)
      <3>1. pc' \in [Requests -> Steps] /\ request' \in [Requests -> Asked]
        BY <2>8, AtTyped DEF Reread, Complete
      <3> QED BY <2>8, <3>1 DEF Reread, Complete, TypeOK, Asked
    <2>9. CASE executeWorkflow(r)
      <3>1. pc' \in [Requests -> Steps] /\ request' \in [Requests -> Asked]
        BY <2>9, AtTyped DEF executeWorkflow
      <3>2. tasks' \in [Tasks -> TaskStates]
        BY <2>9, Typed DEF executeWorkflow, TypeOK
      <3> QED BY <2>9, <3>1, <3>2 DEF executeWorkflow, TypeOK, Asked
    <2>10. CASE CloseTasks(r)
      BY <2>1, <2>10, Typed DEF CloseTasks, TypeOK, Asked
    <2>11. CASE LogCompletion(r)
      <3>1. pc' \in [Requests -> Steps] /\ request' \in [Requests -> Asked]
        BY <2>11, AtTyped DEF LogCompletion
      <3>2. Event(request[r].status, "COMPLETED") \in Logged
        BY <2>1, Typed DEF Asked
      <3>3. events' \in Seq(Logged)
        BY <2>1, <2>11, <3>2 DEF LogCompletion
      <3> QED BY <2>11, <3>1, <3>3 DEF LogCompletion, TypeOK, Asked, Logged
    <2> QED
      BY <1>2, <2>2, <2>3, <2>4, <2>5, <2>6, <2>7, <2>8, <2>9, <2>10, <2>11 DEF Handle
  <1>3. CASE UNCHANGED vars
    BY <1>3 DEF vars, TypeOK
  <1> QED BY <1>1, <1>2, <1>3 DEF Next

(* The instance, its tasks, its log and the requests are always what they  *)
(* may be, whichever requests overtake each other.                         *)
THEOREM TypeCorrect == Spec => []TypeOK
  BY InitTypeOK, NextTypeOK, PTL DEF Spec

--------------------------------------------------------------------------------
(* Where only approvals race, as between two requests that the code does   *)
(* not keep apart.                                                         *)

OnlyApprovalsRace == Racing \subseteq {"approve"}

(* A request that does not race is alone.                                  *)
Alone ==
  \A r, q \in Requests : pc[r] # "idle" /\ pc[q] # "idle" /\ r # q => request[r].kind = "approve"

(* What such a request read is still so when it commits.                   *)
ReadIsSo ==
  \A r \in Requests : pc[r] = "read" =>
    /\ request[r].kind = "submit" => status = "DRAFT"
    /\ request[r].kind = "withdraw" => status \in {"DRAFT", "RUNNING"}
    /\ request[r].kind = "reject" => status = "RUNNING"
    /\ request[r].kind # "approve" =>
         request[r].status = status /\ request[r].iteration = current_iteration

(* A workflow that goes on is that of a running application, or of one     *)
(* that another approval has completed.                                    *)
GoesOn ==
  \A r \in Requests :
    /\ pc[r] # "idle" /\ request[r].kind = "approve" => status \in {"RUNNING", "COMPLETED"}
    /\ pc[r] \in {"pass", "close", "complete"} => status \in {"RUNNING", "COMPLETED"}
    /\ pc[r] = "log" => status = "COMPLETED"
    /\ pc[r] \in {"pass", "close", "complete", "log", "reread"} =>
         request[r].kind \in {"approve", "reject"}

(* The last event shows the status, or is about to be recorded.            *)
Recorded ==
  events # << >> => Last(events).after = status \/ \E r \in Requests : pc[r] = "log"

LInv == TypeOK /\ Alone /\ ReadIsSo /\ GoesOn /\ Recorded

LEMMA InitLInv == Init => LInv
  <1> SUFFICES ASSUME Init PROVE LInv
    OBVIOUS
  <1>1. Alone /\ ReadIsSo /\ GoesOn
    BY DEF Init, Alone, ReadIsSo, GoesOn
  <1>2. Recorded
    BY DEF Init, Recorded, Event, Last
  <1> QED BY <1>1, <1>2, InitTypeOK DEF LInv

LEMMA ArriveLInv ==
  ASSUME OnlyApprovalsRace, LInv, NEW r \in Requests, NEW kind \in Kinds, NEW t,
         Begin(r, kind, t),
         kind = "submit" => status = "DRAFT",
         kind = "withdraw" => status \in {"DRAFT", "RUNNING"},
         kind \in {"approve", "reject"} => status = "RUNNING"
  PROVE  Alone' /\ ReadIsSo' /\ GoesOn' /\ Recorded'
  <1>1. /\ UNCHANGED <<status, current_iteration, events>>
        /\ pc[r] = "idle" /\ MayBegin(kind)
        /\ \A q \in Requests : pc'[q] = IF q = r THEN "read" ELSE pc[q]
        /\ \A q \in Requests : request'[q] = IF q = r THEN Request(kind, t) ELSE request[q]
    BY DEF Begin, LInv, TypeOK
  <1>2. \A q \in Requests : pc[q] # "idle" => kind = "approve" /\ request[q].kind = "approve"
    BY <1>1 DEF MayBegin, AllIdle, OnlyApprovalsRace
  <1>3. Request(kind, t).kind = kind /\ Request(kind, t).status = status
        /\ Request(kind, t).iteration = current_iteration
    BY DEF Request
  <1>4. Alone'
    BY <1>1, <1>2, <1>3 DEF Alone
  <1>5. ReadIsSo'
    BY <1>1, <1>3 DEF ReadIsSo, LInv
  <1>6. GoesOn'
    BY <1>1, <1>3 DEF GoesOn, LInv
  <1>7. Recorded'
    BY <1>1 DEF Recorded, LInv
  <1> QED BY <1>4, <1>5, <1>6, <1>7

(* The other requests, while one goes on to a further step.                *)
Moves(r, step) ==
  /\ pc[r] # "idle" /\ pc'[r] = step
  /\ step # "idle" => request'[r].kind = request[r].kind
  /\ \A q \in Requests : q # r => pc'[q] = pc[q] /\ request'[q] = request[q]

LEMMA AtMoves ==
  ASSUME LInv, NEW r \in Requests, NEW step, pc[r] # "idle", At(r, step)
  PROVE  Moves(r, step)
  BY DEF At, Moves, LInv, TypeOK

LEMMA Others ==
  ASSUME LInv, NEW r \in Requests, NEW step \in Steps \ {"read"}, Moves(r, step)
  PROVE  /\ Alone' /\ ReadIsSo'
         /\ \A q \in Requests : q # r /\ pc'[q] # "idle" =>
              request'[q].kind = "approve" /\ request[r].kind = "approve"
  BY DEF Moves, LInv, Alone, ReadIsSo

(* What is left to show of a step: of the request that makes it, and that  *)
(* it does not change the status under the others.                         *)
LEMMA MovesLInv ==
  ASSUME LInv, TypeOK', NEW r \in Requests, NEW step \in Steps \ {"read"}, Moves(r, step),
         \/ status' = status
         \/ status' = "COMPLETED" /\ step # "idle" /\ status \in {"RUNNING", "COMPLETED"}
         \/ request[r].kind # "approve",
         step \in {"pass", "close", "complete"} => status' \in {"RUNNING", "COMPLETED"},
         step = "log" => status' = "COMPLETED",
         step # "idle" => request[r].kind \in {"approve", "reject"},
         step # "idle" /\ request[r].kind = "approve" => status' \in {"RUNNING", "COMPLETED"},
         Recorded'
  PROVE  LInv'
  <1>1. Alone' /\ ReadIsSo'
        /\ \A q \in Requests : q # r /\ pc'[q] # "idle" =>
             request'[q].kind = "approve" /\ request[r].kind = "approve"
    BY Others
  <1>2. GoesOn'
    <2> SUFFICES ASSUME NEW q \in Requests
        PROVE  /\ pc'[q] # "idle" /\ request'[q].kind = "approve" => status' \in {"RUNNING", "COMPLETED"}
               /\ pc'[q] \in {"pass", "close", "complete"} => status' \in {"RUNNING", "COMPLETED"}
               /\ pc'[q] = "log" => status' = "COMPLETED"
               /\ pc'[q] \in {"pass", "close", "complete", "log", "reread"} =>
                    request'[q].kind \in {"approve", "reject"}
      BY DEF GoesOn
    <2>1. CASE q = r
      BY <2>1 DEF Moves
    <2>2. CASE q # r
      BY <1>1, <2>2 DEF Moves, LInv, GoesOn
    <2> QED BY <2>1, <2>2
  <1> QED BY <1>1, <1>2 DEF LInv

(* An event that is recorded last.                                         *)
LEMMA LastOf ==
  ASSUME NEW log \in Seq(Logged), NEW e \in Logged PROVE Last(Append(log, e)) = e /\ Append(log, e) # << >>
  BY DEF Last

View == <<status, current_iteration>>

LEMMA HandleLInv ==
  ASSUME LInv, TypeOK', NEW r \in Requests, Handle(r)
  PROVE  LInv' /\ (Life!Next \/ UNCHANGED View)
  <1> USE DEF View
  <1>1. request[r] \in Asked /\ events \in Seq(Logged) /\ status \in Statuses
    BY DEF LInv, TypeOK, Asked, Logged
  <1>2. CASE submit(r)
    <2>1. Moves(r, "idle")
      BY <1>2, AtMoves DEF submit
    <2>2. status = "DRAFT" /\ request[r].iteration = current_iteration /\ request[r].kind = "submit"
      BY <1>2 DEF submit, LInv, ReadIsSo
    <2>3. status' \in {"RUNNING", "COMPLETED"}
      BY <1>2 DEF submit, Change
    <2>4. Recorded'
      <3>1. Event(request[r].status, "RUNNING") \in Logged /\ Event("RUNNING", "COMPLETED") \in Logged
        BY <1>1, Typed DEF Asked, LInv
      <3>2. CASE flow = << >>
        <4>1. events' = events \o <<Event(request[r].status, "RUNNING"), Event("RUNNING", "COMPLETED")>>
              /\ status' = "COMPLETED"
          BY <1>2, <3>2 DEF submit
        <4>2. Len(events') = Len(events) + 2 /\ events'[Len(events')] = Event("RUNNING", "COMPLETED")
          BY <1>1, <3>1, <4>1
        <4> QED BY <4>1, <4>2 DEF Recorded, Last, Event
      <3>3. CASE flow # << >>
        <4>1. events' = Append(events, Event(request[r].status, "RUNNING")) /\ status' = "RUNNING"
          BY <1>2, <3>3 DEF submit, Change
        <4> QED BY <1>1, <3>1, <4>1, LastOf DEF Recorded, Event
      <3> QED BY <3>2, <3>3
    <2>5. Life!Next
      <3>1. current_iteration' \in {current_iteration, current_iteration + 1}
        BY <1>2, <2>2 DEF submit
      <3> QED BY <2>2, <2>3, <3>1 DEF Life!Next, Life!Submit, Life!Move
    <2> QED BY <2>1, <2>2, <2>4, <2>5, MovesLInv DEF Steps
  <1>3. CASE withdrawApplicationInstance(r)
    <2>1. Moves(r, "idle")
      BY <1>3, AtMoves DEF withdrawApplicationInstance
    <2>2. status = request[r].status /\ request[r].kind = "withdraw" /\ current_iteration' = current_iteration
      BY <1>3 DEF withdrawApplicationInstance, LInv, ReadIsSo
    <2>3. \/ /\ status = "RUNNING" /\ status' = "CANCELLED"
             /\ events' = Append(events, Event("RUNNING", "CANCELLED"))
          \/ status = "DRAFT" /\ status' = "DELETED" /\ events' = << >>
          \/ status' = status /\ events' = events
      BY <1>3, <2>2 DEF withdrawApplicationInstance, Change
    <2>4. Recorded'
      <3>1. CASE status' = "CANCELLED" /\ events' = Append(events, Event("RUNNING", "CANCELLED"))
        <4>1. Event("RUNNING", "CANCELLED") \in Logged
          BY Typed DEF LInv
        <4> QED BY <1>1, <3>1, <4>1, LastOf DEF Recorded, Event
      <3>2. CASE events' = << >>
        BY <3>2 DEF Recorded
      <3>3. CASE status' = status /\ events' = events
        <4>1. \A q \in Requests : pc[q] = "log" => pc'[q] = "log"
          BY <1>3, <2>1 DEF Moves, withdrawApplicationInstance
        <4> QED BY <3>3, <4>1 DEF Recorded, LInv
      <3> QED BY <2>3, <3>1, <3>2, <3>3
    <2>5. Life!Next \/ UNCHANGED View
      BY <2>2, <2>3 DEF Life!Next, Life!Withdraw, Life!Move
    <2> QED BY <2>1, <2>2, <2>4, <2>5, MovesLInv DEF Steps
  <1>4. ASSUME NEW to \in {"REJECTED", "DRAFT", "RUNNING"}, NEW i, NEW k, Reject(r, to, i, k)
        PROVE  LInv' /\ status = "RUNNING" /\ status' = to /\ current_iteration' = i
               /\ request[r].iteration = current_iteration
    <2>1. Moves(r, "reread")
      BY <1>4 DEF Reject, Moves, LInv, TypeOK
    <2>2. status = "RUNNING" /\ request[r].kind = "reject" /\ request[r].iteration = current_iteration
      BY <1>4 DEF Reject, LInv, ReadIsSo
    <2>3. status' = to /\ events' = Append(events, Event(request[r].status, to))
          /\ current_iteration' = i
      BY <1>4 DEF Reject, Change
    <2>4. Event(request[r].status, to) \in Logged
      BY <1>1, Typed DEF LInv, Asked
    <2>5. Recorded'
      BY <1>1, <2>3, <2>4, LastOf DEF Recorded, Event
    <2> QED BY <2>1, <2>2, <2>3, <2>5, MovesLInv DEF Steps
  <1>5. CASE handleCloseApplication(r) \/ handleReturnToApplicant(r) \/ handleSendToSpecificNode(r)
    BY <1>4, <1>5
    DEF handleCloseApplication, handleReturnToApplicant, handleSendToSpecificNode,
        Life!Next, Life!Decide, Life!SendBack, Life!Move
  <1>6. ASSUME NEW step \in Steps \ {"read"}, Moves(r, step), pc[r] # "log",
               status' = status, events' = events
        PROVE  Recorded'
    BY <1>6 DEF Recorded, LInv, Moves
  <1>7. CASE Approve(r)
    <2>1. Moves(r, "pass")
      BY <1>7, AtMoves DEF Approve
    <2>2. UNCHANGED <<status, events, current_iteration>> /\ pc[r] = "read" /\ request[r].kind = "approve"
      BY <1>7 DEF Approve
    <2> QED BY <1>6, <2>1, <2>2, MovesLInv DEF Steps, LInv, GoesOn
  <1>8. CASE Reread(r)
    <2> DEFINE step == IF status = "RUNNING" THEN "pass" ELSE "idle"
    <2>1. Moves(r, step)
      BY <1>8, AtMoves DEF Reread
    <2>2. UNCHANGED <<status, events, current_iteration>> /\ pc[r] = "reread"
      BY <1>8 DEF Reread
    <2>3. request[r].kind \in {"approve", "reject"}
      BY <2>2 DEF LInv, GoesOn
    <2> QED BY <1>6, <2>1, <2>2, <2>3, MovesLInv DEF Steps
  <1>9. CASE executeWorkflow(r)
    <2>1. PICK step \in {"idle", "close"} : Moves(r, step)
      BY <1>9, AtMoves DEF executeWorkflow
    <2>2. UNCHANGED <<status, events, current_iteration>> /\ pc[r] = "pass"
      BY <1>9 DEF executeWorkflow
    <2>3. request[r].kind \in {"approve", "reject"} /\ status \in {"RUNNING", "COMPLETED"}
      BY <2>2 DEF LInv, GoesOn
    <2> QED BY <1>6, <2>1, <2>2, <2>3, MovesLInv DEF Steps
  <1>10. CASE CloseTasks(r)
    <2>1. Moves(r, "complete")
      BY <1>10 DEF CloseTasks, Moves, LInv, TypeOK
    <2>2. UNCHANGED <<status, events, current_iteration>> /\ pc[r] = "close"
      BY <1>10 DEF CloseTasks
    <2>3. request[r].kind \in {"approve", "reject"} /\ status \in {"RUNNING", "COMPLETED"}
      BY <2>2 DEF LInv, GoesOn
    <2> QED BY <1>6, <2>1, <2>2, <2>3, MovesLInv DEF Steps
  <1>11. CASE Complete(r)
    <2>1. Moves(r, "log")
      BY <1>11, AtMoves DEF Complete
    <2>2. status' = "COMPLETED" /\ UNCHANGED <<events, current_iteration>> /\ pc[r] = "complete"
      BY <1>11 DEF Complete
    <2>3. request[r].kind \in {"approve", "reject"} /\ status \in {"RUNNING", "COMPLETED"}
      BY <2>2 DEF LInv, GoesOn
    <2>4. Recorded'
      BY <2>1 DEF Recorded, Moves
    <2>5. Life!Next \/ UNCHANGED View
      BY <2>2, <2>3 DEF Life!Next, Life!Decide, Life!Move
    <2> QED BY <2>1, <2>2, <2>3, <2>4, <2>5, MovesLInv DEF Steps
  <1>12. CASE LogCompletion(r)
    <2>1. Moves(r, "idle")
      BY <1>12, AtMoves DEF LogCompletion
    <2>2. UNCHANGED <<status, current_iteration>> /\ pc[r] = "log"
          /\ events' = Append(events, Event(request[r].status, "COMPLETED"))
      BY <1>12 DEF LogCompletion
    <2>3. status = "COMPLETED"
      BY <2>2 DEF LInv, GoesOn
    <2>4. Event(request[r].status, "COMPLETED") \in Logged
      BY <1>1, Typed DEF LInv, Asked
    <2>5. Recorded'
      BY <1>1, <2>2, <2>3, <2>4, LastOf DEF Recorded, Event
    <2> QED BY <2>1, <2>2, <2>3, <2>5, MovesLInv DEF Steps
  <1> QED BY <1>2, <1>3, <1>5, <1>7, <1>8, <1>9, <1>10, <1>11, <1>12 DEF Handle

LEMMA NextLInv ==
  ASSUME OnlyApprovalsRace, LInv, [Next]_vars
  PROVE  LInv' /\ (Life!Next \/ UNCHANGED View)
  <1>1. TypeOK'
    BY NextTypeOK DEF LInv
  <1>2. ASSUME NEW r \in Requests, Arrive(r) PROVE LInv' /\ UNCHANGED View
    <2>1. PICK kind \in Kinds, t \in Tasks \cup {NoRequest.task} :
            /\ Begin(r, kind, t)
            /\ kind = "submit" => status = "DRAFT"
            /\ kind = "withdraw" => status \in {"DRAFT", "RUNNING"}
            /\ kind \in {"approve", "reject"} => status = "RUNNING"
      BY <1>2 DEF Arrive, ReadSubmit, ReadWithdraw, validateApprovalRequest
    <2> QED BY <1>1, <2>1, ArriveLInv DEF LInv, Begin, View
  <1>3. ASSUME NEW r \in Requests, Handle(r) PROVE LInv' /\ (Life!Next \/ UNCHANGED View)
    BY <1>1, <1>3, HandleLInv
  <1>4. CASE UNCHANGED vars
    BY <1>1, <1>4 DEF vars, View, LInv, Alone, ReadIsSo, GoesOn, Recorded
  <1> QED BY <1>2, <1>3, <1>4 DEF Next

(* Between requests the log of events ends with the status, if nothing but *)
(* approvals overtakes a request that is handled.                          *)
THEOREM LogCorrect ==
  ASSUME OnlyApprovalsRace PROVE Spec => []LogAgrees
  <1>1. LInv => LogAgrees
    BY DEF LInv, Recorded, LogAgrees, AllIdle
  <1>2. LInv /\ [Next]_vars => LInv'
    BY NextLInv
  <1> QED BY <1>1, <1>2, InitLInv, PTL DEF Spec

(* Then the requests, step by step, do no more to the status and the       *)
(* iteration of an application than its abstract life allows.              *)
THEOREM LifecycleImplementsStatus ==
  ASSUME OnlyApprovalsRace PROVE Spec => ImplementsStatus
  <1>1. Init => Life!Init
    BY DEF Init, Life!Init
  <1>2. LInv /\ [Next]_vars => LInv'
    BY NextLInv
  <1>3. LInv /\ [Next]_vars => [Life!Next]_<<status, current_iteration>>
    BY NextLInv DEF View
  <1> QED BY <1>1, <1>2, <1>3, InitLInv, PTL DEF Spec, ImplementsStatus, Life!Spec

--------------------------------------------------------------------------------
(* The tasks of the stages, where only approvals race.                     *)

(* The iteration is at stage k: it has no row of a later one, what it has  *)
(* asked in k is to be approved or is, and in the others before it is.     *)
InStage(k) ==
  /\ k \in StagesIn(current_iteration) /\ \A j \in StagesIn(current_iteration) : j <= k
  /\ \A a \in AskedIn(k) : tasks[<<current_iteration, a>>] \in {"PENDING", "APPROVED"}
  /\ \A j \in StagesIn(current_iteration) \ {k} : Settled(j)

(* The stages of an iteration follow each other and are asked as a whole,  *)
(* but for the one in which it began with one approval.                    *)
Shaped ==
  /\ \A k \in StagesIn(current_iteration) : AskedIn(k) = flow[k] \/ BegunAt(k)
  /\ \A j, k \in StagesIn(current_iteration) : j .. k \subseteq StagesIn(current_iteration)

(* What an iteration may begin with.                                       *)
Entry(S, k) ==
  \/ S = flow[k]
  \/ /\ current_iteration > 1
     /\ \E a \in flow[k] : S = {a} /\ tasks[<<current_iteration - 1, a>>] = "APPROVED"

(* A rejection has begun an iteration and not yet entered its stage.       *)
SentBack(r) == request[r].kind = "reject" /\ pc[r] \in {"reread", "pass"} /\ status = "RUNNING"

NoneLater == \A t \in Tasks : t[1] > current_iteration => tasks[t] = "NONE"

PendingHere == \A t \in Tasks : tasks[t] = "PENDING" => status = "RUNNING" /\ t[1] = current_iteration

Placed == \A t \in Tasks : tasks[t] # "NONE" => \E k \in DOMAIN flow : t[2] \in flow[k]

Staged ==
  status = "RUNNING" =>
    \/ \E k \in DOMAIN flow : InStage(k)
    \/ StagesIn(current_iteration) = {} /\ \E r \in Requests : SentBack(r)

Closing == \E r \in Requests : pc[r] \in {"close", "complete", "log"}

AllApproved == flow # << >> => InStage(Len(flow)) /\ PendingIn(current_iteration) = {}

(* Whoever finds the end reached, all is approved, and stays so.           *)
Ended == status = "COMPLETED" \/ Closing => AllApproved

(* The request that leaves nothing to decide goes on with the workflow.    *)
Continued ==
  status = "RUNNING" /\ PendingIn(current_iteration) = {} =>
    \E r \in Requests : pc[r] \in {"reread", "pass", "close", "complete"}

(* What a request knows of the rows when it comes to write.                *)
Knows(r) ==
  /\ pc[r] = "read" /\ request[r].kind \in {"approve", "reject"} =>
       /\ request[r].task \in Tasks /\ request[r].task[1] = current_iteration
       /\ tasks[request[r].task] \in {"PENDING", "APPROVED"}
  /\ pc[r] = "read" /\ request[r].kind = "reject" => tasks[request[r].task] = "PENDING"
  /\ request[r].kind = "approve" => request[r].resume = {}
  /\ pc[r] \in {"close", "complete", "log"} => request[r].kind = "approve"
  /\ pc[r] = "pass" /\ request[r].kind = "reject" => status = "RUNNING"
  /\ SentBack(r) => /\ \E k \in DOMAIN flow : Entry(request[r].resume, k)
                     /\ StagesIn(current_iteration) = {}
  /\ pc[r] = "reread" => request[r].kind = "reject"

SInv ==
  /\ LInv
  /\ NoneLater /\ PendingHere /\ Placed
  /\ Shaped /\ Staged /\ Ended /\ Continued
  /\ \A r \in Requests : Knows(r)

LEMMA FlowIs ==
  ASSUME TypeOK
  PROVE  /\ Len(flow) \in Nat /\ DOMAIN flow = 1 .. Len(flow)
         /\ flow # << >> <=> DOMAIN flow # {}
         /\ \A k \in DOMAIN flow : flow[k] # {} /\ flow[k] \subseteq Approvals
         /\ \A k \in DOMAIN flow, j \in DOMAIN flow : \A a : a \in flow[k] /\ a \in flow[j] => j = k
         /\ \A i \in Iterations, a \in Approvals : <<i, a>> \in Tasks
         /\ \A t \in Tasks : t[1] \in Iterations /\ t[2] \in Approvals /\ t = <<t[1], t[2]>>
         /\ current_iteration \in Iterations
  <1>1. flow \in Seq(SUBSET Approvals) /\ flow \in Flows
    BY DEF TypeOK
  <1>2. Len(flow) \in Nat /\ DOMAIN flow = 1 .. Len(flow) /\ (flow # << >> <=> DOMAIN flow # {})
        /\ \A k \in DOMAIN flow : flow[k] \in SUBSET Approvals
    BY <1>1
  <1>3. \A k \in DOMAIN flow : flow[k] # {} /\ \A j \in DOMAIN flow \ {k} : flow[j] \cap flow[k] = {}
    BY <1>1
  <1> QED BY <1>1, <1>2, <1>3 DEF Tasks, TypeOK

(* Nothing has been asked in an iteration without a stage.                 *)
LEMMA NoStage ==
  ASSUME TypeOK, Placed, NEW i \in Iterations
  PROVE  StagesIn(i) = {} <=> \A a \in Approvals : tasks[<<i, a>>] = "NONE"
  <1>1. ASSUME StagesIn(i) = {}, NEW a \in Approvals PROVE tasks[<<i, a>>] = "NONE"
    <2>1. <<i, a>> \in Tasks /\ <<i, a>>[2] = a
      BY FlowIs
    <2> QED BY <1>1, <2>1 DEF Placed, StagesIn
  <1>2. ASSUME \A a \in Approvals : tasks[<<i, a>>] = "NONE" PROVE StagesIn(i) = {}
    BY <1>2, FlowIs DEF StagesIn
  <1> QED BY <1>1, <1>2

(* Where there is no task to decide, all of the stages gone through are    *)
(* approved.                                                               *)
LEMMA NonePending ==
  ASSUME TypeOK, NEW k \in DOMAIN flow, InStage(k), PendingIn(current_iteration) = {},
         NEW j \in StagesIn(current_iteration)
  PROVE  Settled(j)
  <1>1. j \in DOMAIN flow /\ \A a \in AskedIn(j) : a \in Approvals
    BY FlowIs DEF StagesIn, AskedIn
  <1> QED BY <1>1 DEF InStage, PendingIn, Settled

LEMMA OneStage ==
  ASSUME TypeOK, NEW k \in DOMAIN flow, NEW j \in DOMAIN flow, InStage(k), InStage(j) PROVE j = k
  BY FlowIs DEF InStage

(* What a stage needs of the rows is kept by what leaves them, or approves *)
(* what is to be.                                                          *)
LEMMA StageKept ==
  ASSUME TypeOK, UNCHANGED <<flow, current_iteration>>, NEW k \in DOMAIN flow, InStage(k),
         \A t \in Tasks : \/ tasks'[t] = tasks[t]
                          \/ tasks[t] = "PENDING" /\ tasks'[t] = "APPROVED"
  PROVE  InStage(k)'
  <1>1. \A j \in DOMAIN flow : \A a \in flow[j] :
          LET t == <<current_iteration, a>>
          IN  \/ tasks'[t] = tasks[t]
              \/ tasks[t] = "PENDING" /\ tasks'[t] = "APPROVED"
    BY FlowIs
  <1>2. StagesIn(current_iteration)' = StagesIn(current_iteration)
    BY <1>1 DEF StagesIn
  <1>3. StagesIn(current_iteration) \subseteq DOMAIN flow
    BY DEF StagesIn
  <1>4. ASSUME NEW j \in DOMAIN flow PROVE AskedIn(j)' = AskedIn(j) /\ (Settled(j) => Settled(j)')
    <2>1. AskedIn(j)' = AskedIn(j)
      BY <1>1, <1>4 DEF AskedIn
    <2>2. \A a \in AskedIn(j) : a \in flow[j]
      BY DEF AskedIn
    <2> QED BY <1>1, <1>4, <2>1, <2>2 DEF Settled
  <1>5. \A a \in AskedIn(k) : tasks'[<<current_iteration, a>>] \in {"PENDING", "APPROVED"}
    BY <1>1 DEF InStage, AskedIn
  <1> QED BY <1>2, <1>3, <1>4, <1>5 DEF InStage

(* The shape is kept by what asks nothing and forgets no approval.         *)
LEMMA ShapeKept ==
  ASSUME TypeOK, Shaped, UNCHANGED <<flow, current_iteration>>,
         \A t \in Tasks : /\ tasks'[t] = "NONE" <=> tasks[t] = "NONE"
                          /\ tasks[t] = "APPROVED" => tasks'[t] = "APPROVED"
  PROVE  Shaped'
  <1>1. \A i \in Iterations : \A j \in DOMAIN flow : \A a \in flow[j] :
          /\ tasks'[<<i, a>>] = "NONE" <=> tasks[<<i, a>>] = "NONE"
          /\ tasks[<<i, a>>] = "APPROVED" => tasks'[<<i, a>>] = "APPROVED"
    <2>1. \A i \in Iterations : \A j \in DOMAIN flow : \A a \in flow[j] : <<i, a>> \in Tasks
      BY FlowIs
    <2> QED BY <2>1, Zenon
  <1>2. current_iteration \in Iterations /\ (current_iteration > 1 => current_iteration - 1 \in Iterations)
    BY DEF TypeOK
  <1>3. StagesIn(current_iteration)' = StagesIn(current_iteration)
    <2>1. \A j \in DOMAIN flow : (\E a \in flow[j] : tasks'[<<current_iteration, a>>] # "NONE")
                               <=> \E a \in flow[j] : tasks[<<current_iteration, a>>] # "NONE"
      BY <1>1, <1>2
    <2>2. StagesIn(current_iteration)' =
            {j \in DOMAIN flow : \E a \in flow[j] : tasks'[<<current_iteration, a>>] # "NONE"}
      BY DEF StagesIn
    <2> QED BY <2>1, <2>2 DEF StagesIn
  <1>4. \A j \in DOMAIN flow : AskedIn(j)' = AskedIn(j)
    BY <1>1, <1>2 DEF AskedIn
  <1>5. \A j \in DOMAIN flow : BegunAt(j) => BegunAt(j)'
    BY <1>1, <1>2, <1>3, <1>4 DEF BegunAt
  <1>6. StagesIn(current_iteration) \subseteq DOMAIN flow
    BY DEF StagesIn
  <1> QED BY <1>3, <1>4, <1>5, <1>6 DEF Shaped

(* Steps that change neither the instance nor its rows.                    *)
LEMMA SameRows ==
  ASSUME SInv, LInv', UNCHANGED <<flow, status, current_iteration, tasks>>,
         \A r \in Requests : SentBack(r) => SentBack(r)',
         Closing' => Closing \/ AllApproved,
         status = "RUNNING" /\ PendingIn(current_iteration) = {} =>
           \E r \in Requests : pc'[r] \in {"reread", "pass", "close", "complete"},
         \A r \in Requests : Knows(r)'
  PROVE  SInv'
  <1>1. /\ StagesIn(current_iteration)' = StagesIn(current_iteration)
        /\ PendingIn(current_iteration)' = PendingIn(current_iteration)
        /\ \A k : InStage(k)' <=> InStage(k)
        /\ AllApproved' <=> AllApproved
        /\ Shaped' <=> Shaped
    BY DEF StagesIn, PendingIn, InStage, AllApproved, Shaped, AskedIn, Settled, BegunAt
  <1>2. NoneLater' /\ PendingHere' /\ Placed'
    BY DEF SInv, NoneLater, PendingHere, Placed, Tasks
  <1>3. Shaped' /\ Staged'
    BY <1>1 DEF SInv, Staged
  <1>4. Ended'
    BY <1>1 DEF SInv, Ended
  <1>5. Continued'
    BY <1>1 DEF Continued
  <1> QED BY <1>2, <1>3, <1>4, <1>5 DEF SInv

LEMMA ArriveStage ==
  ASSUME SInv, LInv', NEW r \in Requests, NEW kind \in Kinds, NEW t, Begin(r, kind, t),
         kind \in {"approve", "reject"} => t \in Tasks /\ tasks[t] = "PENDING"
  PROVE  SInv'
  <1>1. /\ UNCHANGED <<flow, status, current_iteration, tasks>> /\ pc[r] = "idle"
        /\ \A q \in Requests :
             /\ pc'[q] = IF q = r THEN "read" ELSE pc[q]
             /\ request'[q] = IF q = r THEN Request(kind, t) ELSE request[q]
    BY DEF Begin, SInv, LInv, TypeOK
  <1>2. Request(kind, t).kind = kind /\ Request(kind, t).task = t /\ Request(kind, t).resume = {}
    BY DEF Request
  <1>3. \A q \in Requests : SentBack(q) <=> SentBack(q)'
    BY <1>1 DEF SentBack
  <1>4. Closing' => Closing
    BY <1>1 DEF Closing
  <1>5. ASSUME NEW q \in Requests PROVE Knows(q)'
    <2>1. CASE q = r
      BY <1>1, <1>2, <2>1 DEF Knows, SInv, PendingHere, SentBack, Tasks
    <2>2. CASE q # r
      <3>1. Knows(q) /\ StagesIn(current_iteration)' = StagesIn(current_iteration)
            /\ \A S, k : Entry(S, k)' <=> Entry(S, k)
        BY <1>1 DEF SInv, StagesIn, Entry
      <3>2. pc'[q] = pc[q] /\ request'[q] = request[q] /\ Tasks' = Tasks
        BY <1>1, <2>2 DEF Tasks
      <3> QED BY <1>1, <1>3, <3>1, <3>2 DEF Knows
    <2> QED BY <2>1, <2>2
  <1>6. status = "RUNNING" /\ PendingIn(current_iteration) = {} =>
          \E q \in Requests : pc'[q] \in {"reread", "pass", "close", "complete"}
    BY <1>1 DEF SInv, Continued
  <1> QED BY <1>1, <1>3, <1>4, <1>5, <1>6, SameRows

(* A request that does not race leaves every other one idle.               *)
LEMMA OthersIdle ==
  ASSUME LInv, NEW r \in Requests, pc[r] # "idle", request[r].kind # "approve",
         NEW step, Moves(r, step)
  PROVE  \A q \in Requests : q # r => pc'[q] = "idle" /\ pc[q] = "idle"
  BY DEF Moves, LInv, Alone

LEMMA SubmitStage ==
  ASSUME SInv, LInv', NEW r \in Requests, submit(r)
  PROVE  SInv'
  <1> DEFINE next == current_iteration'
  <1>1. TypeOK /\ TypeOK' /\ Moves(r, "idle") /\ flow' = flow
    BY AtMoves DEF submit, SInv, LInv
  <1>2. status = "DRAFT" /\ request[r].iteration = current_iteration /\ request[r].kind = "submit"
    BY DEF submit, SInv, LInv, ReadIsSo
  <1>3. \A q \in Requests : pc'[q] = "idle"
    BY <1>1, <1>2, OthersIdle DEF SInv, submit, Moves
  <1>4. \A q \in Requests : request'[q].kind = "approve" => request'[q].resume = {}
    <2>1. request'[r] = NoRequest
      BY DEF submit, At, SInv, LInv, TypeOK
    <2> QED BY <1>1, <2>1 DEF NoRequest, Moves, SInv, Knows
  <1>5. \A q \in Requests : Knows(q)'
    BY <1>3, <1>4 DEF Knows, SentBack
  <1>6. /\ next \in Iterations /\ next >= current_iteration
        /\ current_iteration \in Iterations
        /\ StagesIn(next) = {}
    <2>1. /\ current_iteration \in Iterations /\ next \in Iterations
          /\ next = IF StagesIn(current_iteration) # {} THEN current_iteration + 1
                    ELSE current_iteration
      BY <1>1, <1>2 DEF submit, TypeOK
    <2>2. CASE StagesIn(current_iteration) = {}
      BY <2>1, <2>2
    <2>3. CASE StagesIn(current_iteration) # {}
      <3>1. \A a \in Approvals : tasks[<<next, a>>] = "NONE"
        BY <1>1, <2>1, <2>3, FlowIs DEF SInv, NoneLater
      <3> QED BY <1>1, <2>1, <2>3, <3>1, NoStage DEF SInv
    <2> QED BY <2>1, <2>2, <2>3
  <1>7. \A t \in Tasks : tasks[t] # "PENDING"
    BY <1>2 DEF SInv, PendingHere
  <1>8. \A t \in Tasks : t[1] \in Nat /\ (t[1] > next => tasks[t] = "NONE")
    BY <1>1, <1>6, FlowIs DEF SInv, NoneLater
  <1>9. CASE flow = << >>
    <2>1. status' = "COMPLETED" /\ tasks' = tasks
      BY <1>9 DEF submit
    <2>2. NoneLater' /\ PendingHere' /\ Placed'
      BY <1>1, <1>7, <1>8, <2>1 DEF NoneLater, PendingHere, Placed, SInv, Tasks
    <2>3. Staged' /\ Ended' /\ Continued'
      BY <1>1, <1>9, <2>1 DEF Staged, Ended, Continued, AllApproved
    <2>4. Shaped'
      BY <1>1, <1>9, FlowIs DEF Shaped, StagesIn
    <2> QED BY <1>5, <2>2, <2>3, <2>4 DEF SInv
  <1>10. CASE flow # << >>
    <2>1. status' = "RUNNING" /\ tasks' = Created(next, flow[1]) /\ 1 \in DOMAIN flow
      BY <1>1, <1>2, <1>6, <1>10, FlowIs DEF submit, Change
    <2>2. \A t \in Tasks : tasks'[t] = IF t[1] = next /\ t[2] \in flow[1] THEN "PENDING" ELSE tasks[t]
      <3>1. \A t \in Tasks : t[1] = next => tasks[t] = "NONE"
        BY <1>1, <1>6, NoStage, FlowIs DEF SInv
      <3> QED BY <2>1, <3>1 DEF Created
    <2>3. NoneLater'
      BY <1>8, <2>2 DEF NoneLater, Tasks
    <2>4. PendingHere' /\ Placed'
      BY <1>1, <1>7, <2>1, <2>2 DEF PendingHere, Placed, SInv, Tasks
    <2>5. \A a \in Approvals : tasks'[<<next, a>>] = IF a \in flow[1] THEN "PENDING" ELSE "NONE"
      BY <1>1, <1>6, <2>2, NoStage, FlowIs DEF SInv
    <2>6. StagesIn(current_iteration)' = {1}
      <3>1. \A k \in DOMAIN flow : (\E a \in flow[k] : tasks'[<<next, a>>] # "NONE") <=> k = 1
        <4>1. \A k \in DOMAIN flow : flow[k] # {} /\ flow[k] \subseteq Approvals
          BY <1>1, FlowIs
        <4>2. \A k \in DOMAIN flow : \A a \in flow[k] : a \in flow[1] <=> k = 1
          BY <1>1, <2>1, FlowIs
        <4> HIDE DEF next
        <4>3. ASSUME NEW k \in DOMAIN flow, NEW a \in flow[k]
              PROVE  tasks'[<<next, a>>] # "NONE" <=> k = 1
          <5>1. a \in Approvals /\ (a \in flow[1] <=> k = 1)
            BY <4>1, <4>2
          <5> QED BY <2>5, <5>1
        <4> QED BY <4>1, <4>3
      <3>2. flow' = flow
        BY <1>1
      <3>3. StagesIn(current_iteration)' =
              {k \in DOMAIN flow : \E a \in flow[k] : tasks'[<<next, a>>] # "NONE"}
        BY <3>2 DEF StagesIn
      <3>4. 1 \in DOMAIN flow
        BY <2>1
      <3> DEFINE Entered(k) == \E a \in flow[k] : tasks'[<<next, a>>] # "NONE"
      <3>5. \A k \in DOMAIN flow : Entered(k) <=> k = 1
        BY <3>1
      <3> HIDE DEF Entered
      <3>6. {k \in DOMAIN flow : Entered(k)} = {1}
        BY <3>4, <3>5
      <3> QED BY <3>3, <3>6, Zenon DEF Entered
    <2>7. InStage(1)' /\ Shaped'
      <3>1. AskedIn(1)' = flow[1] /\ \A a \in flow[1] : tasks'[<<next, a>>] = "PENDING"
        BY <1>1, <2>1, <2>5, FlowIs DEF AskedIn
      <3> QED BY <1>1, <2>6, <3>1 DEF InStage, Shaped
    <2>8. PendingIn(current_iteration)' # {}
      BY <1>1, <2>1, <2>5, FlowIs DEF PendingIn
    <2>9. Staged' /\ Ended' /\ Continued'
      BY <1>1, <1>3, <2>1, <2>7, <2>8 DEF Staged, Ended, Continued, Closing
    <2> QED BY <1>5, <2>3, <2>4, <2>7, <2>9 DEF SInv
  <1> QED BY <1>9, <1>10

LEMMA WithdrawStage ==
  ASSUME SInv, LInv', NEW r \in Requests, withdrawApplicationInstance(r)
  PROVE  SInv'
  <1>1. TypeOK /\ Moves(r, "idle") /\ UNCHANGED <<flow, current_iteration>>
    BY AtMoves DEF withdrawApplicationInstance, SInv, LInv
  <1>2. request[r].status = status /\ request[r].kind = "withdraw"
    BY DEF withdrawApplicationInstance, SInv, LInv, ReadIsSo
  <1>3. \A q \in Requests : pc'[q] = "idle"
    BY <1>1, <1>2, OthersIdle DEF SInv, withdrawApplicationInstance, Moves
  <1>4. \A q \in Requests : request'[q].kind = "approve" => request'[q].resume = {}
    <2>1. request'[r] = NoRequest
      BY DEF withdrawApplicationInstance, At, SInv, LInv, TypeOK
    <2> QED BY <1>1, <2>1 DEF NoRequest, Moves, SInv, Knows
  <1>5. \A q \in Requests : Knows(q)'
    BY <1>3, <1>4 DEF Knows, SentBack
  <1>6. /\ status' \notin {"RUNNING", "COMPLETED"}
        /\ \A t \in Tasks : tasks'[t] # "PENDING" /\ (tasks[t] = "NONE" => tasks'[t] = "NONE")
    <2>1. CASE status = "RUNNING"
      BY <1>2, <2>1 DEF withdrawApplicationInstance, Change, Cancelled
    <2>2. CASE status = "DRAFT"
      BY <1>2, <2>2 DEF withdrawApplicationInstance, SInv, PendingHere
    <2> QED BY <1>2, <2>1, <2>2 DEF withdrawApplicationInstance
  <1>7. NoneLater' /\ PendingHere' /\ Placed'
    BY <1>1, <1>6 DEF NoneLater, PendingHere, Placed, SInv, Tasks
  <1>8. Staged' /\ Ended' /\ Continued'
    BY <1>3, <1>6 DEF Staged, Ended, Continued, Closing
  <1>9. Shaped'
    <2>1. CASE status' = "DELETED"
      <3>1. \A t \in Tasks : tasks'[t] = "NONE"
        BY <1>2, <2>1 DEF withdrawApplicationInstance, Change, SInv, LInv, TypeOK
      <3>2. StagesIn(current_iteration)' = {}
        BY <1>1, <3>1, FlowIs DEF StagesIn
      <3> QED BY <3>2 DEF Shaped
    <2>2. CASE status' # "DELETED"
      <3>1. tasks' = Cancelled \/ tasks' = tasks
        BY <2>2 DEF withdrawApplicationInstance
      <3>2. \A t \in Tasks : /\ tasks'[t] = "NONE" <=> tasks[t] = "NONE"
                             /\ tasks[t] = "APPROVED" => tasks'[t] = "APPROVED"
        BY <3>1 DEF Cancelled
      <3> QED BY <1>1, <3>2, ShapeKept DEF SInv
    <2> QED BY <2>1, <2>2
  <1> QED BY <1>5, <1>7, <1>8, <1>9 DEF SInv

LEMMA ApproveStage ==
  ASSUME SInv, LInv', NEW r \in Requests, Approve(r)
  PROVE  SInv'
  <1> DEFINE s == request[r].task
  <1>1. /\ TypeOK /\ Moves(r, "pass") /\ UNCHANGED <<flow, status, current_iteration>>
        /\ pc[r] = "read" /\ request[r].kind = "approve" /\ request' = request
        /\ tasks' = [tasks EXCEPT ![s] = "APPROVED"]
    BY AtMoves DEF Approve, At, SInv, LInv
  <1>2. s \in Tasks /\ s[1] = current_iteration /\ tasks[s] \in {"PENDING", "APPROVED"}
    BY <1>1 DEF SInv, Knows
  <1>3. \A t \in Tasks : \/ tasks'[t] = tasks[t]
                         \/ tasks[t] = "PENDING" /\ tasks'[t] = "APPROVED"
    BY <1>1, <1>2 DEF TypeOK
  <1>4. \A k \in DOMAIN flow : InStage(k) => InStage(k)'
    BY <1>1, <1>3, StageKept
  <1>5. \A q \in Requests : ~ SentBack(q)
    BY <1>1 DEF SentBack, SInv, LInv, Alone
  <1>6. NoneLater' /\ PendingHere' /\ Placed'
    <2>1. \A t \in Tasks : tasks'[t] = "NONE" <=> tasks[t] = "NONE"
      BY <1>3
    <2>2. \A t \in Tasks : tasks'[t] = "PENDING" => tasks[t] = "PENDING"
      BY <1>3
    <2> QED BY <1>1, <2>1, <2>2 DEF NoneLater, PendingHere, Placed, SInv, Tasks
  <1>7. Staged'
    BY <1>1, <1>4, <1>5 DEF Staged, SInv
  <1>8. PendingIn(current_iteration)' \subseteq PendingIn(current_iteration)
    BY <1>1, <1>3, FlowIs DEF PendingIn
  <1>9. Ended'
    <2>1. Closing' => Closing
      BY <1>1 DEF Closing, Moves
    <2>2. flow # << >> => Len(flow) \in DOMAIN flow
      BY <1>1, FlowIs
    <2> QED BY <1>1, <1>4, <1>8, <2>1, <2>2 DEF Ended, AllApproved, SInv
  <1>10. Continued'
    BY <1>1 DEF Continued, Moves
  <1>11. ASSUME NEW q \in Requests PROVE Knows(q)'
    <2>1. Knows(q) /\ ~ SentBack(q)' /\ Tasks' = Tasks
      <3>1. ~ SentBack(q)'
        BY <1>1, <1>5 DEF SentBack, Moves
      <3> QED BY <3>1 DEF SInv, Tasks
    <2>2. CASE q = r
      BY <1>1, <2>1, <2>2 DEF Knows, Moves
    <2>3. CASE q # r
      <3>1. \A t \in Tasks : tasks[t] \in {"PENDING", "APPROVED"} => tasks'[t] \in {"PENDING", "APPROVED"}
        BY <1>3
      <3>2. pc'[q] = pc[q] /\ request'[q] = request[q]
        BY <1>1, <2>3 DEF Moves
      <3>3. pc[q] = "read" => request[q].kind = "approve"
        BY <1>1, <2>3 DEF SInv, LInv, Alone
      <3> QED BY <1>1, <2>1, <3>1, <3>2, <3>3 DEF Knows
    <2> QED BY <2>2, <2>3
  <1>12. Shaped'
    BY <1>1, <1>3, ShapeKept DEF SInv
  <1> QED BY <1>6, <1>7, <1>9, <1>10, <1>11, <1>12 DEF SInv

LEMMA RejectStage ==
  ASSUME SInv, LInv', NEW r \in Requests, NEW to, NEW i, NEW S, Reject(r, to, i, S),
         \/ to \in {"REJECTED", "DRAFT"} /\ i = current_iteration
         \/ to = "RUNNING" /\ i = current_iteration + 1 /\ S \in Resumed(current_iteration)
  PROVE  SInv'
  <1> DEFINE s == request[r].task
  <1>1. /\ TypeOK /\ TypeOK' /\ Moves(r, "reread") /\ flow' = flow
        /\ request[r].kind = "reject" /\ pc[r] = "read"
        /\ request'[r].kind = "reject" /\ request'[r].resume = S
        /\ status' = to /\ current_iteration' = i /\ tasks' = [Cancelled EXCEPT ![s] = "REJECTED"]
    BY DEF Reject, Moves, Change, SInv, LInv, TypeOK
  <1>2. s \in Tasks /\ s[1] = current_iteration /\ tasks[s] = "PENDING"
    BY <1>1 DEF SInv, Knows
  <1>3. \A t \in Tasks : /\ tasks'[t] # "PENDING" /\ (tasks'[t] = "NONE" <=> tasks[t] = "NONE")
                         /\ tasks[t] = "APPROVED" => tasks'[t] = "APPROVED"
    BY <1>1, <1>2 DEF Cancelled
  <1>4. \A q \in Requests : q # r => pc'[q] = "idle"
    BY <1>1, OthersIdle DEF SInv
  <1>5. current_iteration \in Nat /\ i \in Nat /\ i >= current_iteration
        /\ \A t \in Tasks : t[1] \in Nat
    <2>1. current_iteration \in Nat
      BY <1>1, FlowIs
    <2>2. \A t \in Tasks : t[1] \in Nat
      BY <1>1, FlowIs
    <2> QED BY <2>1, <2>2
  <1>6. NoneLater' /\ PendingHere' /\ Placed'
    BY <1>1, <1>3, <1>5 DEF NoneLater, PendingHere, Placed, SInv, Tasks
  <1>7. to = "RUNNING" => StagesIn(current_iteration)' = {}
    <2> SUFFICES ASSUME to = "RUNNING", NEW j \in DOMAIN flow, NEW a \in flow[j]
                 PROVE  tasks'[<<i, a>>] = "NONE"
      BY <1>1 DEF StagesIn
    <2>1. i = current_iteration + 1 /\ i \in Iterations
      BY <1>1 DEF TypeOK
    <2>2. <<i, a>> \in Tasks /\ <<i, a>>[1] = i
      BY <1>1, <2>1, FlowIs
    <2> QED BY <1>3, <1>5, <2>1, <2>2 DEF SInv, NoneLater
  <1>8. ASSUME to = "RUNNING" PROVE \E k \in DOMAIN flow : Entry(S, k)'
    <2>1. i = current_iteration + 1 /\ S \in Resumed(current_iteration)
      BY <1>8
    <2>2. CASE \E k \in DOMAIN flow : S = flow[k]
      BY <1>1, <2>2 DEF Entry
    <2>3. CASE \E a \in Approvals : S = {a} /\ tasks[<<current_iteration, a>>] = "APPROVED"
      <3>1. PICK a \in Approvals : S = {a} /\ tasks[<<current_iteration, a>>] = "APPROVED"
        BY <2>3
      <3>2. <<current_iteration, a>> \in Tasks /\ <<current_iteration, a>>[2] = a
        BY <1>1, FlowIs
      <3>3. PICK k \in DOMAIN flow : a \in flow[k]
        BY <3>1, <3>2 DEF SInv, Placed
      <3>4. tasks'[<<i - 1, a>>] = "APPROVED" /\ i > 1
        <4>1. i - 1 = current_iteration /\ current_iteration >= 1
          BY <1>1, <1>5, <2>1, FlowIs
        <4>2. tasks'[<<current_iteration, a>>] = "APPROVED"
          BY <1>3, <3>1, <3>2
        <4> QED BY <1>5, <2>1, <4>1, <4>2
      <3> QED BY <1>1, <3>1, <3>3, <3>4 DEF Entry
    <2> QED BY <2>1, <2>2, <2>3 DEF Resumed
  <1>9. ASSUME NEW q \in Requests PROVE Knows(q)'
    <2>1. CASE q = r
      BY <1>1, <1>7, <1>8, <2>1 DEF Knows, SentBack, Moves
    <2>2. CASE q # r
      BY <1>1, <1>4, <2>2 DEF Knows, SentBack, SInv, Moves
    <2> QED BY <2>1, <2>2
  <1>10. Staged'
    BY <1>1, <1>7 DEF Staged, SentBack, Moves
  <1>11. Ended' /\ Continued'
    BY <1>1, <1>4 DEF Ended, Continued, Closing, Moves
  <1>12. Shaped'
    <2>1. CASE to = "RUNNING"
      BY <1>7, <2>1 DEF Shaped
    <2>2. CASE to # "RUNNING"
      BY <1>1, <1>3, <2>2, ShapeKept DEF SInv
    <2> QED BY <2>1, <2>2
  <1> QED BY <1>6, <1>9, <1>10, <1>11, <1>12 DEF SInv

LEMMA RereadStage ==
  ASSUME SInv, LInv', NEW r \in Requests, Reread(r)
  PROVE  SInv'
  <1> DEFINE step == IF status = "RUNNING" THEN "pass" ELSE "idle"
  <1>1. /\ TypeOK /\ Moves(r, step) /\ UNCHANGED <<flow, status, current_iteration, tasks>>
        /\ pc[r] = "reread"
        /\ request'[r] = IF status = "RUNNING" THEN request[r] ELSE NoRequest
    <2>1. Moves(r, step) /\ pc[r] = "reread" /\ At(r, step) /\ LInv /\ TypeOK
      BY AtMoves DEF Reread, SInv, LInv
    <2>2. step = IF status = "RUNNING" THEN "pass" ELSE "idle"
      OBVIOUS
    <2> HIDE DEF step
    <2>3. request'[r] = IF status = "RUNNING" THEN request[r] ELSE NoRequest
      BY <2>1, <2>2 DEF At, TypeOK
    <2> QED BY <2>1, <2>3 DEF Reread
  <1>2. \A q \in Requests : SentBack(q) <=> SentBack(q)'
    BY <1>1 DEF SentBack, Moves, SInv, Knows
  <1>3. Closing' => Closing
    BY <1>1 DEF Closing, Moves
  <1>4. ASSUME NEW q \in Requests PROVE Knows(q)'
    <2>1. Knows(q) /\ StagesIn(current_iteration)' = StagesIn(current_iteration) /\ Tasks' = Tasks
          /\ \A S, k : Entry(S, k)' <=> Entry(S, k)
      BY <1>1 DEF SInv, StagesIn, Tasks, Entry
    <2>2. CASE q = r
      <3>1. CASE status = "RUNNING"
        BY <1>1, <1>2, <2>1, <2>2, <3>1 DEF Knows, Moves
      <3>2. CASE status # "RUNNING"
        BY <1>1, <2>2, <3>2 DEF Knows, Moves, NoRequest, SentBack
      <3> QED BY <3>1, <3>2
    <2>3. CASE q # r
      BY <1>1, <1>2, <2>1, <2>3 DEF Knows, Moves
    <2> QED BY <2>2, <2>3
  <1>5. status = "RUNNING" => pc'[r] = "pass"
    BY <1>1 DEF Moves
  <1> QED BY <1>1, <1>2, <1>3, <1>4, <1>5, SameRows

LEMMA CloseStage ==
  ASSUME SInv, LInv', NEW r \in Requests, CloseTasks(r) \/ Complete(r) \/ LogCompletion(r)
  PROVE  SInv'
  <1>1. /\ TypeOK /\ UNCHANGED <<flow, current_iteration>> /\ pc[r] \in {"close", "complete", "log"}
        /\ pc[r] \in {"close", "complete"} => Moves(r, IF pc[r] = "close" THEN "complete" ELSE "log")
        /\ pc[r] = "log" => Moves(r, "idle") /\ request'[r] = NoRequest
        /\ status' = IF pc[r] = "complete" THEN "COMPLETED" ELSE status
        /\ tasks' = IF pc[r] = "close" THEN Cancelled ELSE tasks
        /\ pc[r] \in {"close", "complete"} => request'[r].resume = request[r].resume
    <2>1. TypeOK /\ LInv
      BY DEF SInv, LInv
    <2>2. CASE CloseTasks(r)
      BY <2>1, <2>2 DEF CloseTasks, Moves, TypeOK
    <2>3. CASE Complete(r)
      BY <2>1, <2>3 DEF Complete, At, Moves, TypeOK
    <2>4. CASE LogCompletion(r)
      BY <2>1, <2>4 DEF LogCompletion, At, Moves, TypeOK
    <2> QED BY <2>1, <2>2, <2>3, <2>4
  <1>2. AllApproved /\ status \in {"RUNNING", "COMPLETED"} /\ request[r].kind = "approve"
    BY <1>1 DEF SInv, Ended, Closing, LInv, GoesOn, Knows
  <1>3. \A t \in Tasks : tasks[t] # "PENDING"
    <2> SUFFICES ASSUME NEW t \in Tasks, tasks[t] = "PENDING" PROVE FALSE
      OBVIOUS
    <2>1. t[1] = current_iteration /\ t[2] \in Approvals /\ t = <<t[1], t[2]>> /\ flow # << >>
      BY <1>1, FlowIs DEF SInv, PendingHere, Placed
    <2>2. t[2] \in PendingIn(current_iteration)
      BY <2>1 DEF PendingIn
    <2> QED BY <1>2, <2>1, <2>2 DEF AllApproved
  <1>4. tasks' = tasks
    <2>1. Cancelled = [t \in Tasks |-> tasks[t]]
      BY <1>3 DEF Cancelled
    <2> QED BY <1>1, <2>1 DEF TypeOK
  <1>5. \A q \in Requests : q # r /\ pc[q] # "idle" => request[q].kind = "approve"
    BY <1>1 DEF SInv, LInv, Alone
  <1>6. \A q \in Requests : ~ SentBack(q) /\ ~ SentBack(q)'
    BY <1>1, <1>2, <1>5 DEF SentBack, Moves
  <1>7. ASSUME NEW q \in Requests PROVE Knows(q)'
    <2>1. Knows(q) /\ StagesIn(current_iteration)' = StagesIn(current_iteration) /\ Tasks' = Tasks
      BY <1>1, <1>4 DEF SInv, StagesIn, Tasks
    <2>2. CASE q = r
      BY <1>1, <1>2, <1>6, <2>1, <2>2 DEF Knows, Moves, NoRequest
    <2>3. CASE q # r
      <3>1. pc'[q] = pc[q] /\ request'[q] = request[q]
        BY <1>1, <2>3 DEF Moves
      <3> QED BY <1>1, <1>4, <1>5, <1>6, <2>1, <2>3, <3>1 DEF Knows
    <2> QED BY <2>2, <2>3
  <1>8. CASE pc[r] = "complete"
    <2>1. NoneLater' /\ PendingHere' /\ Placed'
      BY <1>1, <1>3, <1>4 DEF NoneLater, PendingHere, Placed, SInv, Tasks
    <2>2. AllApproved'
      <3>1. /\ StagesIn(current_iteration)' = StagesIn(current_iteration)
            /\ PendingIn(current_iteration)' = PendingIn(current_iteration)
        BY <1>1, <1>4 DEF StagesIn, PendingIn
      <3>2. InStage(Len(flow))' <=> InStage(Len(flow))
        BY <1>1, <1>4, <3>1 DEF InStage, AskedIn, Settled
      <3> QED BY <1>1, <1>2, <3>1, <3>2 DEF AllApproved
    <2>3. Staged' /\ Ended' /\ Continued'
      BY <1>1, <1>8, <2>2 DEF Staged, Ended, Continued
    <2>4. Shaped'
      BY <1>1, <1>4, ShapeKept DEF SInv
    <2> QED BY <1>7, <2>1, <2>3, <2>4 DEF SInv
  <1>9. CASE pc[r] # "complete"
    <2>1. UNCHANGED <<flow, status, current_iteration, tasks>>
      BY <1>1, <1>4, <1>9
    <2>2. status = "RUNNING" => pc'[r] = "complete"
      BY <1>1, <1>9 DEF Moves, SInv, LInv, GoesOn
    <2> QED BY <1>2, <1>6, <1>7, <2>1, <2>2, SameRows
  <1> QED BY <1>8, <1>9

LEMMA MaxOf ==
  ASSUME NEW S \in SUBSET Nat, NEW m \in S, \A j \in S : j <= m PROVE Max(S) = m
  <1>1. \E x \in S : \A y \in S : x >= y
    OBVIOUS
  <1>2. Max(S) \in S /\ \A y \in S : Max(S) >= y
    BY <1>1 DEF Max
  <1>3. PICK x \in S : x = Max(S)
    BY <1>2
  <1> QED BY <1>2, <1>3

(* Entering a stage that has no rows yet: where a new iteration begins, or *)
(* the one after those that are approved.                                  *)
LEMMA EnterStage ==
  ASSUME SInv, LInv', NEW r \in Requests, Moves(r, "idle"), request'[r] = NoRequest,
         UNCHANGED <<flow, status, current_iteration>>, status = "RUNNING",
         NEW k \in DOMAIN flow, NEW S, Entry(S, k), tasks' = Created(current_iteration, S),
         \A j \in StagesIn(current_iteration) : j < k /\ Settled(j),
         StagesIn(current_iteration) = {} \/ (S = flow[k] /\ k - 1 \in StagesIn(current_iteration)),
         \A q \in Requests : q # r => ~ SentBack(q),
         ~ Closing
  PROVE  SInv'
  <1> DEFINE i == current_iteration
  <1>1. TypeOK /\ TypeOK' /\ k \notin StagesIn(i) /\ i \in Iterations /\ i \in Nat
        /\ S # {} /\ S \subseteq flow[k] /\ StagesIn(i) \subseteq DOMAIN flow
    <2>1. TypeOK /\ TypeOK'
      BY DEF SInv, LInv
    <2>2. ~ (k < k) /\ flow[k] # {} /\ i \in Iterations /\ i \in Nat
      BY <2>1, FlowIs
    <2> QED BY <2>1, <2>2 DEF Entry, StagesIn
  <1>2. ASSUME NEW a \in S PROVE tasks'[<<i, a>>] = "PENDING"
    <2>1. <<i, a>> \in Tasks /\ tasks[<<i, a>>] = "NONE"
      BY <1>1, FlowIs DEF StagesIn
    <2> QED BY <2>1 DEF Created
  <1>3. ASSUME NEW j \in DOMAIN flow, NEW a \in flow[j], a \notin S
        PROVE  tasks'[<<i, a>>] = tasks[<<i, a>>]
    <2>1. <<i, a>> \in Tasks
      BY <1>1, FlowIs
    <2> QED BY <1>3, <2>1 DEF Created
  <1>4. \A t \in Tasks :
          \/ tasks'[t] = tasks[t]
          \/ /\ tasks[t] = "NONE" /\ tasks'[t] = "PENDING" /\ t[1] = i /\ t[2] \in flow[k]
    BY <1>1 DEF Created
  <1>5. AskedIn(k)' = S /\ \A j \in DOMAIN flow \ {k} : AskedIn(j)' = AskedIn(j)
    <2>1. \A a \in flow[k] : tasks'[<<i, a>>] # "NONE" <=> a \in S
      BY <1>1, <1>2, <1>3 DEF StagesIn
    <2>2. ASSUME NEW j \in DOMAIN flow \ {k}, NEW a \in flow[j]
          PROVE  tasks'[<<i, a>>] = tasks[<<i, a>>]
      <3>1. a \notin S
        BY <1>1, FlowIs
      <3> QED BY <1>3, <3>1
    <2>3. AskedIn(k)' = {a \in flow[k] : tasks'[<<i, a>>] # "NONE"}
          /\ \A j \in DOMAIN flow \ {k} : AskedIn(j)' = {a \in flow[j] : tasks'[<<i, a>>] # "NONE"}
      BY DEF AskedIn
    <2>4. AskedIn(k)' = S
      BY <1>1, <2>1, <2>3
    <2>5. \A j \in DOMAIN flow \ {k} : AskedIn(j)' = AskedIn(j)
      BY <2>2, <2>3 DEF AskedIn
    <2> QED BY <2>4, <2>5
  <1>6. StagesIn(i)' = StagesIn(i) \cup {k}
    <2>1. StagesIn(i) = {j \in DOMAIN flow : AskedIn(j) # {}}
      BY DEF StagesIn, AskedIn
    <2>2. StagesIn(i)' = {j \in DOMAIN flow : AskedIn(j)' # {}}
      <3>1. \A j \in DOMAIN flow : AskedIn(j)' # {} <=> \E a \in flow[j] : tasks'[<<i, a>>] # "NONE"
        BY DEF AskedIn
      <3>2. StagesIn(i)' = {j \in DOMAIN flow : \E a \in flow[j] : tasks'[<<i, a>>] # "NONE"}
        BY DEF StagesIn
      <3> HIDE DEF AskedIn
      <3> QED BY <3>1, <3>2
    <2> QED BY <1>1, <1>5, <2>1, <2>2
  <1>7. \A j \in StagesIn(i) : AskedIn(j)' = AskedIn(j) /\ Settled(j)' /\ j < k
    <2> SUFFICES ASSUME NEW j \in StagesIn(i) PROVE AskedIn(j)' = AskedIn(j) /\ Settled(j)' /\ j < k
      OBVIOUS
    <2>1. j \in DOMAIN flow \ {k} /\ Settled(j) /\ j < k
      BY <1>1
    <2>2. AskedIn(j)' = AskedIn(j)
      BY <1>5, <2>1
    <2>3. \A a \in AskedIn(j) : tasks[<<i, a>>] = "APPROVED" /\ <<i, a>> \in Tasks
      BY <1>1, <2>1, FlowIs DEF Settled, AskedIn
    <2>4. \A a \in AskedIn(j) : tasks'[<<i, a>>] = "APPROVED"
      BY <1>4, <2>3
    <2> QED BY <2>1, <2>2, <2>4 DEF Settled
  <1>8. InStage(k)'
    <2>1. \A a \in AskedIn(k)' : tasks'[<<i, a>>] = "PENDING"
      BY <1>2, <1>5
    <2>2. k <= k /\ \A j \in StagesIn(i) : j <= k
      BY <1>1, <1>7, FlowIs
    <2> QED BY <1>6, <1>7, <2>1, <2>2 DEF InStage
  <1>9. Shaped'
    <2>1. i > 1 => \A a \in Approvals : tasks'[<<i - 1, a>>] = tasks[<<i - 1, a>>]
      <3>1. ASSUME i > 1, NEW a \in Approvals PROVE tasks'[<<i - 1, a>>] = tasks[<<i - 1, a>>]
        <4>1. i - 1 \in Iterations /\ i - 1 # i
          BY <1>1, <3>1
        <4>2. <<i - 1, a>> \in Tasks /\ <<i - 1, a>>[1] = i - 1
          BY <1>1, <4>1, FlowIs
        <4> QED BY <1>4, <4>1, <4>2
      <3> QED BY <3>1
    <2>2. \A j \in DOMAIN flow : flow[j] \subseteq Approvals
      BY <1>1, FlowIs
    <2>3. ASSUME NEW j \in StagesIn(i) PROVE AskedIn(j)' = flow'[j] \/ BegunAt(j)'
      <3>1. AskedIn(j)' = AskedIn(j) /\ j < k /\ j \in DOMAIN flow
        BY <1>1, <1>7
      <3>2. CASE AskedIn(j) = flow[j]
        BY <3>1, <3>2
      <3>3. CASE BegunAt(j)
        <4>1. j <= k
          BY <1>1, <3>1, FlowIs
        <4> QED BY <1>6, <2>1, <2>2, <3>1, <3>3, <4>1 DEF BegunAt
      <3> QED BY <3>2, <3>3 DEF SInv, Shaped
    <2>4. AskedIn(k)' = flow'[k] \/ BegunAt(k)'
      <3>1. CASE S = flow[k]
        BY <1>5, <3>1
      <3>2. CASE S # flow[k]
        <4>1. StagesIn(i)' = {k} /\ k <= k
          BY <1>1, <1>6, <3>2, FlowIs
        <4>2. i > 1 /\ \E a \in flow[k] : S = {a} /\ tasks[<<i - 1, a>>] = "APPROVED"
          BY <3>2 DEF Entry
        <4> QED BY <1>5, <2>1, <2>2, <4>1, <4>2 DEF BegunAt
      <3> QED BY <3>1, <3>2
    <2>5. ASSUME NEW j \in StagesIn(i) \cup {k}, NEW l \in StagesIn(i) \cup {k}
          PROVE  j .. l \subseteq StagesIn(i) \cup {k}
      <3>1. j \in Nat /\ l \in Nat /\ k \in Nat /\ (j \in StagesIn(i) => j < k)
            /\ (l \in StagesIn(i) => l < k)
        BY <1>1, <1>7, FlowIs
      <3>2. CASE j \in StagesIn(i) /\ l \in StagesIn(i)
        BY <3>2 DEF SInv, Shaped
      <3>3. CASE j = k
        BY <3>1, <3>3
      <3>4. CASE j \in StagesIn(i) /\ l = k
        <4>1. k - 1 \in StagesIn(i)
          BY <3>4
        <4>2. j .. (k - 1) \subseteq StagesIn(i)
          BY <3>4, <4>1 DEF SInv, Shaped
        <4>3. j .. k \subseteq (j .. (k - 1)) \cup {k}
          BY <3>1
        <4> QED BY <3>4, <4>2, <4>3
      <3> QED BY <3>2, <3>3, <3>4
    <2> QED BY <1>6, <2>3, <2>4, <2>5 DEF Shaped
  <1>10. NoneLater' /\ PendingHere' /\ Placed'
    BY <1>1, <1>4 DEF NoneLater, PendingHere, Placed, SInv, Tasks
  <1>11. PendingIn(current_iteration)' # {}
    <2>1. PICK a \in S : a \in Approvals
      BY <1>1, FlowIs
    <2>2. tasks'[<<current_iteration', a>>] = "PENDING"
      BY <1>2
    <2> QED BY <2>1, <2>2 DEF PendingIn
  <1>12. ~ Closing'
    BY DEF Closing, Moves
  <1>13. ASSUME NEW q \in Requests PROVE Knows(q)'
    <2>1. CASE q = r
      BY <2>1 DEF Knows, Moves, NoRequest, SentBack
    <2>2. CASE q # r
      <3>1. pc'[q] = pc[q] /\ request'[q] = request[q] /\ Tasks' = Tasks /\ Knows(q)
        BY <2>2 DEF Moves, Tasks, SInv
      <3>2. ~ SentBack(q) /\ ~ SentBack(q)'
        BY <2>2, <3>1 DEF SentBack
      <3>3. \A t \in Tasks : tasks[t] \in {"PENDING", "APPROVED"} => tasks'[t] = tasks[t]
        BY <1>4
      <3> QED BY <3>1, <3>2, <3>3 DEF Knows
    <2> QED BY <2>1, <2>2
  <1>14. Staged' /\ Ended' /\ Continued'
    BY <1>8, <1>11, <1>12 DEF Staged, Ended, Continued
  <1> QED BY <1>9, <1>10, <1>13, <1>14 DEF SInv

LEMMA ExecuteStage ==
  ASSUME SInv, LInv', NEW r \in Requests, executeWorkflow(r)
  PROVE  SInv'
  <1> DEFINE i == current_iteration
             S == request[r].resume
  <1>1. /\ TypeOK /\ LInv /\ UNCHANGED <<flow, status, current_iteration>> /\ pc[r] = "pass"
        /\ request[r].kind \in {"approve", "reject"} /\ status \in {"RUNNING", "COMPLETED"}
        /\ \A q \in Requests : Knows(q)
    BY DEF executeWorkflow, SInv, LInv, GoesOn
  <1>2. \A q \in Requests : q # r => ~ SentBack(q)
    BY <1>1 DEF SentBack, LInv, Alone
  <1>3. ASSUME At(r, "idle") PROVE Moves(r, "idle") /\ request'[r] = NoRequest
    BY <1>1, <1>3, AtMoves DEF At, TypeOK
  <1>4. CASE request[r].kind = "reject"
    <2>1. SentBack(r) /\ StagesIn(i) = {}
      BY <1>1, <1>4 DEF SentBack, Knows
    <2>2. PICK k \in DOMAIN flow : Entry(S, k)
      BY <1>1, <2>1 DEF Knows
    <2>3. S # {}
      BY <1>1, <2>2, FlowIs DEF Entry
    <2>4. At(r, "idle") /\ tasks' = Created(i, S)
      BY <2>3 DEF executeWorkflow
    <2>5. ~ Closing
      BY <1>1, <1>4 DEF Closing, LInv, Alone, Knows
    <2>6. status = "RUNNING" /\ Moves(r, "idle") /\ request'[r] = NoRequest
      BY <1>3, <2>1, <2>4 DEF SentBack
    <2> QED BY <1>1, <1>2, <2>1, <2>2, <2>4, <2>5, <2>6, EnterStage
  <1>5. ASSUME At(r, "idle"), UNCHANGED tasks, PendingIn(i) # {}, request[r].kind = "approve" PROVE SInv'
    <2>1. Moves(r, "idle") /\ request'[r] = NoRequest
      BY <1>3, <1>5
    <2>2. \A q \in Requests : SentBack(q) <=> SentBack(q)'
      BY <1>1, <1>5, <2>1 DEF SentBack, Moves
    <2>3. Closing' => Closing
      BY <2>1 DEF Closing, Moves
    <2>4. ASSUME NEW q \in Requests PROVE Knows(q)'
      <3>1. CASE q = r
        BY <2>1, <3>1 DEF Knows, Moves, NoRequest, SentBack
      <3>2. CASE q # r
        <4>1. pc'[q] = pc[q] /\ request'[q] = request[q] /\ Tasks' = Tasks /\ Knows(q)
              /\ StagesIn(i)' = StagesIn(i) /\ \A X, k : Entry(X, k)' <=> Entry(X, k)
          BY <1>1, <1>5, <2>1, <3>2 DEF Moves, Tasks, StagesIn, Entry
        <4> QED BY <1>1, <1>5, <2>2, <4>1 DEF Knows
      <3> QED BY <3>1, <3>2
    <2> QED BY <1>1, <1>5, <2>2, <2>3, <2>4, SameRows
  <1>6. ASSUME At(r, "close"), UNCHANGED tasks, AllApproved, request[r].kind = "approve" PROVE SInv'
    <2>1. Moves(r, "close") /\ request' = request
      BY <1>1, <1>6, AtMoves DEF At
    <2>2. \A q \in Requests : SentBack(q) <=> SentBack(q)'
      BY <1>1, <1>6, <2>1 DEF SentBack, Moves
    <2>3. ASSUME NEW q \in Requests PROVE Knows(q)'
      <3>1. Tasks' = Tasks /\ Knows(q) /\ StagesIn(i)' = StagesIn(i) /\ request'[q] = request[q]
            /\ \A X, k : Entry(X, k)' <=> Entry(X, k)
        BY <1>1, <1>6, <2>1 DEF Tasks, StagesIn, Entry
      <3>2. pc'[q] = pc[q] \/ (q = r /\ pc'[r] = "close")
        BY <2>1 DEF Moves
      <3> QED BY <1>1, <1>6, <2>2, <3>1, <3>2 DEF Knows
    <2>4. pc'[r] = "close"
      BY <2>1 DEF Moves
    <2> QED BY <1>1, <1>6, <2>2, <2>3, <2>4, SameRows
  <1>7. CASE request[r].kind = "approve"
    <2>1. S = {} /\ ~ SentBack(r)
      BY <1>1, <1>7 DEF Knows, SentBack
    <2>2. CASE PendingIn(i) # {}
      BY <1>5, <1>7, <2>1, <2>2 DEF executeWorkflow
    <2>3. CASE PendingIn(i) = {} /\ flow = << >>
      <3>1. Following(i) = {}
        BY <1>1, <2>3, FlowIs DEF Following
      <3> QED BY <1>6, <1>7, <2>1, <2>3, <3>1 DEF executeWorkflow, AllApproved
    <2>4. CASE PendingIn(i) = {} /\ flow # << >>
      <3>1. Len(flow) \in DOMAIN flow /\ 1 \in DOMAIN flow
        BY <1>1, <2>4, FlowIs
      <3>2. PICK m \in DOMAIN flow : InStage(m)
        BY <1>1, <1>2, <2>1, <2>4, <3>1 DEF SInv, Staged, Ended, AllApproved
      <3>3. m \in Nat /\ m >= 1 /\ m <= Len(flow) /\ Len(flow) \in Nat /\ DOMAIN flow = 1 .. Len(flow)
        BY <1>1, FlowIs
      <3>4. m \in StagesIn(i) /\ \A j \in StagesIn(i) : j <= m /\ j \in DOMAIN flow /\ Settled(j)
        <4>1. m \in StagesIn(i) /\ \A j \in StagesIn(i) : j <= m
          BY <3>2 DEF InStage
        <4>2. \A j \in StagesIn(i) : Settled(j)
          BY <1>1, <2>4, <3>2, NonePending
        <4> QED BY <4>1, <4>2 DEF StagesIn
      <3>5. Max(StagesIn(i) \cup {0}) = m
        <4>1. StagesIn(i) \cup {0} \in SUBSET Nat
          BY <3>3, <3>4
        <4>2. m \in StagesIn(i) \cup {0} /\ \A j \in StagesIn(i) \cup {0} : j <= m
          BY <3>3, <3>4
        <4> HIDE DEF i
        <4> QED BY <4>1, <4>2, MaxOf
      <3>6. CASE m = Len(flow)
        <4>1. Following(i) = {}
          BY <3>3, <3>5, <3>6 DEF Following
        <4>2. AllApproved
          BY <2>4, <3>2, <3>6 DEF AllApproved
        <4> QED BY <1>6, <1>7, <2>1, <2>4, <4>1, <4>2 DEF executeWorkflow
      <3>7. CASE m # Len(flow)
        <4>1. m + 1 \in DOMAIN flow /\ \A j \in StagesIn(i) : j < m + 1
          BY <3>3, <3>4, <3>7
        <4>2. Following(i) = flow[m + 1] /\ flow[m + 1] # {}
          BY <1>1, <3>5, <4>1, FlowIs DEF Following
        <4>3. At(r, "idle") /\ tasks' = Created(i, flow[m + 1])
          BY <2>1, <2>4, <4>2 DEF executeWorkflow
        <4>4. ~ AllApproved
          BY <1>1, <2>4, <3>1, <3>2, <3>7, OneStage DEF AllApproved
        <4>5. status = "RUNNING" /\ ~ Closing
          BY <1>1, <4>4 DEF SInv, Ended
        <4>6. Entry(flow[m + 1], m + 1)
          BY DEF Entry
        <4>7. (m + 1) - 1 \in StagesIn(i)
          BY <3>3, <3>4
        <4> QED BY <1>1, <1>2, <1>3, <3>4, <4>1, <4>3, <4>5, <4>6, <4>7, EnterStage
      <3> QED BY <3>6, <3>7
    <2> QED BY <2>2, <2>3, <2>4
  <1> QED BY <1>1, <1>4, <1>7

LEMMA InitSInv == Init => SInv
  <1> SUFFICES ASSUME Init PROVE SInv
    OBVIOUS
  <1>1. LInv /\ TypeOK
    BY InitLInv DEF LInv
  <1>2. /\ status = "DRAFT" /\ (\A t \in Tasks : tasks[t] = "NONE")
        /\ (\A r \in Requests : pc[r] = "idle" /\ request[r] = NoRequest)
    BY DEF Init
  <1>3. NoneLater /\ PendingHere /\ Placed /\ Staged /\ Ended /\ Continued
    BY <1>2 DEF NoneLater, PendingHere, Placed, Staged, Ended, Closing, Continued
  <1>5. Shaped
    <2>1. StagesIn(current_iteration) = {}
      BY <1>1, <1>2, FlowIs DEF StagesIn
    <2> QED BY <2>1 DEF Shaped
  <1>4. \A r \in Requests : Knows(r)
    BY <1>2 DEF Knows, SentBack, NoRequest
  <1> QED BY <1>1, <1>3, <1>4, <1>5 DEF SInv

LEMMA NextSInv ==
  ASSUME OnlyApprovalsRace, SInv, [Next]_vars
  PROVE  SInv'
  <1>1. LInv' /\ LInv
    BY NextLInv DEF SInv
  <1>2. ASSUME NEW r \in Requests, Arrive(r) PROVE SInv'
    <2>1. PICK kind \in Kinds, t \in Tasks \cup {NoRequest.task} :
            /\ Begin(r, kind, t)
            /\ kind \in {"approve", "reject"} => t \in Tasks /\ tasks[t] = "PENDING"
      BY <1>2 DEF Arrive, ReadSubmit, ReadWithdraw, validateApprovalRequest
    <2> QED BY <1>1, <2>1, ArriveStage
  <1>3. ASSUME NEW r \in Requests, handleCloseApplication(r) \/ handleReturnToApplicant(r) PROVE SInv'
    BY <1>1, <1>3, RejectStage DEF handleCloseApplication, handleReturnToApplicant
  <1>4. ASSUME NEW r \in Requests, handleSendToSpecificNode(r) PROVE SInv'
    <2>1. PICK S \in Resumed(request[r].iteration) : Reject(r, "RUNNING", request[r].iteration + 1, S)
      BY <1>4 DEF handleSendToSpecificNode
    <2>2. request[r].iteration = current_iteration
      BY <1>1, <2>1 DEF Reject, LInv, ReadIsSo
    <2> QED BY <1>1, <2>1, <2>2, RejectStage
  <1>5. ASSUME NEW r \in Requests, Handle(r) PROVE SInv'
    BY <1>1, <1>3, <1>4, <1>5, SubmitStage, WithdrawStage, ApproveStage, RereadStage,
       ExecuteStage, CloseStage DEF Handle
  <1>6. CASE UNCHANGED vars
    <2>1. \A r \in Requests : Knows(r)' /\ SentBack(r)' = SentBack(r)
      <3>1. UNCHANGED <<flow, status, current_iteration, tasks, pc, request>>
        BY <1>6 DEF vars
      <3>2. /\ \A S, k : Entry(S, k)' <=> Entry(S, k)
            /\ StagesIn(current_iteration)' = StagesIn(current_iteration) /\ Tasks' = Tasks
            /\ \A r \in Requests : SentBack(r)' = SentBack(r)
        BY <3>1 DEF Entry, StagesIn, Tasks, SentBack
      <3> QED BY <3>1, <3>2 DEF SInv, Knows
    <2>2. Closing' => Closing
      BY <1>6 DEF vars, Closing
    <2>3. UNCHANGED <<flow, status, current_iteration, tasks>> /\ pc' = pc
      BY <1>6 DEF vars
    <2>4. status = "RUNNING" /\ PendingIn(current_iteration) = {} =>
            \E r \in Requests : pc'[r] \in {"reread", "pass", "close", "complete"}
      BY <2>3 DEF SInv, Continued
    <2> QED BY <1>1, <2>1, <2>2, <2>3, <2>4, SameRows
  <1> QED BY <1>2, <1>5, <1>6 DEF Next

(* Approvals that are handled at the same time do not leave it to each     *)
(* other to go on: between requests a running application asks somebody.   *)
THEOREM RunningAsks ==
  ASSUME OnlyApprovalsRace PROVE Spec => []SomeoneCanAct
  <1>1. SInv => SomeoneCanAct
    BY DEF SInv, Continued, SomeoneCanAct, AllIdle
  <1>2. SInv /\ [Next]_vars => SInv'
    BY NextSInv
  <1> QED BY <1>1, <1>2, InitSInv, PTL DEF Spec

(* And one that does not run asks nobody.                                  *)
THEOREM OnlyRunningAsks ==
  ASSUME OnlyApprovalsRace PROVE Spec => []NobodyAsked
  <1>1. SInv => NobodyAsked
    BY DEF SInv, PendingHere, NobodyAsked
  <1>2. SInv /\ [Next]_vars => SInv'
    BY NextSInv
  <1> QED BY <1>1, <1>2, InitSInv, PTL DEF Spec

(* An iteration goes through the stages one by one and leaves one when all *)
(* that it asked there have approved; it asks all of each, but for one to  *)
(* a single approval of which it was sent back.                            *)
THEOREM StagesAreInOrder ==
  ASSUME OnlyApprovalsRace PROVE Spec => []StagesInOrder
  <1>1. SInv => StagesInOrder
    <2> SUFFICES ASSUME SInv PROVE StagesInOrder
      OBVIOUS
    <2>1. TypeOK /\ StagesIn(current_iteration) \subseteq DOMAIN flow
      BY DEF SInv, LInv, StagesIn
    <2>2. ASSUME status = "COMPLETED", flow # << >>
          PROVE  /\ InStage(Len(flow)) /\ Len(flow) \in DOMAIN flow
                 /\ \A j \in StagesIn(current_iteration) : Settled(j)
      <3>1. InStage(Len(flow)) /\ PendingIn(current_iteration) = {} /\ Len(flow) \in DOMAIN flow
        BY <2>1, <2>2, FlowIs DEF SInv, Ended, AllApproved
      <3> QED BY <2>1, <3>1, NonePending
    <2>3. ASSUME status \in {"RUNNING", "COMPLETED"},
                 NEW j \in StagesIn(current_iteration), NEW k \in StagesIn(current_iteration), j < k
          PROVE  Settled(j)
      <3>1. CASE status = "RUNNING"
        <4>1. PICK m \in DOMAIN flow : InStage(m)
          BY <2>3, <3>1 DEF SInv, Staged
        <4>2. j \in Nat /\ k \in Nat /\ m \in Nat /\ k <= m
          BY <2>1, <4>1, FlowIs DEF InStage
        <4>3. j # m
          BY <2>3, <4>2
        <4> QED BY <4>1, <4>3 DEF InStage
      <3>2. CASE status = "COMPLETED"
        BY <2>1, <2>2, <3>2, FlowIs
      <3> QED BY <2>3, <3>1, <3>2
    <2>4. status = "COMPLETED" /\ flow # << >> =>
            Len(flow) \in StagesIn(current_iteration) /\ Settled(Len(flow))
      BY <2>2 DEF InStage
    <2> QED BY <2>3, <2>4 DEF StagesInOrder, SInv, Shaped
  <1>2. SInv /\ [Next]_vars => SInv'
    BY NextSInv
  <1> QED BY <1>1, <1>2, InitSInv, PTL DEF Spec

================================================================================
