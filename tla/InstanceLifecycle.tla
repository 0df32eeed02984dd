--------------------------- MODULE InstanceLifecycle ---------------------------
(***************************************************************************)
(* The instance of an application and the requests that are handled for it *)
(* at the same time: submit, approve, reject, withdraw.  A request reads   *)
(* the instance, writes in one transaction what follows from what it read, *)
(* and an approval or a send-back then continues the workflow without one. *)
(* A flow is a sequence of stages here, each a set of approvals that may   *)
(* be given in any order, behind a condition that leads to all of them (or *)
(* START); a pass over it is one step, see FlowExecutor for its inside,    *)
(* and ApprovalNode for the inside of an approval.                         *)
(***************************************************************************)
EXTENDS Naturals, SequencesExt

CONSTANTS
  Requests,     \* the requests that may be under way at the same time
  Racing,       \* bound of the model: the kinds of requests that may overtake
                \* each other; one that begins an iteration is alone
  Flows,        \* the flows to examine: sequences of sets of approvals
  Approvals,    \* their approvals
  MaxIteration  \* bound of the model on current_iteration

Kinds == {"submit", "withdraw", "approve", "reject"}

ASSUME LifecycleAssumption ==
  /\ Racing \subseteq {"approve", "withdraw"}
  /\ \A f \in Flows :
       /\ f \in Seq(SUBSET Approvals)
       /\ \A k \in DOMAIN f : f[k] # {} /\ \A j \in DOMAIN f \ {k} : f[j] \cap f[k] = {}
  /\ MaxIteration \in Nat \ {0}

VARIABLES
  flow,              \* the stages
  status,            \* status of the instance, or DELETED
  current_iteration,
  tasks,             \* status of the task of each iteration and approval
  events,            \* its workflow_events: status before and after
  pc,                \* how far each request is
  request            \* its kind and what it read

vars == <<flow, status, current_iteration, tasks, events, pc, request>>

Iterations == 1 .. MaxIteration
Tasks      == Iterations \X Approvals
Statuses   == {"DRAFT", "RUNNING", "COMPLETED", "REJECTED", "CANCELLED", "DELETED"}
TaskStates == {"NONE", "PENDING", "APPROVED", "REJECTED", "CANCELLED"}
Steps      == {"idle", "read", "reread", "pass", "close", "complete", "log"}

Request(kind, t) ==
  [kind |-> kind, task |-> t, status |-> status, iteration |-> current_iteration, resume |-> {}]

NoRequest ==
  [kind |-> "submit", task |-> <<0, "none">>, status |-> "DRAFT", iteration |-> 1, resume |-> {}]

TypeOK ==
  /\ flow \in Flows
  /\ status \in Statuses
  /\ current_iteration \in Iterations
  /\ tasks \in [Tasks -> TaskStates]
  /\ events \in Seq([before : Statuses \cup {"NONE"}, after : Statuses])
  /\ pc \in [Requests -> Steps]
  /\ request \in [Requests -> [kind : Kinds, task : Tasks \cup {NoRequest.task},
                               status : Statuses, iteration : Iterations, resume : SUBSET Approvals]]

PendingIn(i) == {a \in Approvals : tasks[<<i, a>>] = "PENDING"}
StagesIn(i)  == {k \in DOMAIN flow : \E a \in flow[k] : tasks[<<i, a>>] # "NONE"}

Event(before, after) == [before |-> before, after |-> after]

Init ==
  /\ flow \in Flows
  /\ status = "DRAFT"
  /\ current_iteration = 1
  /\ tasks = [t \in Tasks |-> "NONE"]
  /\ events = <<Event("NONE", "DRAFT")>>
  /\ pc = [r \in Requests |-> "idle"]
  /\ request = [r \in Requests |-> NoRequest]

--------------------------------------------------------------------------------
(* A request reads the instance.                                           *)

AllIdle == \A r \in Requests : pc[r] = "idle"

(* A bound of the model: a kind that does not race is handled alone.       *)
MayBegin(kind) ==
  \/ AllIdle
  \/ kind \in Racing /\ \A r \in Requests : pc[r] # "idle" => request[r].kind \in Racing

Begin(r, kind, t) ==
  /\ pc[r] = "idle"
  /\ MayBegin(kind)
  /\ pc' = [pc EXCEPT ![r] = "read"]
  /\ request' = [request EXCEPT ![r] = Request(kind, t)]
  /\ UNCHANGED <<flow, status, current_iteration, tasks, events>>

(* That all rows are completed is checked too: NobodyAsked shows that they *)
(* are.                                                                    *)
ReadSubmit(r) ==
  /\ status = "DRAFT"
  /\ StagesIn(current_iteration) = {} \/ current_iteration < MaxIteration
  /\ Begin(r, "submit", NoRequest.task)

ReadWithdraw(r) == status \in {"DRAFT", "RUNNING"} /\ Begin(r, "withdraw", NoRequest.task)

validateApprovalRequest(r, t, kind) ==
  /\ status = "RUNNING"
  /\ tasks[t] = "PENDING"
  /\ Begin(r, kind, t)

--------------------------------------------------------------------------------
(* It commits.                                                             *)

Cancelled == [u \in Tasks |-> IF tasks[u] = "PENDING" THEN "CANCELLED" ELSE tasks[u]]

(* What a request read is forgotten with it.                               *)
At(r, step) ==
  /\ pc' = [pc EXCEPT ![r] = step]
  /\ request' = IF step = "idle" THEN [request EXCEPT ![r] = NoRequest] ELSE request

(* Mutant: the event repeats the status that was read.                     *)
Change_Unlogged(to, before) ==
  /\ status' = to
  /\ events' = Append(events, Event(before, before))

(* The status changes and an event records it, in one transaction.         *)
Change(to, before) ==
  /\ status' = to
  /\ events' = Append(events, Event(before, to))

(* The approvals of S that iteration i has not asked are asked.            *)
Created(i, S) ==
  [t \in Tasks |-> IF t[1] = i /\ t[2] \in S /\ tasks[t] = "NONE" THEN "PENDING" ELSE tasks[t]]

(* The transaction of a submission includes the first pass.                *)
submit(r) ==
  LET seen == request[r].iteration
      next == IF StagesIn(seen) # {} THEN seen + 1 ELSE seen
  IN  /\ pc[r] = "read" /\ request[r].kind = "submit" /\ next <= MaxIteration
      /\ current_iteration' = next
      /\ IF flow = << >>
         THEN /\ status' = "COMPLETED"
              /\ events' = events \o <<Event(request[r].status, "RUNNING"),
                                       Event("RUNNING", "COMPLETED")>>
              /\ UNCHANGED tasks
         ELSE /\ Change("RUNNING", request[r].status)
              /\ tasks' = IF StagesIn(next) = {} THEN Created(next, flow[1]) ELSE tasks
      /\ At(r, "idle")
      /\ UNCHANGED flow

(* Mutant: withdrawal forgets the tasks.                                   *)
withdrawApplicationInstance_Keeps(r) ==
  /\ pc[r] = "read" /\ request[r].kind = "withdraw"
  /\ Change(IF request[r].status = "DRAFT" THEN "DELETED" ELSE "CANCELLED", request[r].status)
  /\ At(r, "idle")
  /\ UNCHANGED <<flow, current_iteration, tasks>>

(* A draft is deleted, unless rows of an earlier iteration refer to it.    *)
withdrawApplicationInstance(r) ==
  /\ pc[r] = "read" /\ request[r].kind = "withdraw"
  /\ \/ /\ request[r].status = "RUNNING"
        /\ Change("CANCELLED", "RUNNING")
        /\ tasks' = Cancelled
     \/ /\ request[r].status = "DRAFT"
        /\ IF \E i \in Iterations \ {current_iteration} : StagesIn(i) # {}
           THEN UNCHANGED <<status, events, tasks>>
           ELSE status' = "DELETED" /\ events' = << >> /\ tasks' = [u \in Tasks |-> "NONE"]
  /\ At(r, "idle")
  /\ UNCHANGED <<flow, current_iteration>>

(* Mutant: who approves does not continue the workflow.                    *)
Approve_Stops(r) ==
  /\ pc[r] = "read" /\ request[r].kind = "approve"
  /\ tasks' = [tasks EXCEPT ![request[r].task] = "APPROVED"]
  /\ At(r, IF PendingIn(current_iteration) = {request[r].task[2]} THEN "idle" ELSE "pass")
  /\ UNCHANGED <<flow, status, current_iteration, events>>

Approve(r) ==
  /\ pc[r] = "read" /\ request[r].kind = "approve"
  /\ tasks' = [tasks EXCEPT ![request[r].task] = "APPROVED"]
  /\ At(r, "pass")
  /\ UNCHANGED <<flow, status, current_iteration, events>>

(* A rejection closes what is open and ends the application, returns it to *)
(* the applicant, or sends it back to a node in a new iteration, which     *)
(* asks the approvals in `resume` first.                                   *)
Reject(r, to, iteration, resume) ==
  /\ pc[r] = "read" /\ request[r].kind = "reject"
  /\ tasks' = [Cancelled EXCEPT ![request[r].task] = "REJECTED"]
  /\ Change(to, request[r].status)
  /\ current_iteration' = iteration
  /\ pc' = [pc EXCEPT ![r] = "reread"]
  /\ request' = [request EXCEPT ![r].resume = resume]
  /\ UNCHANGED flow

handleCloseApplication(r) == Reject(r, "REJECTED", current_iteration, {})

(* Mutant: the iteration grows on the return as well as on resubmission.   *)
handleReturnToApplicant_Bumps(r) ==
  current_iteration < MaxIteration /\ Reject(r, "DRAFT", current_iteration + 1, {})

handleReturnToApplicant(r) == Reject(r, "DRAFT", current_iteration, {})

(* Where a new iteration may begin: with all of a stage, when the node is  *)
(* its condition or START, of which nothing is asked; or with one approval *)
(* alone, which must be completed in the iteration that is left.  That is  *)
(* the target of BACK_TO_PREVIOUS_NODE too.                                *)
Resumed(i) ==
  {flow[k] : k \in DOMAIN flow} \cup
  {{a} : a \in {b \in Approvals : tasks[<<i, b>>] = "APPROVED"}}

handleSendToSpecificNode(r) ==
  /\ request[r].iteration < MaxIteration
  /\ \E resume \in Resumed(request[r].iteration) :
       Reject(r, "RUNNING", request[r].iteration + 1, resume)

--------------------------------------------------------------------------------
(* It continues the workflow, outside any transaction.                     *)

(* Mutant: a pass that ends is left open.                                  *)
Complete_Never(r) ==
  /\ pc[r] = "complete"
  /\ At(r, "log")
  /\ UNCHANGED <<flow, status, current_iteration, tasks, events>>

(* A rejection goes on when the instance is RUNNING by now.                *)
Reread(r) ==
  /\ pc[r] = "reread"
  /\ At(r, IF status = "RUNNING" THEN "pass" ELSE "idle")
  /\ UNCHANGED <<flow, status, current_iteration, tasks, events>>

(* The approvals behind the rows of iteration i: those of the stage after  *)
(* the last that has a row, or of the first.  The walk back from them goes *)
(* through approvals without a row: that one of the last stage was not     *)
(* asked, because the iteration began with another, does not matter.       *)
Following(i) ==
  LET k == Max(StagesIn(i) \cup {0}) + 1
  IN  IF k \in DOMAIN flow THEN flow[k] ELSE {}

(* Mutant: a pass does not wait for what is pending.                       *)
executeWorkflow_Hurries(r) ==
  LET i == current_iteration
      begin == IF request[r].resume # {} THEN request[r].resume ELSE Following(i)
  IN  /\ pc[r] = "pass"
      /\ IF begin = {} THEN At(r, "close") /\ UNCHANGED tasks
         ELSE At(r, "idle") /\ tasks' = Created(i, begin)
      /\ UNCHANGED <<flow, status, current_iteration, events>>

(* A pass waits for what is pending, unless it has a node to begin with.   *)
executeWorkflow(r) ==
  LET i == current_iteration
      begin == IF request[r].resume # {} THEN request[r].resume ELSE Following(i)
  IN  /\ pc[r] = "pass"
      /\ IF request[r].resume = {} /\ PendingIn(i) # {} THEN At(r, "idle") /\ UNCHANGED tasks
         ELSE IF begin = {} THEN At(r, "close") /\ UNCHANGED tasks
         ELSE At(r, "idle") /\ tasks' = Created(i, begin)
      /\ UNCHANGED <<flow, status, current_iteration, events>>

(* The end was reached: what is open is closed, the status set and the     *)
(* event recorded, one after the other.                                    *)
CloseTasks(r) ==
  /\ pc[r] = "close"
  /\ pc' = [pc EXCEPT ![r] = "complete"]
  /\ tasks' = Cancelled
  /\ request' = [request EXCEPT ![r].status = status]
  /\ UNCHANGED <<flow, status, current_iteration, events>>

Complete(r) ==
  /\ pc[r] = "complete"
  /\ At(r, "log")
  /\ status' = "COMPLETED"
  /\ UNCHANGED <<flow, current_iteration, tasks, events>>

LogCompletion(r) ==
  /\ pc[r] = "log"
  /\ At(r, "idle")
  /\ events' = Append(events, Event(request[r].status, "COMPLETED"))
  /\ UNCHANGED <<flow, status, current_iteration, tasks>>

--------------------------------------------------------------------------------
Arrive(r) ==
  \/ ReadSubmit(r)
  \/ ReadWithdraw(r)
  \/ \E t \in Tasks, kind \in {"approve", "reject"} : validateApprovalRequest(r, t, kind)

Handle(r) ==
  \/ submit(r)
  \/ withdrawApplicationInstance(r)
  \/ Approve(r)
  \/ handleCloseApplication(r)
  \/ handleReturnToApplicant(r)
  \/ handleSendToSpecificNode(r)
  \/ Reread(r)
  \/ executeWorkflow(r)
  \/ CloseTasks(r)
  \/ Complete(r)
  \/ LogCompletion(r)

Next == \E r \in Requests : Arrive(r) \/ Handle(r)

Spec == Init /\ [][Next]_vars

(* The server goes on with what it began; approvers approve what they are  *)
(* asked, and applicants submit their drafts.  A submission waits for its  *)
(* turn only because MayBegin makes it, so it is given one in the end.     *)
FairSpec ==
  /\ Spec
  /\ \A r \in Requests : WF_vars(Handle(r))
  /\ SF_vars(\E r \in Requests : ReadSubmit(r))
  /\ WF_vars(\E r \in Requests, t \in Tasks : validateApprovalRequest(r, t, "approve"))

--------------------------------------------------------------------------------
(* Properties.                                                             *)

Final == {"COMPLETED", "REJECTED", "CANCELLED", "DELETED"}

(* Whatever the requests under way, watchers see the abstract life of an   *)
(* application: a final status stays, the iteration grows by one.          *)
Life == INSTANCE ApplicationStatus WITH phase <- status, round <- current_iteration
ImplementsStatus == Life!Spec

(* Two approvals handled at the same time do not leave it to each other to *)
(* continue: a running application has a task to decide.                   *)
SomeoneCanAct == AllIdle /\ status = "RUNNING" => PendingIn(current_iteration) # {}

(* An application that does not run asks nobody.                           *)
NobodyAsked == AllIdle /\ status # "RUNNING" => \A t \in Tasks : tasks[t] # "PENDING"

AskedIn(k) == {a \in flow[k] : tasks[<<current_iteration, a>>] # "NONE"}
Settled(k) == \A a \in AskedIn(k) : tasks[<<current_iteration, a>>] = "APPROVED"

(* The iteration began with one approval of stage k, which had approved in *)
(* the iteration before.                                                   *)
BegunAt(k) ==
  /\ current_iteration > 1
  /\ \E a \in flow[k] : AskedIn(k) = {a} /\ tasks[<<current_iteration - 1, a>>] = "APPROVED"
  /\ \A j \in StagesIn(current_iteration) : k <= j

(* An iteration goes through the stages one by one from where it began, to *)
(* the last if the application is completed, and leaves a stage when all   *)
(* that it asked there have approved.  It asks the whole of each stage;    *)
(* only where it was sent back to one approval does it ask that one alone, *)
(* and goes on without the others of that stage.                           *)
StagesInOrder ==
  /\ \A k \in StagesIn(current_iteration) : AskedIn(k) = flow[k] \/ BegunAt(k)
  /\ \A j, k \in StagesIn(current_iteration) : j .. k \subseteq StagesIn(current_iteration)
  /\ status \in {"RUNNING", "COMPLETED"} =>
       \A j, k \in StagesIn(current_iteration) : j < k => Settled(j)
  /\ status = "COMPLETED" /\ flow # << >> =>
       Len(flow) \in StagesIn(current_iteration) /\ Settled(Len(flow))

(* The log of events ends with the status that the instance shows.         *)
LogAgrees == AllIdle /\ events # << >> => Last(events).after = status

(* If applicants and approvers act, the application comes to an end.       *)
Settles == <>(status \in Final \/ current_iteration = MaxIteration)

(* What is final stays so: only a DRAFT or RUNNING application is          *)
(* withdrawn, and only a RUNNING one completed.                            *)
FinalStatusKept == [][status' # status => status \notin Final]_vars
================================================================================
