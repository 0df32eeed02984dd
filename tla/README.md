# LightenBPM: a TLA+ development of the workflow platform

LightenBPM runs *applications* (a filled form that must be approved) along
*workflows* (a graph of approval and condition nodes). This directory holds
TLA+ modules that model its flow engine, what the engine depends on – revisions,
attachments, memberships – and the editor that draws the graphs; TLC
configurations that check them on small instances; and proofs, checked by TLAPS,
of what holds on every instance. Every definition is translated from the source;
`PROJECT.json` names the lines of each one under "map". Paths below are relative
to `src/lighten-bpm-be/src/`, and short names stand for these files:

| short | file |
|---|---|
| EN | `flow-engine/workflow-engine.service.ts` |
| EX | `flow-engine/execution/workflow-executor.service.ts` |
| AN | `flow-engine/execution/node-executors/approval-node.executor.ts` |
| AA | `flow-engine/execution/auto-approve.service.ts` |
| RJ | `flow-engine/rejection/rejection-handler.service.ts` |
| ID | `instance/instance-data.service.ts` |
| AC | `instance/application.controller.ts` |
| WS, WR | `workflow/workflow.service.ts`, `workflow/repositories/workflow.repository.ts` |
| AT | `attachment/attachment.service.ts` |
| OU, OR | `org-unit/org-unit.service.ts`, `org-unit/repository/org-unit.repository.ts` |
| US, MG | `user/user.service.ts`, `migration/migration.service.ts` |
| UF | `useFlowBuilder/index.ts` under `src/lighten-bpm-fe/src/hooks/` |
| TR | `transform.ts` under `src/lighten-bpm-fe/src/schemas/workflow/` |

Contents: [inventory](#1-inventory) · [modules](#2-modules) ·
[runs and bounds](#3-runs-bounds-and-what-they-show) ·
[fairness](#4-fairness) · [proofs](#5-proofs) ·
[divergences](#6-where-the-code-does-not-do-what-it-says) ·
[abstractions](#7-what-the-models-leave-out) · [plan](#8-plan)

## 1. Inventory

### State

Everything the server keeps is rows of a PostgreSQL database, reached through
Prisma at the default isolation level (read committed), and objects in S3. No
table the models are about has a lock, a version column or a constraint beyond
keys and references; the server keeps nothing in memory between requests, and
several servers may run. What is modelled of it:

- `WorkflowInstance`: `status` (DRAFT, RUNNING, COMPLETED, REJECTED,
  CANCELLED; the row disappears when a draft is deleted) and
  `current_iteration`, which counts the times the work began again;
- `WorkflowNode`: one row per iteration and approval node *reached*, with a
  status and a result. START, END and condition nodes have no rows, so how far
  an application has come must be recomputed from rows of approvals alone;
- `ApprovalTask`: one row per approver of a node, by group (`approver_group_index`
  numbers those of the node's approvers that resolved to somebody), WAITING,
  PENDING, APPROVED, REJECTED or CANCELLED;
- `FormInstanceData`: versions of the form, which conditions are evaluated on;
- `WorkflowEvent`: the log of status changes;
- `WorkflowRevision`, `FormRevision`, `FormWorkflowBinding`: the flow graphs and
  forms in their versions, and which form belongs to which workflow;
- `Attachment`: a record per file, PENDING or UPLOADED, with its key in S3;
- `OrgMembership`: ranges of dates in which a user belongs to a unit, as USER or
  HEAD.

The editor keeps a graph of nodes on the client, until it is saved.

| component | operations | interacts with |
|---|---|---|
| **Workflow engine** (EN) | `submit`, `handleApproval`, `handleRejection`, `withdrawApplicationInstance`, `continueWorkflowExecution` | calls the executor, inside its transaction on submission, after its commit on approval and on a send-back |
| **Flow executor** (EX) | `executeWorkflow`: a *pass*, a queue loop over nodes; `determineCurrentNodes`, `shouldWaitForOtherBranches` | calls the node executors; writes node rows |
| **Approval node** (AN, AA) | creates the row, resolves approvers, creates tasks, uses prior approvals; the handlers decide tasks | reads every task of the instance; writes tasks |
| **Condition node** | evaluates the branches on form data, launches all that match, else the default | reads the form |
| **Rejection handler** (RJ) | close, return to applicant, send to a node, back to the previous node | closes rows and tasks, sets status, opens an iteration |
| **Instance data, repositories** (ID, `instance/repositories/`) | updates with filters, events, deletion | the database |
| **Application requests** (AC) | create, save the form, submit, delete, approve | revisions, attachments, engine |
| **Revisions** (WS, WR, `form/`) and **bindings** | create, update, activate, delete, bind | an application starts from the active ones and refers to them |
| **Attachments** (AT) | authorize, presign, confirm, bind drafts, delete, list and purge what has expired | records in the database, objects in S3, the client's own PUT |
| **Flow validation and analysis** (`flow-engine/validation`, `flow-engine/analysis`) | what graphs a revision may contain, which nodes come before which | constrains the executor's input |
| **Flow editor** (UF, TR) | insert, replace, remove nodes and branches, save, load | sends a graph to the revisions |
| **Memberships** (OU, OR) | create, update, end, delete; extended for a user's default unit (US); imported (MG) | who approves |
| Units, users, permissions, master data, serial numbers, notifications, expressions, migration of forms and workflows, authentication | rows, filters and pure functions | – |
| Rest of the frontend | form editor and views | HTTP |

### What is hard in it

- **Reconstruction.** A pass begins from approval rows only. What must be
  entered next, which joins must wait, and whether the end is reached
  is derived again in every pass, and conditions are evaluated again on
  form data that may have changed since.
- **Joins.** There is no join node; where several edges meet, the engine walks
  back to see whether anything is pending, through nodes without rows.
- **Iterations.** Resubmission and send-back open a new iteration and leave the
  rows of the old one behind, where every filter must ignore them.
- **Transactions end before the work does.** An approval commits and only then
  continues the workflow, outside any transaction; the same after a send-back.
  A binding is three statements in no transaction.
- **Stale reads.** Requests are validated before their transaction and not
  again in it: approvals, updates of revisions, starts of applications, uploads,
  overlaps of memberships.
- **Two stores.** Records and objects change one after the other, and a client
  writes one of them by itself.
- **Two representations.** The editor keeps the links of a node forwards and
  backwards, and the edges that are drawn besides.
- **Partial order of approvals.** Groups that need all, any, or one after the
  other, joined by AND or OR, with approvals reused from earlier ones.

### What must be true

Of the executor: nothing is done beyond something that is still pending, no
branch is forgotten, a running application always asks somebody, nothing asked
remains of an iteration or an application that is over, a decision once
recorded stays. Of an approval node: it is approved by exactly the consensus it
is configured for, never stuck, and asks nobody once decided. Of an instance:
its status goes through the life drawn in `ApplicationStatus`, whatever the
requests that are handled at the same time, and its log says so. Of revisions:
one is in use at a time, and an application keeps the flow it started from. Of
attachments: what is listed can be downloaded, and what was abandoned is purged.
Of the editor: its views of the graph agree and what it saves can be executed.
Of memberships: a user has one role in a unit at a time. `PROJECT.json`
lists the hazards line by line with the properties that watch them.

## 2. Modules

```
            ApplicationStatus                (what watchers are promised)
             ^              ^
             | implements   | implements
      FlowExecutor      InstanceLifecycle    (one request / many requests)
        |  extends         . a pass is one step: FlowExecutor is its inside
      FlowGraph            . an approval is one step: ApprovalNode is its inside
                           .
                        ApprovalNode

      FlowBuilder --extends--> FlowAnalysis  (the editor, and what the engine
                                              works out of the graphs it saves)
      Publishing    Attachments    Memberships
```

Each of FlowExecutor, ApprovalNode, InstanceLifecycle, Attachments, Publishing,
Memberships and FlowBuilder has a module of theorems, `<name>_proofs`;
FlowProgress_proofs continues FlowExecutor_proofs, and FlowBuilder_proofs also
instantiates FlowGraph with the flows that are saved. The `MC*` modules give the
constants their values. Definitions whose comment begins with "Mutant"
change a definition the way a bug would; each property of a passing run is
violated by one of them (`PROJECT.json`, "mutants").

**FlowGraph** – the flow definition as constants, and the walk over it.
`WellFormed` and `Acyclic`, its assumptions, are what the validator lets through
(one START, existing targets, no cycle, all reachable); `NoWayAround` is what some
theorems ask besides. Of a condition only
which branches a form selects matters: `Branches[f][c]`.
`shouldWaitForOtherBranches` and `checkPathNeedsWait` are EX's walk back from a
join. Every walk is `WalkFrom`: the smallest set that the steps of the walk do not
leave, which is what a search with a set of visited nodes collects.

**FlowExecutor** – one application, its rows, and the pass, step by step.
State: `status`, `iteration`, `rows` and their age `born` (the database);
`pc`, `queue`, `waiting`, `snapshot`, `resume` (the local variables of the
queue loop); `saved`, the iteration to return to if the transaction of a
submission rolls back. A row is OPEN when its task can be decided, BARE when it
is pending without such a task. Each iteration of the queue loop is an action:
`SkipNode` (the join waits), `ExecuteStart`, `ExecuteEnd`, `ExecuteCondition`,
`RevisitApproval` (a row exists), `CreateApproval`, `FailApproval`. `StartPass`
is `determineCurrentNodes`; `FinishPass` and `CompleteWorkflow` are what follows
the loop. Requests: `saveApplicationInstance` (of a draft, and of a running
application, where the code commits and then fails), `submit`, `Approve` (by an
approver who may edit the form), the four behaviours of `Reject`,
`WithdrawRunning`, `ForceDelete`. `Abort` is an exception or a crash: it rolls
back inside a submission, and keeps what is written otherwise. A server handles
one request at a time here; the approver of a node is one person, whose prior
approvals may be reused.

**ApprovalNode** – the inside of one node: the tasks of its approvers, by group.
`execute` creates them and uses prior approvals; a handler goes through
`validateApprovalRequest` (outside the transaction), `UpdateTask`, `Decide` and
`Commit`. `written` holds what its transaction has written and nobody else sees;
its rows are locked until the end, `Waits` says who waits for whom, `RollBack`
is the database breaking a deadlock. The engine decides completion twice, by
different computations: `isApprovalNodeCompleted` (EN) and
`checkApprovalNodeCompletion` (EX); both are kept. `Groups` (approvers who
resolved to somebody) and `setup.approvers` (all of them) are kept
apart because the code numbers one and looks up in the other.

**InstanceLifecycle** – the instance and several requests handled at the same
time. A request reads the instance (`ReadSubmit`, `ReadWithdraw`,
`validateApprovalRequest`), commits one transaction from what it read (`submit`,
`withdrawApplicationInstance`, `Approve`, the rejections), and goes on outside
it: `Reread` and `executeWorkflow`, then `CloseTasks`, `Complete` and
`LogCompletion`, three writes in no common transaction. A flow is a sequence of
stages of parallel approvals, each behind a condition that leads to all of them
(the first may stand behind START), and a pass is one step. A send-back names one
node (`Resumed`): a condition or START, which RJ does not check, and from which
its whole stage is asked (the START node leads to the first); or one approval,
which must be completed in the iteration that is left, and which alone is asked
(`request.resume`, EX:125-127). BACK_TO_PREVIOUS_NODE sends to such a node too. A
pass without a node to begin with goes on behind the rows there are
(`Following`); its walk back goes through approvals without a row.

**ApplicationStatus** – the abstract specification: status and iteration as
watchers see them. `FlowExecutor` and `InstanceLifecycle` implement it through
`INSTANCE ... WITH` mappings; the mapping of FlowExecutor shows the draft until
a submission's transaction commits.

**Publishing** – workflows and forms with their revisions, the bindings, and the
applications that are started from them. A request checks (`CreateRevision`,
`UpdateRevision`, `Bind`, `findLatestApplicationRevision`), then writes. A
revision is written by a transaction of two statements: `Prepare` finds the rows
to archive and the version to use, `Commit` makes both writes visible. A
binding's three writes are three steps, and `Fail` may come between any. The
start of an application looks up the active revisions and inserts a reference to
them later (`createInstanceData`), which the database refuses if they are gone.
Deletions are single transactions and overtake everything.

**Attachments** – files of one application: `rec` and `context` (the record),
`url` and `putting` (the presigned address and the client that uses it), `obj`
(S3), and one request of each kind per file (`conf`, `del`, `listed`), each in
the steps between which the server waits. Deletion by the owner and purge by the
clean-up go through one transaction that removes the object before it commits
(`deleteRow`, `deleteObject`, `Commit`); `Rollback` and `TimeOut` are that
transaction failing, the latter while the removal still goes on. `broken` and
`late` are history: which files a failed deletion has hit, and which were
confirmed after their time.

**Memberships** – the rows of one user and one unit. Creation, update, import
and the choice of a default unit look (`found`, and for the import how each row
is to be cut, `ways`) and write later; ending, closing and deleting a row are
single writes. `fresh` and `checked` are history: nothing was written since a
request looked; the last write of a row followed a check that held.

**FlowAnalysis** – the analysis and the structural validation of a flow graph as
operators over a graph: predecessors by paths, guaranteed and possible ones,
traversal inferred from approvals, the validator's checks. `Executions`, the sets
of nodes an application can go through, is the reference they are compared with.
What the code collects by a search with a set of visited nodes, or by repeating a
pass until nothing is added (`Reach`, `inferTraversedNodes`), is the smallest set
that is closed under the steps; `findAllPathsToStart` is a function on nodes and
what was visited before them, recursive as the code is.

**FlowBuilder** – the editor: `nodes` with `next`, branches and `parents`, the
drawn `edges`, and every operation of UF as an action: `insertNodeAfter`,
`insertNodeBefore`, `addConditionBranch`, `fillPlaceholder`, `smartRemoveNode`
and `smartRemoveCondition`, `removeBranch`, dragged edges, the delete key, and
`Save` (`validateNodes`, `parseFlow`, and `deparseFlow` of what comes back). A
node's `edges` are numbered by its branches, so that a branch that leads nowhere
leaves a gap. Where the code looks for the nearest node at which branches meet,
the model takes any that is met first (`SharedAhead`); `OneReconnectionTarget`
proves that there is one.
`bypassed` is history: an edit went by edges that had been changed alone, or took
a node away without its links; the model goes no further then.

## 3. Runs, bounds and what they show

A type invariant that is proved is not checked by a run as well: a run's
properties are those that say something a step can get wrong.

### Passing

**executor** (`MCFlowExecutor.cfg`, 7 050 states). A flow with a condition that
forks into `a` and `b`, their join `z`, a second condition, and a last node `d`
or the END; two form contents, edited by two of the approvers and by the
applicant, at any time between passes; every rejection behaviour. Checked:

- `NothingBeyondPending` – no row exists downstream of a pending one, in
  any iteration: the joins wait.
- `NoLostBranch` – when the application completes, every approval node that was
  ever queued in its iteration, skipped joins included, has been approved.
- `OtherIterationsClosed`, `NoWorkOutsideRunning` – nothing is pending in an
  iteration or an application that is over.
- `SomeoneCanAct` – a running application always has a task to decide.
- `DecisionsKept` – no step overwrites a recorded decision.
- `EventuallySettled` – if approvers keep deciding, it stops running.
- `ImplementsStatus` – it implements `ApplicationStatus`.

**executor_faults** (`MCFlowExecutorFaults.cfg`, 23 342 states). The flow
without its tail, where a condition may match no branch, the approvers of `z` may
resolve to nobody, and the server may stop at any point of a pass:
`NothingBeyondPending` still holds. (`OtherIterationsClosed`,
`NoWorkOutsideRunning` and `DecisionsKept` are proved with crashes included.)
`NoLostBranch`, `SomeoneCanAct` and liveness are not asked: they do not hold with
crashes, since nothing restarts a pass that was cut off, and `resume` dies with
it.

**approval_one** (`MCApprovalNode_One.cfg`, 5 929 states). One handler; one
approver of each type with three users and every set of prior approvers, and two
approvers of every two types sharing a user, under AND with every set of prior
approvers and under OR without. `ApprovedByConsensus` (approved only by the
consensus configured), `DecidedNodeIsQuiet`, `LineInOrder` (in a
reporting line nobody is asked before those before have approved),
`CompletionChecksAgree` (the two completion checks agree whenever no request is
handled), `DecidedOnce`, `NodeDecided`.

**approval_two** (`MCApprovalNode_Two.cfg`, 22 258 states). The same cases without
lines, two approvals handled at once: all interleavings, row locks, deadlocks,
requests validated before the node was decided. `ApprovedByConsensus`
and `DecidedNodeIsQuiet` still hold.

**lifecycle** (`MCInstanceLifecycle.cfg`, 167 455 states). Two approvals at a
time, all other requests alone, on five flows of at most two stages, one of them
without any approval. `SomeoneCanAct` – of two approvals that end a stage
together, each continues the workflow, and neither leaves it to the other;
`StagesInOrder` – whatever node a send-back names, an iteration goes through the
stages one by one from there, leaves one when all that it asked there have
approved, and asks the whole of each, but for the stage in which it began with
one approval (what that means for the others is in section 6); `NobodyAsked`;
`LogAgrees`; `ImplementsStatus`; `Settles`.

**attachments** (`MCAttachments.cfg`, 79 805 states). One file and its
application, with uploads as a draft, as applicant and as approver, and two
deletions that fail. `UploadedHasObject` – a file listed as uploaded can be
downloaded, except where a deletion failed or is about to commit;
`PurgedWasLate` – the clean-up, which purges by ids it listed before, never hits
a file confirmed in time; `NoRecordWithoutApplication`; `RecordForward` – no
confirmation brings a deleted record back; `AbandonedPurged` – an upload that was
begun is confirmed, deleted or purged in the end.

**publishing** (`MCPublishing.cfg`, 875 797 states). A workflow and a form with
two revisions each, a second form with one; editors one at a time, crashes,
deletions and an applicant at any time. `Consistent` – one active revision,
distinct versions, one binding per workflow and per form, after every statement;
`AppsHaveFlow`; `AppsKeepTheirFlow` – no update that is under way writes the flow
of an application; `StaysPublished` – a workflow in use stays in use until its
active revision is deleted.

**builder** (`MCFlowBuilder.cfg`, 9 478 states). All sequences of edits with four
nodes besides the form and the end. `ParentsAgree` – the links forwards and
backwards agree; `NothingCutOff`; `NoEmptyBranch` – every branch of a condition
has a node or an empty place of its own; `SavedIsValid` – what the editor lets
pass, the backend's validator accepts; `InferredWasTraversed` and
`GuaranteedIsExecuted` – on the graphs that can be built here, the engine's
analysis agrees with what applications go through. With five nodes (193 890
states) the same holds; that run is too long to keep.

**memberships** (`MCMemberships.cfg`, 1 415 084 states). Three rows over three
days and two requests. `OneMembership` – two rows overlap only if one of them was
written without a check that held: by the choice of a default unit, by a request
that was overtaken, or by ending what had ended; every other sequence keeps the
rule of one membership at a time. `ImportClearsItsRange` – an import leaves nothing
that it found in the range of its row, though other requests may have moved the
dates since it decided how to cut them; one that was not overtaken has its row
there alone, changes nothing before it, and removes behind it only what began
before it. The repository disagrees with itself about this one: the code follows
the later of two documents, see section 6.

### Violations

Each is a run of one property that a comment of the code states, which TLC finds
violated; see section 6: **last_two_approvals** (`MCApprovalNode_Stuck.cfg`,
`NoStuckNode`), **withdrawn_completes** (`MCInstanceLifecycle_Withdrawn.cfg`,
`FinalStatusKept`), **update_overtaken** (`MCPublishing_Overtaken.cfg`,
`AppsKeepTheirFlow`).

### Bounds

- `MaxIteration` = 3 caps `current_iteration`: two restarts, so that a restart
  meets rows of an iteration that was itself a restart. What an action does to
  an iteration depends on whether it is the current one, an earlier or a
  later one, and three have all of them. The guards of `submit` and `SendTo`
  carry the bound in FlowExecutor; those of `ReadSubmit` and
  `handleSendToSpecificNode` do in InstanceLifecycle. The theorems of section 5
  hold for every bound.
- Flows of up to eight nodes: a fork, a join and a choice behind it are the
  smallest shape in which a join waits, the end is reached with and without
  further work, and a send-back lands before, on and after the join.
- Three users, two groups of two: a group has a first, a middle and a last member
  in the single-approver cases, and the groups share a user, who has a task in
  each. Group decisions read only their own group and how many are open.
- Two handlers or requests at a time: the races here are of pairs (a read of one
  and a commit of the other); wider ones are not checked, and where a theorem
  covers the property they are proved.
- `Racing` in InstanceLifecycle, Publishing and Memberships says which kinds of
  requests overlap. In the lifecycle run approvals do: with withdrawals too,
  `FinalStatusKept` fails (`withdrawn_completes`), and with it the refinement. A
  request that begins an iteration, a submission or a rejection, is always alone
  there (`LifecycleAssumption`). In
  publishing starts of applications overlap with anything; two editors at once
  break `Consistent` (section 6). In memberships two creations overlap, and
  ending or deleting a row overtakes any request.
- One file: records of different files share only the application and its task,
  which the model has; the theorems hold for any number. `MaxFailures` = 2: a
  deletion fails and so does the next.
- `MaxRevisions`: a latest revision that is deleted, or archived by another. One
  application at a time, which any deletion removes again.
- Three rows, `Horizon` = 2: two rows and one that comes between, before or
  behind; the last day stands for dates that never come, `Forever`.
- Four added nodes in the editor: a condition with two branches, a node in each
  or behind them, or a condition in a condition's branch.

Deadlock is not checked: an application that is over, a node that is decided, a
graph that is complete, a workflow that is deleted really stop.

## 4. Fairness

- `FlowExecutor!FairSpec`: WF on `ExecutorStep` – the server goes on with a
  pass it has begun: it is a loop of one request with nothing to wait for. WF
  on `ApproveSomewhere` – as long as some task can be decided, some
  approver approves something; used for `EventuallySettled`, which is a
  statement about what happens when people do their part. Crashes are off.
- `ApprovalNode!FairSpec`: WF on `execute`, on the steps of each handler
  (the database grants a lock that is free and breaks deadlocks), and on
  the arrival of an approval.
- `InstanceLifecycle!FairSpec`: WF on each request's steps and on the arrival of
  approvals; SF on `ReadSubmit`. A draft stays submittable until it is submitted
  or deleted, but `MayBegin`, a bound of the model, makes a submission wait until
  no other request is under way, so that it is enabled again and again rather
  than always; strong fairness takes that artefact out again.
- `Attachments!FairSpec`: WF on time passing (`Expire`), on the clean-up listing
  and purging, and on deletions that were begun. The clean-up is a request of an
  administrator's tool: `conductor/gbpm-475/file_attachment_feature.md:30`
  (beside the backend's `src/`) says that a record "remains PENDING and is
  eventually purged by admin tooling". Clients and applicants owe nothing.

No fairness is assumed of rejections, withdrawals, edits or crashes.

## 5. Proofs

Every theorem holds for every value of the constants that the module's
assumption admits; TLC evaluates those assumptions in the runs.

**FlowExecutor_proofs**, from `GraphAssumption` and `ExecutorAssumption`: for
every flow graph, every assignment of approvers, prior-approval settings, reject
behaviours and targets, with or without crashes, and every bound on iterations.
(Acyclicity is not used.)

1. `TypeCorrect`. The facts that are not immediate are about queues: the queue a
   pass begins with is a sequence of nodes because `NewestFirst` enumerates a
   finite set (`NewestFirstIsQueue`), and a condition appends nodes only.
2. `NothingLeftBehind`, and from it `IterationsStayClosed`
   (`OtherIterationsClosed`) and `NoWorkLeftBehind` (`NoWorkOutsideRunning`).
   Neither is inductive: they say nothing of a pass under way, or of the
   iteration to which a submission may roll back. The invariant `IInv` adds

   - `PassesRun` – while the server is in a pass the application is RUNNING, so
     that no pass writes rows of an application that is over;
   - `SubmissionOpen` – inside a submission's transaction a pass is under way,
     and the iteration it came from is the current one or the one before: rolling
     back goes to an iteration that is closed, and leaves none open above it;
   - `OthersClosed` and `Quiet` – the two invariants, in the form in which each
     action keeps them.

   `NextIInv` has one step per action; `ClosePendingCloses` and `RejectCloses`
   are the lemmas on the updates with filters, `AbortStep` on rolling back.
   `IInvImplies` draws the conclusions.
3. `DecisionsAreKept` (`DecisionsKept`), from `TypeOK` and a case per action:
   every update of rows filters on PENDING or writes a row that had not
   been there (`ClosePendingKeeps`, `WithRowKeeps`), and an abort removes only
   what the submission wrote (`AbortKeeps`).
4. `ExecutorImplementsStatus` (`ImplementsStatus`). Each step maps to a step of
   `ApplicationStatus` or to a stutter; a submission maps to `Submit` when its
   pass ends (`FinishPass` or `CompleteWorkflow`), a rolled back one to a stutter.
   It uses `IInv`, since a completion is a `Decide` only of what is RUNNING.

**FlowProgress_proofs**, where passes succeed (`PassesSucceed`: no crash,
approvers resolve to somebody, a condition has a branch to take; with failures
work is lost, section 6), for any graph, rejections, edits of the form and reuse of
approvals:

1. `RunningWaitsForSomebody` (`SomeoneCanAct`). The invariant `AInv` adds to
   `IInv` that the rows of a running iteration are open or approved (`Answered`),
   and that a pass which is going to wait has an open row to wait for, while one
   that is not has nothing open behind it (`Asked`).
2. `NoBranchIsForgotten` (`NoLostBranch`), on flows where no way leads around a
   join (`NoWayAround`: whatever branch is taken before an approval where several
   edges meet, that approval is still to come). Every flow that the editor saves is
   one (`SavedFlowsAreExecutable`, below); the validator accepts others, and of
   those the property fails, as section 6 describes ("A join may never be
   entered"). A join that is skipped is not in the queue any more and has no row,
   so the property says nothing that a step could keep. `PInv` adds why the join
   will be reached again: until it has a row, an iteration is on one side of it
   (`OneSide`), so something before it is pending, in the queue, or has a row whose
   successor is next (`Carried`); an approval that is no join has its row or is in
   the queue (`Single`); and a pass that has pending rows has not yet met one that
   no other one is before (`Met`), at which it decides to wait. That a pass which
   starts behind the approved rows gets on takes the last of these rows: its
   successor has none (`StartPInv`, `SomeNodeIsLast`, from the well-foundedness of
   finite sets, as a graph without a cycle has a last node).

   `StepIsHandled` first reduces the seven actions of the loop to one, by what
   they do to the node's row (`Waits`, `Passes`, `Meets`, `Enters`).

**ApprovalNode_proofs**, for any node, approvers, prior approvals and number of
handlers: `TypeCorrect`, and `OneWriterPerTask` – two open transactions never
hold one task. A handler may write what it has locked only (`Unlocked`, `Busy`),
and what it writes are rows for tasks of the node (`PromotedRows`,
`CancelledRows`, `ApprovalRows`).

Then, where every approver resolves to somebody
(`Resolved`; otherwise groups are mistaken for others, section 6):

1. *Requests at the same time*, any number of them, if nobody rejects and nobody is
   asked after another (`Undisturbed`, the setting of `approval_two`):
   `ConsensusAtTheSameTime` (`ApprovedByConsensus`) and, without alternatives that
   prior approvals may settle (`NoPriorAlternative`), `QuietAtTheSameTime`
   (`DecidedNodeIsQuiet`). `RaceInv` says what a transaction that has not committed
   has written (`WrittenSo`) and concluded (`DecidedSo`) from tasks that others go
   on changing: an approved task stays approved, so what was consensus when it was
   counted is consensus when it is committed.
2. *One request at a time* (`OneHandler`), with rejections, reporting lines of any
   length and prior approvals: `ConsensusOneAtATime`, `QuietOneAtATime`,
   `LinesInOrder` (`LineInOrder`), `ChecksAgreeOneAtATime`
   (`CompletionChecksAgree`), `DecidedOnceOneAtATime` (`DecidedOnce`), and
   `SomebodyIsAsked`: `NoStuckNode`, which fails of two requests at a time
   (`last_two_approvals`), holds of one. `TurnInv` says of each stage of a handler
   (`Turn`) what of the tasks it sees is as it should be between requests
   (`GoodIn`); that one task of a line is PENDING and those behind it are WAITING is
   the part that promotion has to restore.

**InstanceLifecycle_proofs**: `TypeCorrect` for any flows, with approvals and
withdrawals that race; and, where only approvals race (`OnlyApprovalsRace`, the setting of the run, with any number
of requests), `LogCorrect` (`LogAgrees`) and `LifecycleImplementsStatus`
(`ImplementsStatus`). The invariant `LInv` adds `Alone` – a request that does not
race is alone; `ReadIsSo` – so what it read is still so; `GoesOn` – a pass under
way is that of an application that runs or that another approval completed; and
`Recorded` – the last event shows the status or is about to be written.

In the same setting `RunningAsks` (`SomeoneCanAct`), `OnlyRunningAsks`
(`NobodyAsked`) and `StagesAreInOrder` (`StagesInOrder`), for flows of any number
of stages of any size. `SInv` adds that tasks are pending in the current iteration
only (`NoneLater`, `PendingHere`), that its stages follow each other and are asked
as a whole, but for one in which it began with one approval (`Shaped`), that a
running instance is in one stage and has what was asked before it approved
(`Staged`), that a send-back names a stage or an approval given in the iteration
it leaves (`Entry`), that when nothing is pending some request goes
on with the workflow (`Continued`: of two approvals at the same time, the one that
commits last sees the other), that whoever finds the end reached finds all approved
(`Ended`), and what each request knows when it comes to write (`Knows`).

**Attachments_proofs**, for any set of files and number of failures:
`TypeCorrect`, `UploadsAreThere`, `PurgeHitsLateOnly`,
`RecordsHaveApplication`, `RecordsForward`. The strengthening says what a
request may rely on between its steps: an object that a confirmation has seen is
there unless a deletion took it away (`SeenIsThere`), what was listed or is being
purged has passed its time (`PurgeIsDue`), and a file
is bound only while there is an application (`InApplication`).

**Publishing_proofs**: `TypeCorrect` and `FlowIsThere` (`AppsHaveFlow`) whatever
races, from the reference that the database keeps. Where an editor is overtaken
by applicants and deletions only (`OnlyStartsRace`): `TablesAgree`
(`Consistent`), `FlowIsKept` (`AppsKeepTheirFlow`) and `WorkflowStaysPublished`
(`StaysPublished`). The invariant `SInv` adds to the tables (`Rows`,
`OneBinding`) what each request relies on between its statements (`Relies`): it
changes a draft and starts from what was in use (`Apart`); what it has found to
archive is all there is (`Covers`) and of its own document (`Replaces`); its
version is above all others (`Newest`); what it deleted of a binding stays deleted
(`CutOff`). `OthersRely` shows that what others do keeps it.

**Memberships_proofs**, for any rows, days, ranges and requests, racing or not:
`TypeCorrect`; `OneAtATime` (`OneMembership`), with `FoundIsSo` – what a request
found is so while it is `fresh` – and `CutsFit`, `Within` – a row that is cut
covers no day it did not; and `ImportDecides` (`ImportClearsItsRange`), day by day:
whatever dates a row has by now, a cut leaves it no day of the range (`CutClears`),
and `DaysLeft` says what is left where the dates are those that were found.

**FlowBuilder_proofs**, for any set of keys, so for flows of any size, and every
sequence of edits: all six properties of the run.

`FlowStaysBuilt` is the inductive invariant. As in the run, nothing is claimed of a
flow once an edit went by edges that had been changed alone, or the delete key took
a node away without its links (`bypassed`); of every other flow it says `Built`:
types (`Typed`), one form and one end (`Ends`), links that lead to nodes (`Linked`),
parents that are the nodes leading there (`Agree`), branches of a condition that
begin with different nodes, none of them a join (`Parted`), empty places at the
head of branches only (`Places`), and `Core` of the graph.
`ParentsAgree` and `NoEmptyBranch` are not inductive, since nearly every operation
acts on the node where branches meet: a removed condition is reconnected to it, a
new branch leads to it, a removed subtree stops there. `Core` says that
there is such a node, and one only: the graph can be put in layers (`Layers`), with
a rank that grows along every edge and for each node a join at which all ways from
it arrive first, the same for all successors of a node.

The argument has two levels. The first is about graphs: what an insertion
(`InsertedCore`), a new branch (`BranchedCore`), the removal of a node
(`DeletedCore`) and of a region between a node and the join behind it
(`PrunedCore`) do to ranks and joins – a removal may take a join away, or with its
last branch but one turn a join into a common node, and then the nodes before it
are given the next join behind it. The second shows that each operation of the
store, which writes links, parents, branches and edges one by one, makes one of
these edits: `InsertedAfter`, `InsertedBefore`, `BranchAdded`, `PlaceFilled`,
`NodeRemoved`, `ConditionRemoved`, `BranchRemoved`, `SavedBuilt`.

From the invariant: `ParentsAlwaysAgree`, `NoBranchIsEmpty`,
`OneReconnectionTarget`; `NothingIsCutOff`, by following the ranks up and down;
`SavedFlowsAreValid`; and of the analysis of these flows `InferenceIsExact` – a
condition that was gone through leads to a node that was, and of the conditions not
found yet the last by rank leads to one that is found – and `GuaranteesHold`: every execution holds a path
back to the form, and an edge for a rejection only adds paths. For it
`PathsExist` shows that the recursion in `findAllPathsToStart` defines a function,
by how many nodes are still unvisited.

`SavedFlowsAreExecutable` joins the two ends of the system. `Engine` instantiates
FlowGraph with what the editor sends (`SavedFlow`): its keys, types and links as
`Nodes`, `Kind` and `NextOf`, and as `Branches` any choice that each form makes
among the branches of a condition, if each branch is chosen by some form
(`SelectsBranches`). Of this graph the theorem proves `WellFormed` and `Acyclic`,
which every theorem about FlowExecutor assumes, and `NoWayAround`: ways that meet in
a join have met in all joins before it (`NoneAround`). So no branch of a flow drawn
in the editor is forgotten, by `NoBranchIsForgotten`, where passes succeed.

Only model-checked: liveness (`EventuallySettled`, `NodeDecided`, `Settles`,
`AbandonedPurged`), which the prover does not do under fairness; and
`NothingBeyondPending`. That property fails on flows whose branches differ in length
(section 6, "A join may be entered too early"), with reused approvals in parallel
branches of two, and with edits of the form where a condition lies behind the fork
on one side. The hypotheses that exclude all of these leave flows in which a pass
never meets a join before its other branch is done, and a theorem about them would
not be about the waiting.

## 6. Where the code does not do what it says

With a run:

- **last_two_approvals.** EN:382 "other users remain PENDING and must approve
  themselves", EN:477 "AND: all groups must complete". Two users who
  must both approve do so at the same time; under read committed neither
  transaction (EN:401) sees the other's approval, so neither completes the
  node. Every task is APPROVED, the node PENDING, and nobody is left to ask.
- **withdrawn_completes.** EN:922 "Only DRAFT or RUNNING instances can be
  withdrawn", EN:116 "not found or not running". `continueWorkflowExecution`
  (EN:1145) does not read the status again, and the rows the withdrawal closed
  look completed: an application withdrawn between the commit of the last
  approval and its pass ends up COMPLETED.
- **update_overtaken.** WS:338 "Only workflow revisions with status DRAFT can be
  updated." The state is read before the transaction (WS:336) and not in it: of
  two updates of one draft the first activates it, an application starts, and the
  second rewrites the flow it runs by.

Met while modelling, without a run of their own. The engine:

- A join may be entered too early. EX:178-180 "Checks if execution should wait for
  other branches to reach the target node … Used for parallel condition branches
  that converge at a common node". The walk back (EX:236) passes through nodes
  without a row and looks for pending rows only. With branches `a -> y -> z` and
  `b -> z`, when the last of `a` and `b` is approved, the pass has both `y` and
  `z` queued, and if `z` comes first nothing is pending: `z` gets its row, then
  `y` its own, and `z` can be approved before `y`.
- A join may never be entered. EX:538 "Need to wait for other branches to
  complete, skip this node for now". Nothing puts a skipped node back: later
  passes begin at pending rows or behind completed ones. With `c1 -> {a, z}` and
  the branch of `a` ending without reaching `z`, `z` is never entered and the
  application completes without it. The validator accepts such a flow; the
  editor does not draw one (`SavedFlowsAreExecutable`).
- A send-back to one of several parallel approvals leaves the others out. RJ
  returns the one key that was named (RJ:341) and the pass begins with it alone
  (EX:125-127): with `{a, b}` before `c`, a rejection of `c` or `b` that names `a`
  creates a row for `a` and none for `b`. When `a` has approved, the walk back from
  the join passes through `b`, which has no row in the new iteration, to START, and
  "Traced back without finding incomplete nodes = path not taken" (EX:295): `c` is
  asked, or the application completed, without `b` – even if it was `b` who sent it
  back. EX:178-180 has the join wait "for other branches to reach the target node".
  `StagesInOrder` therefore asks for a whole stage only where the iteration did not
  begin with one approval of it.
- A send-back may name any condition, START or END: only an approval is checked for
  having been executed (RJ:288). A condition behind the node that rejects skips what
  is between; to END, the pass completes the application.
- A draft with rows of several iterations cannot be deleted. EN:829 "DRAFT
  instances are force deleted (hard delete)".
  `instance/repositories/workflow-node.repository.ts:278` deletes the rows of the
  current iteration; a draft returned to its applicant after a send-back has rows
  in two, and the foreign key refuses the deletion (`NoOtherRows`).
- Groups are numbered without approvers that resolve to nobody, but EN:373 takes
  the approver at that number from the full list. A group in which all must approve
  is then handled as another kind, and one approval settles it.
- Saving the form of a running application commits the data and then fails with
  501 (AC:615, EN:1167).
- After a send-back the nodes before the target have no row in the new
  iteration. A later node whose configured target is one of them, which the flow
  validator accepts as a predecessor
  (`flow-engine/validation/flow-definition/validators/context.validator.ts:59`),
  cannot be rejected with that behaviour: RJ:297 refuses a target that was not
  executed in the current iteration. The model has the check as `CanSendTo`.
- A task of a reporting line that is approved by two concurrent requests promotes
  the next two tasks (EN:297, EN:1025), and a task may be decided twice (EN:133):
  this is why `LineInOrder` and `DecidedOnce` are asked of one handler only, and
  `approval_two` has no lines.
- EN:481-483 takes an alternative (OR) for complete when fewer groups are open
  than approvers were configured. An approver that resolves to nobody makes that
  true at once. The cases of the passing runs have no such approver.
- When prior approvals complete an alternative at once (EX:631), the tasks of the
  other alternatives stay PENDING; when a person does, they are cancelled
  (EN:412). The cases under OR have no prior approvals.
- `refactory-notes/refactory-plan-2_history.md:31` (beside the backend's `src/`)
  asks that status and event be written
  atomically; ID:95-106 writes one after the other, in no transaction when an
  approval completes the application. `LogAgrees` is asked when no request is
  under way, without crashes.
- A crash between the commit of an approval and its pass (EN:1145) leaves a
  running application that nobody continues, until someone approves another task.

Revisions and bindings:

- Two activations at the same time leave two active revisions, as neither finds
  the other's (WS:360); two creations get the same version number (WR:200); two
  bindings interleave to two rows for one workflow or form
  (`form-workflow-binding/form-workflow-binding.service.ts:78`). `Consistent`
  is asked of editors who come one at a time.
- A crash between the writes of a binding leaves the workflow without one.
- SCHEDULED revisions are accepted and never activated by anything; starting an
  application does not look at `is_active`, which a soft delete clears.
- Deleting a form revision leaves its applications without a form, where
  deleting a workflow revision takes them along.
- A new revision of a form archives the active one even if it is a draft, as
  `form/form.controller.ts:375` documents ("This will retire the previous latest
  version"); one of a workflow does not.

Attachments:

- The object is removed before the deletion of its record commits (AT:536): a
  failed commit leaves a record that cannot be downloaded (`broken`).
- A file confirmed after its time may be purged (`late`), since the clean-up
  deletes by id (AT:559).
- A draft file confirmed after the application was created is neither bound nor
  ever purged; objects stay in S3 after a deletion of the application, and where
  a PUT ends after a purge. A confirmation is accepted after submission, where
  upload and deletion are not.

Memberships. `conductor/membership-refine/06-membership-sync-review.md:5` (beside
the backend's `src/`) says: "One active membership per `(User, OrgUnit)` pair at
all times, regardless of `assignType`."

- What a bulk import does with an overlap is specified twice.
  `openspec/specs/bulk-data-import/spec.md:20-22` and `:45-55` (beside the backend's
  `src/`): on "a date overlap with an existing record" "the system SHALL rollback all
  previous changes", "SHALL reject the entire import and return a
  `BadRequestException`". `conductor/membership-refine/05-implementation-summary.md:11`,
  later: "Replaced the bulk import's membership conflict detection (which threw
  `400 Bad Request` on any overlap) with a cookie-cutter delta sync strategy". The
  code does the latter (MG:236-284) and refuses no overlap, with the database or
  within the payload; the former was not withdrawn. `ImportClearsItsRange` states the
  rule that the code follows, and an import that succeeds over an existing row is
  against the first document.
- The choice of a default unit looks for a row of the role USER only (US:122): it
  adds one beside an active HEAD, or extends one without an end over what begins
  later.
- Check and write are two statements (OU:258): two requests may both find nothing.
- Ending a row that has ended (OR:702) extends it until today, which
  `03-soft-deletes.md:7` of that directory wants avoided for imports ("to prevent
  accidentally extending past memberships into the present").
- An import that is overtaken cuts rows by their old dates (MG:248): a row that
  ended meanwhile may be lengthened, in front of the range, never in it. (That it drops the part of a row behind its
  range is intended, `05-implementation-summary.md:25`.)
- `01-active-memberships.md` calls a membership active if "startDate <=
  current_date < endDate"; the queries for heads (OR:502) ask for the end only.
- A reporting line takes "the FIRST HEAD with job_grade higher than current
  highest" (OU:451), but the comparison is commented out (OU:489-497); where units
  are each other's parents the way up (OU:481) does not end.

The editor:

- A dragged edge or the delete key changes what is drawn and not the links
  (UF:375-414); what is saved goes by the links, and operations that go by drawn
  edges cut nodes off. After an edge or a node was so removed nothing is
  promised (`bypassed`).
- A subflow is sent as `subflow_id` (TR:1048) where the backend's schema expects
  `subflowId`; a missing link is sent as "end" (TR:957), where the key is "end-node".
- Edits begun while the layout of another is awaited start from the nodes before
  it, and the last one wins (UF:262).

## 7. What the models leave out

- **Data.** A form is one of a few contents; an approver's users are given, how
  reporting lines, roles and expressions resolve to them is not modelled; a
  condition's outcome is a function of the form. Notifications, the routing view,
  validation of form data and comments are left out: nothing in the engine
  depends on them. Of revisions, names, tags, permissions and contents.
- **Granularity.** A request's transaction is one step in FlowExecutor and
  InstanceLifecycle, and the writes of one in Publishing and Memberships are.
  A pass is many steps in FlowExecutor and one in
  InstanceLifecycle (its completion three), so two passes that interleave node by
  node are not examined; two that follow each other are. In ApprovalNode a
  decision reads once it has the locks it needs: a handler that reads early and
  then waits for a lock is not examined. A bulk import is modelled one row at a
  time, each committed by itself, where the code has one transaction for all.
- **Rejections at the same time as approvals** within a node are examined with
  one handler only.
- **Composition.** One approver decides a node in FlowExecutor and
  InstanceLifecycle; that a node with many does what that one does is what
  ApprovalNode's `ApprovedByConsensus`, `NoStuckNode` and `DecidedNodeIsQuiet`
  say. The connection is by reading, not by a refinement. FlowGraph has its graph
  as constants and FlowBuilder builds one; that the graphs it builds satisfy
  `GraphAssumption` and `AcyclicAssumption` is `SavedFlowsAreExecutable`.
- **Editor.** Attributes of nodes and their checks, and the asynchronous layout:
  an edit is one step.
- **Components.** Not modelled by choice: permissions and shares, units and users
  other than memberships, serial numbers (one atomic statement each, or rows
  and filters), master data (generated tables), notifications (a queue whose
  failures are ignored), expressions (pure computation), authentication, the
  migration of forms and workflows (one transaction of rows by code), the form
  editor and views.
- **Send-back to END**, which the code does not refuse, is not in InstanceLifecycle;
  in FlowExecutor a flow may have any node as a target, and those of the runs have
  approvals and conditions.

## 8. Plan

Done: the engine (`FlowGraph`, `FlowExecutor`, `ApplicationStatus`,
`ApprovalNode`, `InstanceLifecycle`), what it depends on (`Publishing`,
`Attachments`, `Memberships`), the editor and the analysis of its graphs
(`FlowBuilder`, `FlowAnalysis`), and eight modules of proofs, which cover every
safety property of the runs but `NothingBeyondPending`. What could follow:

1. **Interleaved passes**: two executors over one graph, to examine what
   InstanceLifecycle takes as one step.
2. **Reporting lines** as a function over units and heads, with the hierarchy
   changed meanwhile, and the asynchronous layout of the editor.
