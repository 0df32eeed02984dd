------------------------------- MODULE Publishing ------------------------------
(***************************************************************************)
(* Workflows and forms, their revisions, the bindings between them and the *)
(* applications that are started from them.  Editors create, change and    *)
(* delete revisions and bind a form to a workflow; an applicant starts an  *)
(* application of a binding, which keeps the revisions it was started with.*)
(* A request is handled in the steps between which the server waits: what  *)
(* it checks, then the statements of its transaction, or in the case of a  *)
(* binding three writes that are in no transaction.                        *)
(***************************************************************************)
EXTENDS Naturals, FiniteSets

CONSTANTS
  Workflows, Forms,
  MaxRevisions,  \* bound of the model on the revisions of each of them
  MaxApps,       \* bound of the model on the applications at a time
  Chosen,        \* the states an editor asks for, or KEEP for none
  Requests,      \* the requests that may be under way at the same time
  Racing         \* the kinds of requests that may overtake others

Kinds    == {"create", "update", "bind", "start"}
States   == {"DRAFT", "ACTIVE", "SCHEDULED", "ARCHIVED", "RETIRED"}
Docs     == Workflows \cup Forms
RevsIn(D) == UNION {{d} \X (1 .. MaxRevisions[d]) : d \in D}
Revs     == RevsIn(Docs)
Absent   == <<"none", 0>>

ASSUME PublishingAssumption ==
  /\ MaxRevisions \in [Docs -> Nat \ {0}] /\ MaxApps \in Nat
  /\ Workflows \cap Forms = {}
  /\ Chosen \subseteq States \cup {"KEEP"}
  /\ Racing \subseteq Kinds
  /\ "none" \notin Docs

VARIABLES
  docs,      \* the workflows and forms that are not deleted
  state,     \* of each revision
  version,
  bindings,  \* rows of form_workflow_bindings
  apps,      \* applications: the flow revision and the form revision of each
  pc,        \* how far each request is
  request    \* what it asks for and what it has read

tables == <<docs, state, version, bindings, apps>>
vars   == <<docs, state, version, bindings, apps, pc, request>>

Application == [flow : RevsIn(Workflows), form : RevsIn(Forms) \cup {Absent}]

Request(kind, of, with, status) ==
  [kind |-> kind, rev |-> of, with |-> with, status |-> status, version |-> 0, archive |-> {}]

NoRequest == Request("create", Absent, Absent, "KEEP")

Slots == Revs \cup (Docs \X {0}) \cup {Absent}

TypeOK ==
  /\ docs \subseteq Docs
  /\ state \in [Revs -> States \cup {"none", "deleted"}]
  /\ version \in [Revs -> Nat]
  /\ bindings \subseteq Workflows \X Forms
  /\ apps \subseteq Application
  /\ pc \in [Requests -> {"idle", "checked", "prepared", "byWorkflow", "byForm"}]
  /\ request \in [Requests ->
       [kind : Kinds, rev : Slots, with : Slots, status : Chosen \cup {"KEEP"},
        version : Nat, archive : SUBSET Revs]]

Exists(r)   == state[r] \in States
RevsOf(d)   == {r \in RevsIn({d}) : Exists(r)}
ActiveOf(d) == {r \in RevsOf(d) : state[r] = "ACTIVE"}
Unused(d)   == {i \in 1 .. MaxRevisions[d] : state[<<d, i>>] = "none"}

(* The revisions that may be read first where they are read by version.    *)
Latest(S) == {r \in S : \A s \in S : version[s] <= version[r]}

(* createWorkflow and createForm make a first draft.                       *)
Init ==
  /\ docs = Docs
  /\ state = [r \in Revs |-> IF r[2] = 1 THEN "DRAFT" ELSE "none"]
  /\ version = [r \in Revs |-> IF r[2] = 1 THEN 1 ELSE 0]
  /\ bindings = {} /\ apps = {}
  /\ pc = [q \in Requests |-> "idle"]
  /\ request = [q \in Requests |-> NoRequest]

--------------------------------------------------------------------------------
(* A request is begun and checked.                                         *)

(* A bound of the model: only kinds in Racing overtake others.             *)
MayBegin(kind) ==
  kind \in Racing \/ \A q \in Requests : pc[q] # "idle" => request[q].kind \in Racing

Begin(q, r) ==
  /\ pc[q] = "idle" /\ MayBegin(r.kind)
  /\ pc' = [pc EXCEPT ![q] = "checked"]
  /\ request' = [request EXCEPT ![q] = r]
  /\ UNCHANGED tables

(* A flow needs a bound form, and to be used an active revision of it.     *)
validateWorkflowRevision(d, status) ==
  d \in Workflows =>
    \E b \in bindings : b[1] = d /\ (status \in {"ACTIVE", "SCHEDULED"} => ActiveOf(b[2]) # {})

CreateRevision(q, d, status) ==
  /\ d \in docs
  /\ validateWorkflowRevision(d, status)
  /\ Begin(q, Request("create", <<d, 0>>, Absent, status))

(* Mutant: the state of the revision is not asked for.                     *)
UpdateRevision_AnyState(q, r, status) ==
  /\ Exists(r)
  /\ validateWorkflowRevision(r[1], status)
  /\ Begin(q, Request("update", r, Absent, status))

UpdateRevision(q, r, status) ==
  /\ Exists(r) /\ state[r] = "DRAFT"
  /\ validateWorkflowRevision(r[1], status)
  /\ Begin(q, Request("update", r, Absent, status))

(* The exact pair is looked for.                                           *)
Bind(q, w, f) ==
  /\ {w, f} \subseteq docs /\ RevsOf(f) # {}
  /\ <<w, f>> \notin bindings
  /\ Begin(q, Request("bind", <<w, 0>>, <<f, 0>>, "KEEP"))

(* Of the workflow and the form of a binding.                              *)
findLatestApplicationRevision(q, b) ==
  /\ Cardinality(apps) < MaxApps
  /\ \E r \in Latest(ActiveOf(b[1])), s \in Latest(ActiveOf(b[2])) :
       Begin(q, Request("start", r, s, "KEEP"))

--------------------------------------------------------------------------------
(* It writes.                                                              *)

End(q) ==
  /\ pc' = [pc EXCEPT ![q] = "idle"]
  /\ request' = [request EXCEPT ![q] = NoRequest]

(* The server dies, or the transaction is rolled back.                     *)
Fail(q) == pc[q] # "idle" /\ End(q) /\ UNCHANGED tables

(* One more than the latest version that is there.                         *)
NextVersion(d) ==
  IF RevsOf(d) = {} THEN {1} ELSE {version[r] + 1 : r \in Latest(RevsOf(d))}

(* Mutant: the new revision does not replace the others.                   *)
Archives_Never(r) == FALSE

(* Mutant: a draft replaces the others as well.                            *)
Archives_Always(r) == TRUE

(* A new revision of a form replaces the others, one of a workflow and one *)
(* that is changed only if it is to be active.                             *)
Archives(r) == r.status = "ACTIVE" \/ (r.kind = "create" /\ r.rev[1] \in Forms)

(* The rows the statement finds: active and committed.                     *)
ToArchive(r) == IF Archives(r) THEN ActiveOf(r.rev[1]) \ {r.rev} ELSE {}

(* Only what is committed is seen.  A revision of a form takes over from   *)
(* the latest one.                                                         *)
Prepare(q) ==
  LET r == request[q] IN
  /\ pc[q] = "checked" /\ r.kind \in {"create", "update"}
  /\ r.kind = "create" /\ r.rev[1] \in Forms => RevsOf(r.rev[1]) # {}
  /\ pc' = [pc EXCEPT ![q] = "prepared"]
  /\ \E v \in IF r.kind = "create" THEN NextVersion(r.rev[1]) ELSE {0} :
       request' = [request EXCEPT ![q].version = v, ![q].archive = ToArchive(r)]
  /\ UNCHANGED tables

(* The state that is written; a form writes the one that was read.         *)
NewState(r) ==
  IF r.status # "KEEP" THEN r.status
  ELSE IF r.kind = "create" \/ r.rev[1] \in Forms THEN "DRAFT"
  ELSE state[r.rev]

(* The row that is written; it may have been deleted since it was read.    *)
Written(r) ==
  IF r.kind = "update" THEN {s \in {r.rev} : Exists(s)}
  ELSE {s \in RevsIn({r.rev[1]} \cap docs) :
          s[2] \in Unused(s[1]) /\ \A i \in Unused(s[1]) : s[2] <= i}

Commit(q) ==
  LET r == request[q] IN
  /\ pc[q] = "prepared"
  /\ \E w \in Written(r) :
       /\ state' = [s \in Revs |->
            IF s = w THEN NewState(r)
            ELSE IF s \in r.archive /\ state[s] = "ACTIVE"
                 THEN "ARCHIVED" ELSE state[s]]
       /\ version' = IF r.kind = "create" THEN [version EXCEPT ![w] = r.version] ELSE version
  /\ End(q)
  /\ UNCHANGED <<docs, bindings, apps>>

(* A binding: each statement is committed by itself.                       *)
Bound(q, from, to, rows) ==
  /\ pc[q] = from /\ request[q].kind = "bind"
  /\ bindings' = rows
  /\ pc' = [pc EXCEPT ![q] = to]
  /\ UNCHANGED <<docs, state, version, apps, request>>

deleteByWorkflowId(q) ==
  Bound(q, "checked", "byWorkflow", {b \in bindings : b[1] # request[q].rev[1]})

deleteByFormId(q) ==
  Bound(q, "byWorkflow", "byForm", {b \in bindings : b[2] # request[q].with[1]})

createBinding(q) ==
  LET w == request[q].rev[1]  f == request[q].with[1] IN
  /\ pc[q] = "byForm" /\ {w, f} \subseteq docs
  /\ bindings' = bindings \cup {<<w, f>>}
  /\ End(q)
  /\ UNCHANGED <<docs, state, version, apps>>

(* Mutant: the revisions need not be there any more.                       *)
createInstanceData_Unchecked(q) ==
  /\ pc[q] = "checked" /\ request[q].kind = "start"
  /\ apps' = apps \cup {[flow |-> request[q].rev, form |-> request[q].with]}
  /\ End(q)
  /\ UNCHANGED <<docs, state, version, bindings>>

(* The instances refer to the revisions that were read.                    *)
createInstanceData(q) ==
  /\ pc[q] = "checked" /\ request[q].kind = "start"
  /\ Exists(request[q].rev) /\ Exists(request[q].with)
  /\ apps' = apps \cup {[flow |-> request[q].rev, form |-> request[q].with]}
  /\ End(q)
  /\ UNCHANGED <<docs, state, version, bindings>>

--------------------------------------------------------------------------------
(* Deletion, each in one transaction.                                      *)

(* With a flow revision its applications are deleted; with a form revision *)
(* only the form instances, and the applications are left without a form.  *)
Without(gone) ==
  {[a EXCEPT !.form = IF @ \in gone THEN Absent ELSE @] : a \in {c \in apps : c.flow \notin gone}}

Delete(gone) ==
  /\ state' = [r \in Revs |-> IF r \in gone THEN "deleted" ELSE state[r]]
  /\ version' = [r \in Revs |-> IF r \in gone THEN 0 ELSE version[r]]
  /\ apps' = Without(gone)
  /\ UNCHANGED <<pc, request>>

deleteRevision(r) == Exists(r) /\ Delete({r}) /\ UNCHANGED <<docs, bindings>>

deleteDoc(d) ==
  /\ d \in docs
  /\ docs' = docs \ {d}
  /\ bindings' = {b \in bindings : d \notin {b[1], b[2]}}
  /\ Delete(RevsOf(d))

deleteBinding(b) ==
  /\ b \in bindings
  /\ bindings' = bindings \ {b}
  /\ UNCHANGED <<docs, state, version, apps, pc, request>>

--------------------------------------------------------------------------------
Next ==
  \/ \E q \in Requests :
       \/ \E d \in Docs, status \in Chosen : CreateRevision(q, d, status)
       \/ \E r \in Revs, status \in Chosen : UpdateRevision(q, r, status)
       \/ \E w \in Workflows, f \in Forms : Bind(q, w, f)
       \/ \E b \in bindings : findLatestApplicationRevision(q, b)
       \/ Prepare(q) \/ Commit(q) \/ Fail(q)
       \/ deleteByWorkflowId(q) \/ deleteByFormId(q) \/ createBinding(q)
       \/ createInstanceData(q)
  \/ \E r \in Revs : deleteRevision(r)
  \/ \E d \in Docs : deleteDoc(d)
  \/ \E b \in bindings : deleteBinding(b)

Spec == Init /\ [][Next]_vars

--------------------------------------------------------------------------------
(* One revision of a workflow or form is in use at a time: each way to make*)
(* one active archives the others in the same transaction.                 *)
OneActive == \A d \in Docs : \A r, s \in ActiveOf(d) : r = s

(* No two revisions have the same version, also when the latest one was    *)
(* deleted: createWorkflowRevision and createFormRevision number them.     *)
VersionsDistinct == \A d \in Docs : \A r, s \in RevsOf(d) : version[r] = version[s] => r = s

(* A workflow and a form are each in one binding at most, although the     *)
(* three writes of a new one may be cut off between any two.               *)
OneBinding ==
  \A b, c \in bindings : b[1] = c[1] \/ b[2] = c[2] => b = c

(* The tables agree with themselves after every write.                     *)
Consistent == TypeOK /\ OneActive /\ VersionsDistinct /\ OneBinding

(* An application has the revision of the flow it runs by, although it is  *)
(* looked up before the instance is created and may be deleted in between. *)
AppsHaveFlow == \A a \in apps : Exists(a.flow)

(* The flow of an application does not change under it, whoever edits the  *)
(* workflow meanwhile: no update that is under way writes the definition   *)
(* of a revision an application was started from.                          *)
AppsKeepTheirFlow ==
  \A q \in Requests, a \in apps :
    pc[q] # "idle" /\ request[q].kind = "update" => request[q].rev \notin {a.flow, a.form}

(* A workflow that applicants can use stays usable until its active        *)
(* revision is deleted: another one takes over in the same step.           *)
StaysPublished ==
  [][\A w \in Workflows : ActiveOf(w) # {} =>
       ActiveOf(w)' # {} \/ \E r \in ActiveOf(w) : state'[r] = "deleted"]_vars

================================================================================
