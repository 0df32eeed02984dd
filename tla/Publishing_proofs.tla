--------------------------- MODULE Publishing_proofs ---------------------------
(***************************************************************************)
(* What holds of Publishing for any workflows, forms and requests: some of *)
(* it whatever they overtake, the rest where only applicants do.           *)
(***************************************************************************)
EXTENDS Publishing, TLAPS

RequestType ==
  [kind : Kinds, rev : Slots, with : Slots, status : Chosen \cup {"KEEP"},
   version : Nat, archive : SUBSET Revs]

(* What a request is about is of its kind.                                 *)
About ==
  \A q \in Requests : pc[q] # "idle" =>
    /\ request[q].kind = "create" => request[q].rev[1] \in Docs /\ request[q].rev \notin Revs
    /\ request[q].kind = "update" => request[q].rev \in Revs
    /\ request[q].kind = "bind"   => request[q].rev[1] \in Workflows /\ request[q].with[1] \in Forms
    /\ request[q].kind = "start"  => request[q].rev \in RevsIn(Workflows) /\ request[q].with \in RevsIn(Forms)
    /\ pc[q] = "prepared" => request[q].kind \in {"create", "update"}
    /\ pc[q] \in {"byWorkflow", "byForm"} => request[q].kind = "bind"

(* Nothing that was used becomes a draft or unused again.                  *)
Used(r) == state[r] \notin {"DRAFT", "none"}

IInv == TypeOK /\ About /\ AppsHaveFlow

USE PublishingAssumption DEF Kinds, States, Docs

LEMMA RevsIn1 ==
  ASSUME NEW D \in SUBSET Docs, NEW r
  PROVE  r \in RevsIn(D) <=> \E d \in D : \E i \in 1 .. MaxRevisions[d] : r = <<d, i>>
  BY DEF RevsIn

LEMMA RevsFacts ==
  /\ \A D \in SUBSET Docs : RevsIn(D) \subseteq Revs
  /\ \A D \in SUBSET Docs : \A r \in RevsIn(D) : r[1] \in D /\ r \in RevsIn({r[1]})
  /\ \A d, e \in Docs : \A r \in RevsIn({d}) : r \in RevsIn({e}) => d = e
  BY RevsIn1 DEF Revs

LEMMA NoRequestType == NoRequest \in RequestType
  BY DEF NoRequest, Request, RequestType, Slots, Absent

LEMMA InitIInv == Init => IInv
  <1> SUFFICES ASSUME Init PROVE IInv
    OBVIOUS
  <1>1. state \in [Revs -> States \cup {"none", "deleted"}] /\ version \in [Revs -> Nat]
    BY DEF Init
  <1>2. TypeOK
    BY <1>1, NoRequestType DEF Init, TypeOK, RequestType
  <1>3. About /\ AppsHaveFlow
    BY DEF Init, About, AppsHaveFlow
  <1> QED BY <1>2, <1>3 DEF IInv

--------------------------------------------------------------------------------
LEMMA BeginKeeps ==
  ASSUME IInv, NEW q \in Requests, NEW r \in RequestType, Begin(q, r),
         r.kind = "create" => r.rev[1] \in Docs /\ r.rev \notin Revs,
         r.kind = "update" => r.rev \in Revs,
         r.kind = "bind" => r.rev[1] \in Workflows /\ r.with[1] \in Forms,
         r.kind = "start" => r.rev \in RevsIn(Workflows) /\ r.with \in RevsIn(Forms)
  PROVE  IInv'
  <1>1. TypeOK'
    BY DEF Begin, IInv, TypeOK, RequestType, tables
  <1>2. About'
    BY DEF Begin, IInv, TypeOK, About, tables
  <1>3. AppsHaveFlow'
    BY DEF Begin, IInv, AppsHaveFlow, Exists, tables
  <1> QED BY <1>1, <1>2, <1>3 DEF IInv

LEMMA EndTyped ==
  ASSUME IInv, NEW q \in Requests, End(q)
  PROVE  /\ pc' \in [Requests -> {"idle", "checked", "prepared", "byWorkflow", "byForm"}]
         /\ request' \in [Requests -> RequestType]
         /\ About'
  <1>1. /\ pc \in [Requests -> {"idle", "checked", "prepared", "byWorkflow", "byForm"}]
        /\ request \in [Requests -> RequestType]
    BY DEF IInv, TypeOK, RequestType
  <1>2. \A p \in Requests : p # q => pc'[p] = pc[p] /\ request'[p] = request[p]
    BY <1>1 DEF End
  <1>3. About'
    BY <1>1, <1>2 DEF End, IInv, About
  <1> QED BY <1>1, <1>3, NoRequestType DEF End

LEMMA PrepareKeeps ==
  ASSUME IInv, NEW q \in Requests, Prepare(q) PROVE IInv'
  <1>1. request[q] \in RequestType /\ request \in [Requests -> RequestType] /\ version \in [Revs -> Nat]
    BY DEF IInv, TypeOK, RequestType
  <1>2. PICK v \in IF request[q].kind = "create" THEN NextVersion(request[q].rev[1]) ELSE {0} :
          request' = [request EXCEPT ![q].version = v, ![q].archive = ToArchive(request[q])]
    BY DEF Prepare
  <1>3. request[q].rev[1] \in Docs
    <2>1. CASE request[q].kind = "create"
      BY <2>1 DEF Prepare, IInv, About
    <2>2. CASE request[q].kind = "update"
      BY <2>2, RevsFacts DEF Prepare, IInv, About, Revs
    <2> QED BY <2>1, <2>2 DEF Prepare
  <1>4. RevsOf(request[q].rev[1]) \subseteq Revs
    BY <1>3, RevsFacts DEF RevsOf
  <1>5. v \in Nat
    BY <1>1, <1>4 DEF NextVersion, Latest
  <1>6. ToArchive(request[q]) \subseteq Revs
    BY <1>4 DEF ToArchive, ActiveOf
  <1>7. request' \in [Requests -> RequestType]
    BY <1>1, <1>2, <1>5, <1>6 DEF RequestType
  <1>8. TypeOK'
    BY <1>7 DEF Prepare, IInv, TypeOK, RequestType, tables
  <1>9. About'
    BY <1>1, <1>2 DEF Prepare, IInv, TypeOK, About, RequestType
  <1>10. AppsHaveFlow'
    BY DEF Prepare, IInv, AppsHaveFlow, Exists, tables
  <1> QED BY <1>8, <1>9, <1>10 DEF IInv

(* The state that is written exists, and the row is one that there may be. *)
LEMMA CommitWrites ==
  ASSUME IInv, NEW q \in Requests, pc[q] = "prepared", NEW w \in Written(request[q])
  PROVE  /\ w \in Revs /\ NewState(request[q]) \in States
         /\ request[q].kind = "update" => w = request[q].rev /\ Exists(w)
         /\ request[q].kind = "create" => w[1] = request[q].rev[1] /\ state[w] = "none"
  <1>1. request[q].kind \in {"create", "update"} /\ request[q].status \in Chosen \cup {"KEEP"}
    BY DEF IInv, About, TypeOK
  <1>2. CASE request[q].kind = "update"
    <2>1. w = request[q].rev /\ Exists(w) /\ w \in Revs
      BY <1>2 DEF Written, IInv, About
    <2> QED BY <1>1, <1>2, <2>1 DEF NewState, Exists
  <1>3. CASE request[q].kind = "create"
    <2>1. request[q].rev[1] \in Docs
      BY <1>3 DEF IInv, About
    <2>2. w \in RevsIn({request[q].rev[1]} \cap docs) /\ w[2] \in Unused(w[1])
      BY <1>3 DEF Written
    <2>3. w \in Revs /\ w[1] = request[q].rev[1] /\ w = <<w[1], w[2]>>
      BY <2>1, <2>2, RevsIn1, RevsFacts DEF Revs, IInv, TypeOK
    <2>4. state[w] = "none"
      BY <2>2, <2>3 DEF Unused
    <2> QED BY <1>1, <1>3, <2>3, <2>4 DEF NewState
  <1> QED BY <1>1, <1>2, <1>3

LEMMA CommitKeeps ==
  ASSUME IInv, NEW q \in Requests, Commit(q) PROVE IInv'
  <1>1. PICK w \in Written(request[q]) :
          /\ state' = [s \in Revs |->
               IF s = w THEN NewState(request[q])
               ELSE IF s \in request[q].archive /\ state[s] = "ACTIVE" THEN "ARCHIVED" ELSE state[s]]
          /\ version' = IF request[q].kind = "create"
                        THEN [version EXCEPT ![w] = request[q].version] ELSE version
    BY DEF Commit
  <1>2. w \in Revs /\ NewState(request[q]) \in States
    BY CommitWrites DEF Commit
  <1>3. state' \in [Revs -> States \cup {"none", "deleted"}] /\ version' \in [Revs -> Nat]
    BY <1>1, <1>2 DEF IInv, TypeOK
  <1>4. TypeOK'
    BY <1>3, EndTyped DEF Commit, IInv, TypeOK, RequestType
  <1>5. AppsHaveFlow'
    <2> SUFFICES ASSUME NEW a \in apps PROVE Exists(a.flow)'
      BY DEF AppsHaveFlow, Commit
    <2>1. a.flow \in Revs /\ Exists(a.flow)
      BY RevsFacts DEF IInv, TypeOK, Application, AppsHaveFlow
    <2> QED BY <1>1, <1>2, <2>1 DEF Exists
  <1> QED BY <1>4, <1>5, EndTyped DEF Commit, IInv

LEMMA BoundKeeps ==
  ASSUME IInv, NEW q \in Requests, NEW from, NEW to \in {"byWorkflow", "byForm"},
         NEW rows \in SUBSET bindings, Bound(q, from, to, rows), from # "idle"
  PROVE  IInv'
  <1>1. TypeOK'
    BY DEF Bound, IInv, TypeOK
  <1>2. About' /\ AppsHaveFlow'
    BY DEF Bound, IInv, TypeOK, About, AppsHaveFlow, Exists
  <1> QED BY <1>1, <1>2 DEF IInv

LEMMA CreateBindingKeeps ==
  ASSUME IInv, NEW q \in Requests, createBinding(q) PROVE IInv'
  <1>1. request[q].rev[1] \in Workflows /\ request[q].with[1] \in Forms
    BY DEF createBinding, IInv, About
  <1>2. TypeOK'
    BY <1>1, EndTyped DEF createBinding, IInv, TypeOK, RequestType
  <1>3. AppsHaveFlow'
    BY DEF createBinding, IInv, AppsHaveFlow, Exists
  <1> QED BY <1>2, <1>3, EndTyped DEF createBinding, IInv

LEMMA StartKeeps ==
  ASSUME IInv, NEW q \in Requests, createInstanceData(q) PROVE IInv'
  <1>1. request[q].rev \in RevsIn(Workflows) /\ request[q].with \in RevsIn(Forms)
    BY DEF createInstanceData, IInv, About
  <1>2. TypeOK'
    BY <1>1, EndTyped DEF createInstanceData, IInv, TypeOK, RequestType, Application
  <1>3. AppsHaveFlow'
    BY DEF createInstanceData, IInv, AppsHaveFlow, Exists
  <1> QED BY <1>2, <1>3, EndTyped DEF createInstanceData, IInv

LEMMA DeleteKeeps ==
  ASSUME IInv, NEW gone, Delete(gone), docs' \subseteq docs, bindings' \subseteq bindings
  PROVE  IInv'
  <1>1. \A a \in apps' : \E c \in apps : c.flow \notin gone /\ a.flow = c.flow
                                        /\ ((a.form = c.form /\ c.form \notin gone) \/ a.form = Absent)
                                        /\ a \in Application
    BY DEF Delete, Without, IInv, TypeOK, Application
  <1>2. TypeOK'
    BY <1>1 DEF Delete, IInv, TypeOK
  <1>3. About'
    BY DEF Delete, IInv, About
  <1>4. AppsHaveFlow'
    <2> SUFFICES ASSUME NEW a \in apps' PROVE Exists(a.flow)'
      BY DEF AppsHaveFlow
    <2>1. a.flow \notin gone /\ a.flow \in Revs /\ Exists(a.flow)
      BY <1>1, RevsFacts DEF IInv, TypeOK, Application, AppsHaveFlow
    <2> QED BY <2>1 DEF Delete, Exists
  <1> QED BY <1>2, <1>3, <1>4 DEF IInv

LEMMA NextIInv == IInv /\ [Next]_vars => IInv'
  <1> SUFFICES ASSUME IInv, [Next]_vars PROVE IInv'
    OBVIOUS
  <1>1. ASSUME NEW q \in Requests, NEW d \in Docs, NEW status \in Chosen, CreateRevision(q, d, status)
        PROVE  IInv'
    <2>1. Request("create", <<d, 0>>, Absent, status) \in RequestType
      BY DEF Request, RequestType, Slots
    <2>2. <<d, 0>> \notin Revs
      BY RevsIn1 DEF Revs
    <2> QED BY <1>1, <2>1, <2>2, BeginKeeps DEF CreateRevision, Request
  <1>2. ASSUME NEW q \in Requests, NEW r \in Revs, NEW status \in Chosen, UpdateRevision(q, r, status)
        PROVE  IInv'
    <2>1. Request("update", r, Absent, status) \in RequestType
      BY DEF Request, RequestType, Slots
    <2> QED BY <1>2, <2>1, BeginKeeps DEF UpdateRevision, Request
  <1>3. ASSUME NEW q \in Requests, NEW w \in Workflows, NEW f \in Forms, Bind(q, w, f) PROVE IInv'
    <2>1. Request("bind", <<w, 0>>, <<f, 0>>, "KEEP") \in RequestType
      BY DEF Request, RequestType, Slots
    <2> QED BY <1>3, <2>1, BeginKeeps DEF Bind, Request
  <1>4. ASSUME NEW q \in Requests, NEW b \in bindings, findLatestApplicationRevision(q, b) PROVE IInv'
    <2>1. PICK r \in Latest(ActiveOf(b[1])), s \in Latest(ActiveOf(b[2])) :
            Begin(q, Request("start", r, s, "KEEP"))
      BY <1>4 DEF findLatestApplicationRevision
    <2>2. b[1] \in Workflows /\ b[2] \in Forms
      BY DEF IInv, TypeOK
    <2>3. r \in RevsIn({b[1]}) /\ s \in RevsIn({b[2]})
      BY DEF Latest, ActiveOf, RevsOf
    <2>4. r \in RevsIn(Workflows) /\ s \in RevsIn(Forms) /\ r \in Revs /\ s \in Revs
      BY <2>2, <2>3, RevsIn1, RevsFacts
    <2>5. Request("start", r, s, "KEEP") \in RequestType
      BY <2>4 DEF Request, RequestType, Slots
    <2> QED BY <2>1, <2>4, <2>5, BeginKeeps DEF Request
  <1>5. ASSUME NEW q \in Requests, Fail(q) PROVE IInv'
    <2>1. TypeOK'
      BY <1>5, EndTyped DEF Fail, tables, IInv, TypeOK, RequestType
    <2> QED BY <1>5, <2>1, EndTyped DEF Fail, tables, IInv, AppsHaveFlow, Exists
  <1>6. ASSUME NEW q \in Requests, deleteByWorkflowId(q) \/ deleteByFormId(q) PROVE IInv'
    <2>1. CASE deleteByWorkflowId(q)
      <3> DEFINE rows == {b \in bindings : b[1] # request[q].rev[1]}
      <3>1. rows \in SUBSET bindings /\ Bound(q, "checked", "byWorkflow", rows)
        BY <2>1 DEF deleteByWorkflowId
      <3> HIDE DEF rows
      <3> QED BY <3>1, BoundKeeps
    <2>2. CASE deleteByFormId(q)
      <3> DEFINE rows == {b \in bindings : b[2] # request[q].with[1]}
      <3>1. rows \in SUBSET bindings /\ Bound(q, "byWorkflow", "byForm", rows)
        BY <2>2 DEF deleteByFormId
      <3> HIDE DEF rows
      <3> QED BY <3>1, BoundKeeps
    <2> QED BY <1>6, <2>1, <2>2
  <1>7. ASSUME NEW r \in Revs, deleteRevision(r) PROVE IInv'
    BY <1>7, DeleteKeeps DEF deleteRevision
  <1>8. ASSUME NEW d \in Docs, deleteDoc(d) PROVE IInv'
    BY <1>8, DeleteKeeps DEF deleteDoc
  <1>9. ASSUME NEW b \in bindings, deleteBinding(b) PROVE IInv'
    BY <1>9 DEF deleteBinding, IInv, TypeOK, About, AppsHaveFlow, Exists
  <1>10. CASE UNCHANGED vars
    BY <1>10 DEF vars, IInv, TypeOK, About, AppsHaveFlow, Exists
  <1> QED
    BY <1>1, <1>2, <1>3, <1>4, <1>5, <1>6, <1>7, <1>8, <1>9, <1>10,
       PrepareKeeps, CommitKeeps, CreateBindingKeeps, StartKeeps
    DEF Next

(* The tables and the requests are always what they may be.                *)
THEOREM TypeCorrect == Spec => []TypeOK
  <1>1. IInv => TypeOK
    BY DEF IInv
  <1> QED BY <1>1, InitIInv, NextIInv, PTL DEF Spec

(* Whatever overtakes the start of an application, it has its flow: the    *)
(* reference in the row is enough, and a deletion takes both.              *)
THEOREM FlowIsThere == Spec => []AppsHaveFlow
  <1>1. IInv => AppsHaveFlow
    BY DEF IInv
  <1> QED BY <1>1, InitIInv, NextIInv, PTL DEF Spec

--------------------------------------------------------------------------------
(* Where an editor is overtaken by applicants and by deletions only.       *)

OnlyStartsRace == Racing \subseteq {"start"}

Alone ==
  \A q, p \in Requests : pc[q] # "idle" /\ pc[p] # "idle" /\ q # p =>
    request[q].kind = "start" \/ request[p].kind = "start"

(* A draft that is changed stays one, and what is started from was in use, *)
(* as is what an application was started from.                             *)
Apart(q) ==
  /\ request[q].kind = "update" => state[request[q].rev] \in {"DRAFT", "deleted"}
  /\ request[q].kind = "start" => Used(request[q].rev) /\ Used(request[q].with)

AppsUsed ==
  \A a \in apps : /\ Exists(a.flow) /\ Used(a.flow)
                  /\ a.form # Absent => Exists(a.form) /\ Used(a.form)

(* What a transaction has found to archive is all there is to archive, and *)
(* the version it has found for a new revision is a new one.               *)
Covers(q) ==
  Archives(request[q]) =>
    \A s \in Revs : s[1] = request[q].rev[1] /\ state[s] = "ACTIVE" =>
                     s = request[q].rev \/ s \in request[q].archive

Replaces(q) ==
  \A s \in request[q].archive : Archives(request[q]) /\ s[1] = request[q].rev[1]

Newest(q) ==
  request[q].kind = "create" =>
    \A s \in Revs : s[1] = request[q].rev[1] /\ Exists(s) => version[s] < request[q].version

(* What the first two writes of a binding have deleted stays deleted.      *)
CutOff(q) ==
  /\ pc[q] \in {"byWorkflow", "byForm"} => \A b \in bindings : b[1] # request[q].rev[1]
  /\ pc[q] = "byForm" => \A b \in bindings : b[2] # request[q].with[1]

(* What a request that is under way may rely on.                           *)
Relies(q) ==
  /\ pc[q] # "idle" => Apart(q)
  /\ pc[q] = "prepared" => Covers(q) /\ Replaces(q) /\ Newest(q)
  /\ CutOff(q)

(* OneActive and VersionsDistinct, said of all rows.                       *)
ActiveOnce ==
  \A r, s \in Revs : r[1] = s[1] /\ state[r] = "ACTIVE" /\ state[s] = "ACTIVE" => r = s

VersionOnce ==
  \A r, s \in Revs : r[1] = s[1] /\ Exists(r) /\ Exists(s) /\ version[r] = version[s] => r = s

Rows == ActiveOnce /\ VersionOnce

SInv ==
  IInv /\ Alone /\ AppsUsed /\ Rows /\ OneBinding /\ \A q \in Requests : Relies(q)

LEMMA RowsOf ==
  \A d \in Docs : \A r : r \in RevsOf(d) <=> r \in Revs /\ r[1] = d /\ Exists(r)
  <1> SUFFICES ASSUME NEW d \in Docs, NEW r
               PROVE  r \in RevsIn({d}) <=> r \in Revs /\ r[1] = d
    BY DEF RevsOf
  <1>1. {d} \in SUBSET Docs
    OBVIOUS
  <1>2. r \in RevsIn({d}) => r \in Revs /\ r[1] = d
    BY <1>1, RevsFacts
  <1>3. r \in Revs /\ r[1] = d => r \in RevsIn({d})
    BY RevsFacts DEF Revs
  <1> QED BY <1>2, <1>3

LEMMA SaidOfAllRows == (ActiveOnce => OneActive) /\ (VersionOnce => VersionsDistinct)
  BY RowsOf DEF ActiveOnce, OneActive, VersionOnce, VersionsDistinct, ActiveOf, Exists

LEMMA InitSInv == Init => SInv
  <1> SUFFICES ASSUME Init PROVE SInv
    OBVIOUS
  <1>1. \A r \in Revs : r = <<r[1], r[2]>>
    BY RevsIn1 DEF Revs
  <1>2. Rows
    BY <1>1 DEF Init, Rows, ActiveOnce, VersionOnce, Exists
  <1>3. Alone /\ AppsUsed /\ OneBinding /\ \A q \in Requests : Relies(q)
    BY DEF Init, Alone, AppsUsed, Relies, CutOff, OneBinding
  <1> QED BY <1>2, <1>3, InitIInv DEF SInv

(* What another request relies on is kept while the rows and bindings are. *)
LEMMA OthersRely ==
  ASSUME SInv, UNCHANGED <<state, version>>, NEW p \in Requests,
         pc'[p] = pc[p], request'[p] = request[p]
  PROVE  /\ pc[p] # "idle" => Apart(p)'
         /\ pc[p] = "prepared" => Covers(p)' /\ Replaces(p)' /\ Newest(p)'
         /\ bindings' \subseteq bindings => Relies(p)'
  <1>1. pc[p] # "idle" => Apart(p)'
    BY DEF SInv, Relies, Apart, Used
  <1>2. pc[p] = "prepared" => Covers(p)'
    BY DEF SInv, Relies, Covers, Archives
  <1>3. pc[p] = "prepared" => Replaces(p)'
    BY DEF SInv, Relies, Replaces, Archives
  <1>4. pc[p] = "prepared" => Newest(p)'
    BY DEF SInv, Relies, Newest, Exists
  <1>5. bindings' \subseteq bindings => CutOff(p)'
    BY DEF SInv, Relies, CutOff
  <1> QED BY <1>1, <1>2, <1>3, <1>4, <1>5 DEF Relies

LEMMA RowsKept ==
  ASSUME SInv, UNCHANGED <<state, version>>
  PROVE  Rows' /\ (UNCHANGED apps => AppsUsed') /\ (bindings' \subseteq bindings => OneBinding')
  BY DEF SInv, Rows, ActiveOnce, VersionOnce, OneBinding, AppsUsed, Exists, Used

(* At most one of the requests under way is not the start of an application*)
LEMMA AloneKept ==
  ASSUME SInv, NEW q \in Requests, pc[q] # "idle",
         \A p \in Requests : p # q => pc'[p] = pc[p] /\ request'[p] = request[p],
         pc'[q] # "idle" => request'[q].kind = request[q].kind
  PROVE  Alone'
  BY DEF SInv, Alone

LEMMA EditsAlone ==
  ASSUME SInv, NEW q \in Requests, pc[q] # "idle", request[q].kind # "start",
         NEW p \in Requests, p # q, pc[p] # "idle"
  PROVE  request[p].kind = "start" /\ pc[p] \notin {"prepared", "byWorkflow", "byForm"}
  BY DEF SInv, Alone, IInv, About

LEMMA Others ==
  ASSUME SInv, NEW q \in Requests, NEW v, NEW r,
         pc' = [pc EXCEPT ![q] = v], request' = [request EXCEPT ![q] = r] \/ UNCHANGED request
  PROVE  /\ \A p \in Requests : p # q => pc'[p] = pc[p] /\ request'[p] = request[p]
         /\ pc'[q] = v
  BY DEF SInv, IInv, TypeOK

LEMMA BeginSInv ==
  ASSUME OnlyStartsRace, SInv, IInv', NEW q \in Requests, NEW r, Begin(q, r),
         r.kind = "update" => state[r.rev] = "DRAFT",
         r.kind = "start" => Used(r.rev) /\ Used(r.with)
  PROVE  SInv'
  <1>1. /\ \A p \in Requests : p # q => pc'[p] = pc[p] /\ request'[p] = request[p]
        /\ pc'[q] = "checked" /\ request'[q] = r
    BY DEF Begin, SInv, IInv, TypeOK
  <1>2. \A p \in Requests : pc[p] # "idle" => r.kind = "start" \/ request[p].kind = "start"
    BY DEF Begin, MayBegin, OnlyStartsRace
  <1>3. Alone'
    <2> SUFFICES ASSUME NEW p \in Requests, NEW o \in Requests, p # o,
                        pc'[p] # "idle", pc'[o] # "idle"
                 PROVE  request'[p].kind = "start" \/ request'[o].kind = "start"
      BY DEF Alone
    <2> QED BY <1>1, <1>2 DEF Alone, SInv
  <1>4. ASSUME NEW p \in Requests PROVE Relies(p)'
    <2>1. CASE p = q
      BY <2>1, <1>1 DEF Relies, Apart, CutOff, Used, Begin, tables
    <2>2. CASE p # q
      BY <2>2, <1>1, OthersRely DEF Begin, tables
    <2> QED BY <2>1, <2>2
  <1> QED BY <1>3, <1>4, RowsKept DEF SInv, Begin, tables

LEMMA FailSInv ==
  ASSUME SInv, IInv', NEW q \in Requests, Fail(q) PROVE SInv'
  <1>1. /\ \A p \in Requests : p # q => pc'[p] = pc[p] /\ request'[p] = request[p]
        /\ pc'[q] = "idle"
    BY Others DEF Fail, End
  <1>2. ASSUME NEW p \in Requests PROVE Relies(p)'
    <2>1. CASE p = q
      BY <2>1, <1>1 DEF Relies, CutOff
    <2>2. CASE p # q
      BY <2>2, <1>1, OthersRely DEF Fail, tables
    <2> QED BY <2>1, <2>2
  <1> QED BY <1>1, <1>2, RowsKept, AloneKept DEF SInv, Fail, tables

LEMMA PrepareSInv ==
  ASSUME SInv, IInv', NEW q \in Requests, Prepare(q) PROVE SInv'
  <1> DEFINE r == request[q]
  <1>1. PICK v \in IF r.kind = "create" THEN NextVersion(r.rev[1]) ELSE {0} :
          request' = [request EXCEPT ![q].version = v, ![q].archive = ToArchive(r)]
    BY DEF Prepare
  <1>2. /\ \A p \in Requests : p # q => pc'[p] = pc[p]
        /\ pc'[q] = "prepared"
    BY DEF Prepare, SInv, IInv, TypeOK
  <1>3. /\ \A p \in Requests : p # q => request'[p] = request[p]
        /\ request'[q].kind = r.kind /\ request'[q].rev = r.rev /\ request'[q].with = r.with
        /\ request'[q].status = r.status
        /\ request'[q].version = v /\ request'[q].archive = ToArchive(r)
    <2>1. request \in [Requests -> RequestType]
      BY DEF SInv, IInv, TypeOK, RequestType
    <2> HIDE DEF r
    <2>2. r = request[q]
      BY DEF r
    <2> QED BY <1>1, <2>1, <2>2 DEF RequestType
  <1>4. r.rev[1] \in Docs /\ r.kind \in {"create", "update"} /\ pc[q] # "idle"
    <2>1. CASE r.kind = "create"
      BY <2>1 DEF Prepare, SInv, IInv, About
    <2>2. CASE r.kind = "update"
      BY <2>2, RevsFacts DEF Prepare, SInv, IInv, About, Revs
    <2> QED BY <2>1, <2>2 DEF Prepare
  <1>5. UNCHANGED <<docs, state, version, bindings, apps>>
    BY DEF Prepare, tables
  <1>6. Apart(q)'
    BY <1>3, <1>4, <1>5 DEF SInv, Relies, Apart, Used
  <1>7. Covers(q)' /\ Replaces(q)'
    <2>1. Archives(r) <=> Archives(request[q])'
      BY <1>3 DEF Archives
    <2>2. \A s \in ToArchive(r) : Archives(r) /\ s[1] = r.rev[1]
      BY <1>4, RowsOf DEF ToArchive, ActiveOf
    <2>3. Archives(r) => \A s \in Revs : s[1] = r.rev[1] /\ state[s] = "ACTIVE" =>
                            s = r.rev \/ s \in ToArchive(r)
      BY <1>4, RowsOf DEF ToArchive, ActiveOf, Exists
    <2>4. Covers(q)'
      BY <2>1, <2>3, <1>3, <1>5 DEF Covers
    <2> QED BY <2>1, <2>2, <2>4, <1>3 DEF Replaces
  <1>8. Newest(q)'
    <2> SUFFICES ASSUME r.kind = "create", NEW s \in Revs, s[1] = r.rev[1], Exists(s)
                 PROVE  version[s] < v
      BY <1>3, <1>5 DEF Newest, Exists
    <2>1. s \in RevsOf(r.rev[1])
      BY <1>4, RowsOf
    <2>2. PICK l \in Latest(RevsOf(r.rev[1])) : v = version[l] + 1
      BY <1>1, <2>1 DEF NextVersion
    <2>3. version[s] <= version[l] /\ l \in Revs
      BY <1>4, <2>1, <2>2, RowsOf DEF Latest
    <2> QED BY <2>2, <2>3 DEF SInv, IInv, TypeOK
  <1>9. ASSUME NEW p \in Requests PROVE Relies(p)'
    <2>1. CASE p = q
      BY <2>1, <1>2, <1>6, <1>7, <1>8 DEF Relies, CutOff
    <2>2. CASE p # q
      BY <2>2, <1>2, <1>3, <1>5, OthersRely
    <2> QED BY <2>1, <2>2
  <1>10. Alone'
    BY <1>2, <1>3, <1>4, AloneKept
  <1> QED BY <1>5, <1>9, <1>10, RowsKept DEF SInv

(* What a commit does to each row.                                         *)
LEMMA CommitRows ==
  ASSUME SInv, NEW q \in Requests, Commit(q)
  PROVE  \E w \in Revs :
           /\ request[q].kind \in {"create", "update"} /\ w[1] = request[q].rev[1]
           /\ request[q].kind = "update" => w = request[q].rev /\ state[w] = "DRAFT" /\ UNCHANGED version
           /\ request[q].kind = "create" =>
                /\ state[w] = "none" /\ request[q].rev \notin Revs
                /\ version'[w] = request[q].version
                /\ \A s \in Revs : s # w => version'[s] = version[s]
           /\ state'[w] = NewState(request[q]) /\ state'[w] \in States
           /\ \A s \in Revs : s # w =>
                state'[s] = IF s \in request[q].archive /\ state[s] = "ACTIVE" THEN "ARCHIVED" ELSE state[s]
  <1>1. PICK w \in Written(request[q]) :
          /\ state' = [s \in Revs |->
               IF s = w THEN NewState(request[q])
               ELSE IF s \in request[q].archive /\ state[s] = "ACTIVE" THEN "ARCHIVED" ELSE state[s]]
          /\ version' = IF request[q].kind = "create"
                        THEN [version EXCEPT ![w] = request[q].version] ELSE version
    BY DEF Commit
  <1>2. /\ w \in Revs /\ NewState(request[q]) \in States
        /\ request[q].kind = "update" => w = request[q].rev /\ Exists(w)
        /\ request[q].kind = "create" => w[1] = request[q].rev[1] /\ state[w] = "none"
    BY <1>1, CommitWrites DEF Commit, SInv
  <1>3. request[q].kind \in {"create", "update"}
        /\ (request[q].kind = "create" => request[q].rev \notin Revs)
    BY DEF Commit, SInv, IInv, About
  <1>4. request[q].kind = "update" => state[w] = "DRAFT"
    BY <1>2 DEF Commit, SInv, Relies, Apart, Exists
  <1>5. request[q].kind = "create" =>
          version'[w] = request[q].version /\ \A s \in Revs : s # w => version'[s] = version[s]
    BY <1>1, <1>2 DEF SInv, IInv, TypeOK
  <1>6. /\ state'[w] = NewState(request[q])
        /\ \A s \in Revs : s # w =>
             state'[s] = IF s \in request[q].archive /\ state[s] = "ACTIVE" THEN "ARCHIVED" ELSE state[s]
    BY <1>1, <1>2
  <1> QED BY <1>1, <1>2, <1>3, <1>4, <1>5, <1>6

LEMMA CommitSInv ==
  ASSUME SInv, IInv', NEW q \in Requests, Commit(q) PROVE SInv'
  <1> DEFINE r == request[q]
  <1>1. PICK w \in Revs :
           /\ r.kind \in {"create", "update"} /\ w[1] = r.rev[1]
           /\ r.kind = "update" => w = r.rev /\ state[w] = "DRAFT" /\ UNCHANGED version
           /\ r.kind = "create" =>
                /\ state[w] = "none" /\ r.rev \notin Revs
                /\ version'[w] = r.version
                /\ \A s \in Revs : s # w => version'[s] = version[s]
           /\ state'[w] = NewState(r) /\ state'[w] \in States
           /\ \A s \in Revs : s # w =>
                state'[s] = IF s \in r.archive /\ state[s] = "ACTIVE" THEN "ARCHIVED" ELSE state[s]
    BY CommitRows
  <1>2. /\ \A p \in Requests : p # q => pc'[p] = pc[p] /\ request'[p] = request[p]
        /\ pc'[q] = "idle" /\ pc[q] = "prepared"
    BY Others DEF Commit, End
  <1>3. Covers(q) /\ Newest(q)
    BY <1>2 DEF SInv, Relies
  <1>4. state'[w] = "ACTIVE" => Archives(r)
    BY <1>1 DEF NewState, Archives
  <1>5. ActiveOnce'
    <2> SUFFICES ASSUME NEW s \in Revs, s # w, s[1] = w[1],
                        state'[w] = "ACTIVE", state'[s] = "ACTIVE"
                 PROVE  FALSE
      BY <1>1 DEF ActiveOnce, SInv, Rows
    <2>1. state[s] = "ACTIVE" /\ s \notin r.archive
      BY <1>1
    <2>2. s = r.rev
      BY <2>1, <1>1, <1>3, <1>4 DEF Covers
    <2> QED BY <2>2, <1>1
  <1>6. \A s \in Revs : s # w => (Exists(s)' <=> Exists(s)) /\ (Used(s)' <=> Used(s))
    BY <1>1 DEF Exists, Used
  <1>7. VersionOnce'
    <2> SUFFICES ASSUME NEW s \in Revs, NEW t \in Revs, s[1] = t[1], Exists(s)', Exists(t)',
                        version'[s] = version'[t], t # w
                 PROVE  s = t
      BY DEF VersionOnce
    <2>1. CASE r.kind = "update"
      <3>1. Exists(s) /\ Exists(t)
        BY <2>1, <1>1, <1>6 DEF Exists
      <3> QED BY <2>1, <3>1, <1>1 DEF SInv, Rows, VersionOnce
    <2>2. CASE r.kind = "create"
      <3>1. Exists(t) /\ version'[t] = version[t]
        BY <2>2, <1>1, <1>6
      <3>2. s = w => version[t] < r.version
        BY <2>2, <3>1, <1>1, <1>3 DEF Newest
      <3>3. version[t] \in Nat /\ r.version \in Nat
        BY DEF SInv, IInv, TypeOK
      <3>4. s # w
        BY <2>2, <3>1, <3>2, <3>3, <1>1
      <3> QED BY <2>2, <3>1, <3>4, <1>1, <1>6 DEF SInv, Rows, VersionOnce
    <2> QED BY <2>1, <2>2, <1>1
  <1>8. \A s \in Revs : /\ Used(s) => s # w
                        /\ Used(s) => Used(s)'
                        /\ Used(s) /\ Exists(s) => Exists(s)'
    BY <1>1, <1>6 DEF Used
  <1>9. AppsUsed'
    <2> SUFFICES ASSUME NEW a \in apps
                 PROVE  /\ Exists(a.flow)' /\ Used(a.flow)'
                        /\ a.form # Absent => Exists(a.form)' /\ Used(a.form)'
      BY DEF AppsUsed, Commit
    <2>1. a.flow \in Revs /\ (a.form # Absent => a.form \in Revs)
      BY RevsFacts DEF SInv, IInv, TypeOK, Application
    <2> QED BY <2>1, <1>8 DEF SInv, AppsUsed
  <1>10. ASSUME NEW p \in Requests PROVE Relies(p)'
    <2>1. CASE pc'[p] = "idle"
      BY <2>1 DEF Relies, CutOff
    <2>2. CASE pc'[p] # "idle"
      <3>1. p # q /\ pc[p] # "idle" /\ pc'[p] = pc[p] /\ request'[p] = request[p]
        BY <2>2, <1>2
      <3>2. request[p].kind = "start" /\ pc[p] \notin {"prepared", "byWorkflow", "byForm"}
        BY <3>1, <1>1, <1>2, EditsAlone
      <3>3. /\ Used(request[p].rev) /\ request[p].rev \in Revs
            /\ Used(request[p].with) /\ request[p].with \in Revs
        BY <3>1, <3>2, RevsFacts DEF SInv, Relies, Apart, IInv, About
      <3>4. Apart(p)'
        BY <3>1, <3>2, <3>3, <1>8 DEF Apart, Used
      <3> QED BY <3>1, <3>2, <3>4 DEF Relies, CutOff
    <2> QED BY <2>1, <2>2
  <1>11. Alone' /\ OneBinding'
    BY <1>2, AloneKept DEF Commit, SInv, OneBinding
  <1> QED BY <1>5, <1>7, <1>9, <1>10, <1>11 DEF SInv, Rows

--------------------------------------------------------------------------------
(* The three writes of a binding.                                          *)
LEMMA BoundSInv ==
  ASSUME SInv, IInv', NEW q \in Requests, deleteByWorkflowId(q) \/ deleteByFormId(q) PROVE SInv'
  <1>1. /\ bindings' \subseteq bindings /\ UNCHANGED <<state, version, apps, request>>
        /\ pc[q] # "idle" /\ request[q].kind = "bind"
        /\ \E v : pc' = [pc EXCEPT ![q] = v]
    BY DEF deleteByWorkflowId, deleteByFormId, Bound
  <1>2. \A p \in Requests : p # q => pc'[p] = pc[p] /\ request'[p] = request[p]
    BY <1>1, Others
  <1>3. CutOff(q)' /\ pc'[q] \in {"byWorkflow", "byForm"}
    <2>1. CASE deleteByWorkflowId(q)
      BY <2>1 DEF deleteByWorkflowId, Bound, CutOff, SInv, IInv, TypeOK
    <2>2. CASE deleteByFormId(q)
      BY <2>2 DEF deleteByFormId, Bound, CutOff, SInv, Relies, IInv, TypeOK
    <2> QED BY <2>1, <2>2
  <1>4. ASSUME NEW p \in Requests PROVE Relies(p)'
    <2>1. CASE p = q
      BY <2>1, <1>1, <1>3 DEF Relies, Apart
    <2>2. CASE p # q
      BY <2>2, <1>1, <1>2, OthersRely
    <2> QED BY <2>1, <2>2
  <1>5. Alone'
    BY <1>1, <1>2, AloneKept
  <1> QED BY <1>1, <1>4, <1>5, RowsKept DEF SInv

LEMMA CreateBindingSInv ==
  ASSUME SInv, IInv', NEW q \in Requests, createBinding(q) PROVE SInv'
  <1>1. /\ UNCHANGED <<state, version, apps>> /\ pc[q] = "byForm" /\ request[q].kind = "bind"
        /\ bindings' = bindings \cup {<<request[q].rev[1], request[q].with[1]>>}
    BY DEF createBinding, SInv, IInv, About
  <1>2. /\ \A p \in Requests : p # q => pc'[p] = pc[p] /\ request'[p] = request[p]
        /\ pc'[q] = "idle"
    BY Others DEF createBinding, End
  <1>3. OneBinding'
    BY <1>1 DEF OneBinding, SInv, Relies, CutOff
  <1>4. ASSUME NEW p \in Requests PROVE Relies(p)'
    <2>1. CASE pc'[p] = "idle"
      BY <2>1 DEF Relies, CutOff
    <2>2. CASE pc'[p] # "idle"
      <3>1. pc'[p] = pc[p] /\ request'[p] = request[p] /\ p # q
        BY <2>2, <1>2
      <3>2. pc[p] \notin {"prepared", "byWorkflow", "byForm"}
        BY <2>2, <3>1, <1>1, EditsAlone
      <3>3. Apart(p)'
        BY <2>2, <3>1, <1>1, OthersRely
      <3> QED BY <3>1, <3>2, <3>3 DEF Relies, CutOff
    <2> QED BY <2>1, <2>2
  <1>5. Alone'
    BY <1>1, <1>2, AloneKept
  <1> QED BY <1>1, <1>3, <1>4, <1>5, RowsKept DEF SInv

LEMMA StartSInv ==
  ASSUME SInv, IInv', NEW q \in Requests, createInstanceData(q) PROVE SInv'
  <1>1. /\ UNCHANGED <<state, version, bindings>> /\ pc[q] # "idle"
        /\ request[q].kind = "start" /\ Exists(request[q].rev) /\ Exists(request[q].with)
        /\ apps' = apps \cup {[flow |-> request[q].rev, form |-> request[q].with]}
    BY DEF createInstanceData
  <1>2. /\ \A p \in Requests : p # q => pc'[p] = pc[p] /\ request'[p] = request[p]
        /\ pc'[q] = "idle"
    BY Others DEF createInstanceData, End
  <1>3. AppsUsed'
    BY <1>1 DEF AppsUsed, SInv, Relies, Apart, Exists, Used
  <1>4. ASSUME NEW p \in Requests PROVE Relies(p)'
    <2>1. CASE p = q
      BY <2>1, <1>2 DEF Relies, CutOff
    <2>2. CASE p # q
      BY <2>2, <1>1, <1>2, OthersRely
    <2> QED BY <2>1, <2>2
  <1>5. Alone'
    BY <1>1, <1>2, AloneKept
  <1> QED BY <1>1, <1>3, <1>4, <1>5, RowsKept DEF SInv

(* Deletions overtake everyone.                                            *)
LEMMA DeleteSInv ==
  ASSUME SInv, IInv', NEW gone, Delete(gone), bindings' \subseteq bindings PROVE SInv'
  <1>1. UNCHANGED <<pc, request>>
    BY DEF Delete
  <1>2. \A s \in Revs : s \notin gone => state'[s] = state[s] /\ version'[s] = version[s]
    BY DEF Delete
  <1>3. \A s \in Revs : s \in gone => state'[s] = "deleted"
    BY DEF Delete
  <1>4. ASSUME NEW s \in Revs
        PROVE  /\ Used(s) => Used(s)'
               /\ Exists(s)' => Exists(s) /\ version'[s] = version[s]
               /\ state'[s] = "ACTIVE" => state[s] = "ACTIVE"
               /\ s \notin gone => (Exists(s)' <=> Exists(s))
               /\ state'[s] \in {state[s], "deleted"}
    <2>1. CASE s \in gone
      BY <2>1, <1>3 DEF Used, Exists
    <2>2. CASE s \notin gone
      BY <2>2, <1>2 DEF Used, Exists
    <2> QED BY <2>1, <2>2
  <1>5. Rows'
    BY <1>4 DEF SInv, Rows, ActiveOnce, VersionOnce
  <1>6. AppsUsed'
    <2> SUFFICES ASSUME NEW a \in apps'
                 PROVE  /\ Exists(a.flow)' /\ Used(a.flow)'
                        /\ a.form # Absent => Exists(a.form)' /\ Used(a.form)'
      BY DEF AppsUsed
    <2>1. PICK c \in apps : /\ c.flow \notin gone /\ a.flow = c.flow
                            /\ ((a.form = c.form /\ c.form \notin gone) \/ a.form = Absent)
      BY DEF Delete, Without, SInv, IInv, TypeOK, Application
    <2>2. c.flow \in Revs /\ (c.form # Absent => c.form \in Revs)
      BY RevsFacts DEF SInv, IInv, TypeOK, Application
    <2> QED BY <2>1, <2>2, <1>4 DEF SInv, AppsUsed
  <1>7. ASSUME NEW p \in Requests PROVE Relies(p)'
    <2>1. pc[p] # "idle" => Apart(p)'
      <3>1. ASSUME pc[p] # "idle", request[p].kind = "update"
            PROVE  state'[request[p].rev] \in {"DRAFT", "deleted"}
        BY <3>1, <1>4 DEF SInv, Relies, Apart, IInv, About
      <3>2. ASSUME pc[p] # "idle", request[p].kind = "start"
            PROVE  Used(request[p].rev)' /\ Used(request[p].with)'
        <4>1. request[p].rev \in Revs /\ request[p].with \in Revs
          BY <3>2, RevsFacts DEF SInv, IInv, About
        <4>2. Used(request[p].rev) /\ Used(request[p].with)
          BY <3>2 DEF SInv, Relies, Apart
        <4> QED BY <4>1, <4>2, <1>1, <1>4 DEF Used
      <3> QED BY <3>1, <3>2, <1>1 DEF Apart, Used
    <2>2. pc[p] = "prepared" => Covers(p)'
      BY <1>1, <1>4 DEF SInv, Relies, Covers, Archives
    <2>3. pc[p] = "prepared" => Replaces(p)'
      BY <1>1 DEF SInv, Relies, Replaces, Archives
    <2>4. pc[p] = "prepared" => Newest(p)'
      BY <1>1, <1>4 DEF SInv, Relies, Newest
    <2>5. CutOff(p)'
      BY <1>1 DEF SInv, Relies, CutOff
    <2> QED BY <2>1, <2>2, <2>3, <2>4, <2>5, <1>1 DEF Relies
  <1>8. Alone' /\ OneBinding'
    BY <1>1 DEF SInv, Alone, OneBinding
  <1> QED BY <1>5, <1>6, <1>7, <1>8 DEF SInv

LEMMA NextSInv == OnlyStartsRace /\ SInv /\ [Next]_vars => SInv'
  <1> SUFFICES ASSUME OnlyStartsRace, SInv, [Next]_vars PROVE SInv'
    OBVIOUS
  <1>1. IInv'
    BY NextIInv DEF SInv
  <1>2. ASSUME NEW q \in Requests, NEW d \in Docs, NEW status \in Chosen, CreateRevision(q, d, status)
        PROVE  SInv'
    BY <1>1, <1>2, BeginSInv DEF CreateRevision, Request
  <1>3. ASSUME NEW q \in Requests, NEW r \in Revs, NEW status \in Chosen, UpdateRevision(q, r, status)
        PROVE  SInv'
    BY <1>1, <1>3, BeginSInv DEF UpdateRevision, Request
  <1>4. ASSUME NEW q \in Requests, NEW w \in Workflows, NEW f \in Forms, Bind(q, w, f) PROVE SInv'
    BY <1>1, <1>4, BeginSInv DEF Bind, Request
  <1>5. ASSUME NEW q \in Requests, NEW b \in bindings, findLatestApplicationRevision(q, b) PROVE SInv'
    <2>1. PICK r \in Latest(ActiveOf(b[1])), s \in Latest(ActiveOf(b[2])) :
            Begin(q, Request("start", r, s, "KEEP"))
      BY <1>5 DEF findLatestApplicationRevision
    <2>2. Used(r) /\ Used(s)
      BY DEF Latest, ActiveOf, Used
    <2> QED BY <1>1, <2>1, <2>2, BeginSInv DEF Request
  <1>6. ASSUME NEW r \in Revs, deleteRevision(r) PROVE SInv'
    BY <1>1, <1>6, DeleteSInv DEF deleteRevision
  <1>7. ASSUME NEW d \in Docs, deleteDoc(d) PROVE SInv'
    BY <1>1, <1>7, DeleteSInv DEF deleteDoc
  <1>8. ASSUME NEW b \in bindings, deleteBinding(b) PROVE SInv'
    <2>1. UNCHANGED <<state, version, apps, pc, request>> /\ bindings' \subseteq bindings
      BY <1>8 DEF deleteBinding
    <2>2. Alone'
      BY <2>1 DEF SInv, Alone
    <2> QED BY <1>1, <2>1, <2>2, OthersRely, RowsKept DEF SInv
  <1>9. CASE UNCHANGED vars
    <2>1. Alone'
      BY <1>9 DEF SInv, Alone, vars
    <2> QED BY <1>1, <1>9, <2>1, OthersRely, RowsKept DEF SInv, vars
  <1> QED
    BY <1>1, <1>2, <1>3, <1>4, <1>5, <1>6, <1>7, <1>8, <1>9, PrepareSInv, CommitSInv, FailSInv,
       BoundSInv, CreateBindingSInv, StartSInv
    DEF Next

--------------------------------------------------------------------------------
(* Where an editor is overtaken by applicants and deletions only: one      *)
(* revision is in use, versions are distinct and a workflow and a form are *)
(* in one binding, between any two writes and whatever is cut off.         *)
THEOREM TablesAgree ==
  ASSUME OnlyStartsRace PROVE Spec => []Consistent
  <1>1. SInv => Consistent
    BY SaidOfAllRows DEF SInv, IInv, Consistent, Rows
  <1>2. SInv /\ [Next]_vars => SInv'
    BY NextSInv
  <1> QED BY <1>1, <1>2, InitSInv, PTL DEF Spec

(* The flow of an application does not change under it: what it was        *)
(* started from was in use, and only drafts are changed.                   *)
THEOREM FlowIsKept ==
  ASSUME OnlyStartsRace PROVE Spec => []AppsKeepTheirFlow
  <1>1. SInv => AppsKeepTheirFlow
    <2> SUFFICES ASSUME SInv, NEW q \in Requests, NEW a \in apps,
                        pc[q] # "idle", request[q].kind = "update"
                 PROVE  request[q].rev \notin {a.flow, a.form}
      BY DEF AppsKeepTheirFlow
    <2>1. state[request[q].rev] \in {"DRAFT", "deleted"} /\ request[q].rev \in Revs
      BY DEF SInv, Relies, Apart, IInv, About
    <2>2. Absent \notin Revs
      BY RevsIn1 DEF Absent, Revs
    <2>3. /\ state[a.flow] \notin {"DRAFT", "deleted"}
          /\ a.form # Absent => state[a.form] \notin {"DRAFT", "deleted"}
      BY DEF SInv, AppsUsed, Exists, Used
    <2> QED BY <2>1, <2>2, <2>3
  <1>2. SInv /\ [Next]_vars => SInv'
    BY NextSInv
  <1> QED BY <1>1, <1>2, InitSInv, PTL DEF Spec

(* A workflow in use stays in use until its active revision is deleted:    *)
(* the revisions a commit archives are replaced in the same step.          *)
LEMMA CommitStays ==
  ASSUME SInv, NEW q \in Requests, Commit(q), NEW d \in Workflows, ActiveOf(d) # {}
  PROVE  ActiveOf(d)' # {}
  <1>1. PICK l \in Revs : l[1] = d /\ state[l] = "ACTIVE"
    BY RowsOf DEF ActiveOf
  <1>2. PICK w \in Revs :
           /\ w[1] = request[q].rev[1] /\ state'[w] = NewState(request[q])
           /\ state[w] \in {"DRAFT", "none"}
           /\ \A s \in Revs : s # w =>
                state'[s] = IF s \in request[q].archive /\ state[s] = "ACTIVE" THEN "ARCHIVED" ELSE state[s]
    BY CommitRows
  <1>3. Replaces(q)
    BY DEF Commit, SInv, Relies
  <1>4. \E s \in Revs : s[1] = d /\ state'[s] = "ACTIVE"
    <2>1. CASE l \in request[q].archive
      <3>1. Archives(request[q]) /\ w[1] = d
        BY <2>1, <1>1, <1>2, <1>3 DEF Replaces
      <3>2. request[q].status = "ACTIVE"
        BY <3>1, <1>2 DEF Archives
      <3> QED BY <3>1, <3>2, <1>2 DEF NewState
    <2>2. CASE l \notin request[q].archive
      BY <2>2, <1>1, <1>2
    <2> QED BY <2>1, <2>2
  <1>5. \A s \in Revs : s[1] = d /\ state'[s] = "ACTIVE" => s \in ActiveOf(d)'
    BY RevsFacts DEF ActiveOf, RevsOf, Exists, Revs
  <1> QED BY <1>4, <1>5

THEOREM WorkflowStaysPublished ==
  ASSUME OnlyStartsRace PROVE Spec => StaysPublished
  <1> DEFINE Stays(d) == ActiveOf(d)' # {} \/ \E r \in ActiveOf(d) : state'[r] = "deleted"
  <1>1. ASSUME SInv, [Next]_vars, NEW d \in Workflows, ActiveOf(d) # {} PROVE Stays(d)
    <2>1. ASSUME UNCHANGED state PROVE ActiveOf(d)' = ActiveOf(d)
      BY <2>1 DEF ActiveOf, RevsOf, Exists
    <2>2. ASSUME NEW q \in Requests, Commit(q) PROVE Stays(d)
      BY <2>2, <1>1, CommitStays
    <2>3. ASSUME NEW gone, Delete(gone) PROVE Stays(d)
      <3>1. PICK l \in ActiveOf(d) : l \in Revs /\ l \in RevsIn({d}) /\ state[l] = "ACTIVE"
        BY <1>1, RowsOf DEF ActiveOf, RevsOf
      <3>2. state'[l] = IF l \in gone THEN "deleted" ELSE state[l]
        BY <2>3, <3>1 DEF Delete
      <3>3. l \notin gone => l \in ActiveOf(d)'
        BY <3>1, <3>2 DEF ActiveOf, RevsOf, Exists
      <3> QED BY <3>1, <3>2, <3>3
    <2>4. UNCHANGED state \/ (\E q \in Requests : Commit(q)) \/ (\E gone : Delete(gone))
      BY <1>1 DEF Next, vars, CreateRevision, UpdateRevision, Bind, findLatestApplicationRevision,
         Begin, tables, Prepare, Fail, deleteByWorkflowId, deleteByFormId, Bound, createBinding,
         createInstanceData, deleteRevision, deleteDoc, deleteBinding
    <2> QED BY <2>1, <2>2, <2>3, <2>4, <1>1
  <1>2. SInv /\ [Next]_vars => [\A w \in Workflows : ActiveOf(w) # {} => Stays(w)]_vars
    BY <1>1
  <1>3. SInv /\ [Next]_vars => SInv'
    BY NextSInv
  <1> QED BY <1>2, <1>3, InitSInv, PTL DEF Spec, StaysPublished

================================================================================
