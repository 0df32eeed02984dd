------------------------------ MODULE Attachments ------------------------------
(***************************************************************************)
(* Files that are attached to one application.  A client asks for an       *)
(* upload address, which leaves a PENDING record, puts the object into S3  *)
(* by itself, and confirms, which makes the record UPLOADED if the object  *)
(* is there.  A file uploaded before the application exists belongs to a   *)
(* draft id and is bound when the application is created.  A record is     *)
(* deleted by its owner, with the application, or by the clean-up of       *)
(* uploads whose time has passed.  Requests are handled at the same time,  *)
(* each in the steps between which the server waits.                       *)
(***************************************************************************)
EXTENDS Naturals, FiniteSets

CONSTANTS
  Files,       \* the keys of the objects
  MaxFailures  \* bound of the model on transactions that fail to commit

ASSUME AttachmentsAssumption == IsFiniteSet(Files) /\ MaxFailures \in Nat

VARIABLES
  app,      \* status of the application
  task,     \* the approval task of the approver who uploads
  rec,      \* status of the record of each file
  context,  \* what the upload was authorized for; a bound draft is the applicant's
  url,      \* the upload address of each file; its time is the record's expires_at
  putting,  \* files the client is sending
  obj,      \* objects in S3
  conf,     \* how far the confirmation of each file is
  del,      \* how far each kind of deletion of each file is
  listed,   \* what the clean-up has listed and not yet purged
  failures, \* deletions that failed
  broken,   \* history: the object was removed, the deletion of the record undone
  late      \* history: confirmed after its time

vars == <<app, task, rec, context, url, putting, obj, conf, del, listed, failures, broken, late>>

Contexts == {"none", "draft", "applicant", "approver"}
Removers == {"owner", "purge"}
Stages   == {"idle", "checked", "deleted", "removed", "timedout"}

TypeOK ==
  /\ app \in {"none", "DRAFT", "RUNNING", "DONE", "deleted"}
  /\ task \in {"none", "PENDING", "closed"}
  /\ rec \in [Files -> {"none", "PENDING", "UPLOADED", "deleted"}]
  /\ context \in [Files -> Contexts]
  /\ url \in [Files -> {"none", "live", "expired"}]
  /\ putting \subseteq Files /\ obj \subseteq Files
  /\ conf \in [Files -> {"idle", "checked", "seen"}]
  /\ del \in [Files \X Removers -> Stages]
  /\ listed \subseteq Files /\ broken \subseteq Files /\ late \subseteq Files
  /\ failures \in 0 .. MaxFailures

Exists(f) == rec[f] \in {"PENDING", "UPLOADED"}
Bound(f)  == context[f] \in {"applicant", "approver"}

(* The row is deleted in a transaction that has not ended.                 *)
Locked(f) == \E k \in Removers : del[<<f, k>>] \in {"deleted", "removed"}

Init ==
  /\ app = "none" /\ task = "none"
  /\ rec = [f \in Files |-> "none"] /\ context = [f \in Files |-> "none"]
  /\ url = [f \in Files |-> "none"]
  /\ putting = {} /\ obj = {}
  /\ conf = [f \in Files |-> "idle"]
  /\ del = [d \in Files \X Removers |-> "idle"]
  /\ listed = {} /\ failures = 0 /\ broken = {} /\ late = {}

--------------------------------------------------------------------------------
(* The application goes its way.                                           *)

(* Created as a draft or submitted at once; the uploaded files of the      *)
(* draft id are bound in the same transaction.                             *)
bindDraftAttachments ==
  context' = [f \in Files |->
    IF context[f] = "draft" /\ rec[f] = "UPLOADED" THEN "applicant" ELSE context[f]]

createApplication ==
  /\ app = "none"
  /\ \A f \in Files : ~Locked(f)
  /\ \/ app' = "DRAFT" /\ task' = task
     \/ app' = "RUNNING" /\ task' = "PENDING"
  /\ bindDraftAttachments
  /\ UNCHANGED <<rec, url, putting, obj, conf, del, listed, failures, broken, late>>

(* Another submission asks the approver by another task.                   *)
submit ==
  /\ app = "DRAFT"
  /\ app' = "RUNNING"
  /\ task' = IF task = "none" THEN "PENDING" ELSE task
  /\ UNCHANGED <<rec, context, url, putting, obj, conf, del, listed, failures, broken, late>>

(* A decision or a withdrawal closes the task; the application goes on,    *)
(* comes to its end, or is given back to the applicant.                    *)
decide ==
  /\ app = "RUNNING"
  /\ app' \in {"RUNNING", "DONE", "DRAFT"}
  /\ task' = "closed"
  /\ UNCHANGED <<rec, context, url, putting, obj, conf, del, listed, failures, broken, late>>

(* The records go with the application, the objects stay.                  *)
Cascaded == [f \in Files |-> IF Exists(f) /\ Bound(f) THEN "deleted" ELSE rec[f]]

deleteInstanceData ==
  /\ app = "DRAFT"
  /\ \A f \in Files : Bound(f) => ~Locked(f)
  /\ app' = "deleted" /\ task' = "closed"
  /\ rec' = Cascaded
  /\ UNCHANGED <<context, url, putting, obj, conf, del, listed, failures, broken, late>>

--------------------------------------------------------------------------------
(* Upload.                                                                 *)

authorizeUpload(f, c) ==
  /\ context[f] = "none"
  /\ \/ c = "draft"
     \/ c = "applicant" /\ app = "DRAFT"
     \/ c = "approver" /\ task = "PENDING"
  /\ context' = [context EXCEPT ![f] = c]
  /\ UNCHANGED <<app, task, rec, url, putting, obj, conf, del, listed, failures, broken, late>>

(* Mutant: the application may be gone.                                    *)
presignUpload_Unchecked(f) ==
  /\ context[f] # "none" /\ rec[f] = "none"
  /\ rec' = [rec EXCEPT ![f] = "PENDING"]
  /\ url' = [url EXCEPT ![f] = "live"]
  /\ UNCHANGED <<app, task, context, putting, obj, conf, del, listed, failures, broken, late>>

(* The record refers to the application, which must still be there.        *)
presignUpload(f) ==
  /\ context[f] # "none" /\ rec[f] = "none"
  /\ Bound(f) => app # "deleted"
  /\ rec' = [rec EXCEPT ![f] = "PENDING"]
  /\ url' = [url EXCEPT ![f] = "live"]
  /\ UNCHANGED <<app, task, context, putting, obj, conf, del, listed, failures, broken, late>>

(* S3 looks at the address when a request begins.                          *)
BeginPut(f) ==
  /\ url[f] = "live"
  /\ putting' = putting \cup {f}
  /\ UNCHANGED <<app, task, rec, context, url, obj, conf, del, listed, failures, broken, late>>

EndPut(f) ==
  /\ f \in putting
  /\ putting' = putting \ {f}
  /\ obj' \in {obj, obj \cup {f}}
  /\ UNCHANGED <<app, task, rec, context, url, conf, del, listed, failures, broken, late>>

Expire(f) ==
  /\ url[f] = "live"
  /\ url' = [url EXCEPT ![f] = "expired"]
  /\ UNCHANGED <<app, task, rec, context, putting, obj, conf, del, listed, failures, broken, late>>

confirmUpload(f) ==
  /\ conf[f] = "idle" /\ Exists(f)
  /\ Bound(f) => app \in {"DRAFT", "RUNNING"}
  /\ conf' = [conf EXCEPT ![f] = "checked"]
  /\ UNCHANGED <<app, task, rec, context, url, putting, obj, del, listed, failures, broken, late>>

(* Mutant: the object is not looked for.                                   *)
objectExists_Assumed(f) ==
  /\ conf[f] = "checked"
  /\ conf' = [conf EXCEPT ![f] = "seen"]
  /\ UNCHANGED <<app, task, rec, context, url, putting, obj, del, listed, failures, broken, late>>

objectExists(f) ==
  /\ conf[f] = "checked"
  /\ conf' = [conf EXCEPT ![f] = IF f \in obj THEN "seen" ELSE "idle"]
  /\ UNCHANGED <<app, task, rec, context, url, putting, obj, del, listed, failures, broken, late>>

(* Mutant: a record that is gone is written anew.                          *)
update_Upserts(f) ==
  /\ conf[f] = "seen" /\ ~Locked(f)
  /\ rec' = [rec EXCEPT ![f] = "UPLOADED"]
  /\ late' = IF rec[f] = "PENDING" /\ url[f] = "expired" THEN late \cup {f} ELSE late
  /\ conf' = [conf EXCEPT ![f] = "idle"]
  /\ UNCHANGED <<app, task, context, url, putting, obj, del, listed, failures, broken>>

(* The update waits for a transaction that deletes the row, and fails if   *)
(* the row is gone.                                                        *)
update(f) ==
  /\ conf[f] = "seen" /\ ~Locked(f)
  /\ rec' = IF Exists(f) THEN [rec EXCEPT ![f] = "UPLOADED"] ELSE rec
  /\ late' = IF rec[f] = "PENDING" /\ url[f] = "expired" THEN late \cup {f} ELSE late
  /\ conf' = [conf EXCEPT ![f] = "idle"]
  /\ UNCHANGED <<app, task, context, url, putting, obj, del, listed, failures, broken>>

--------------------------------------------------------------------------------
(* Deletion.                                                               *)

assertUploadContextActive(f) ==
  \/ context[f] = "draft"
  \/ context[f] = "applicant" /\ app = "DRAFT"
  \/ context[f] = "approver" /\ task = "PENDING"

deleteAttachment(f) ==
  /\ del[<<f, "owner">>] = "idle" /\ Exists(f)
  /\ assertUploadContextActive(f)
  /\ del' = [del EXCEPT ![<<f, "owner">>] = "checked"]
  /\ UNCHANGED <<app, task, rec, context, url, putting, obj, conf, listed, failures, broken, late>>

(* Mutant: the time is not asked for.                                      *)
findExpiredPending_AnyTime == {f \in Files : rec[f] = "PENDING"}
(* Mutant: uploads of a draft id only.                                     *)
findExpiredPending_Drafts  == {f \in Files : rec[f] = "PENDING" /\ url[f] = "expired" /\ context[f] = "draft"}

findExpiredPending == {f \in Files : rec[f] = "PENDING" /\ url[f] = "expired"}

listExpiredAttachments ==
  /\ listed = {} /\ findExpiredPending # {}
  /\ listed' = findExpiredPending
  /\ UNCHANGED <<app, task, rec, context, url, putting, obj, conf, del, failures, broken, late>>

(* By its id: only that there is a record is checked.                      *)
purgeAttachment(f) ==
  /\ f \in listed /\ del[<<f, "purge">>] = "idle"
  /\ listed' = listed \ {f}
  /\ del' = IF Exists(f) THEN [del EXCEPT ![<<f, "purge">>] = "checked"] ELSE del
  /\ UNCHANGED <<app, task, rec, context, url, putting, obj, conf, failures, broken, late>>

(* In a transaction the row is deleted, which waits for others that delete *)
(* it and fails if it is gone.                                             *)
deleteRow(f, k) ==
  /\ del[<<f, k>>] = "checked" /\ ~Locked(f)
  /\ del' = [del EXCEPT ![<<f, k>>] = IF Exists(f) THEN "deleted" ELSE "idle"]
  /\ UNCHANGED <<app, task, rec, context, url, putting, obj, conf, listed, failures, broken, late>>

(* Then the object is removed.                                             *)
deleteObject(f, k) ==
  /\ del[<<f, k>>] = "deleted"
  /\ obj' = obj \ {f}
  /\ del' = [del EXCEPT ![<<f, k>>] = "removed"]
  /\ UNCHANGED <<app, task, rec, context, url, putting, conf, listed, failures, broken, late>>

Commit(f, k) ==
  /\ del[<<f, k>>] = "removed"
  /\ rec' = [rec EXCEPT ![f] = "deleted"]
  /\ del' = [del EXCEPT ![<<f, k>>] = "idle"]
  /\ UNCHANGED <<app, task, context, url, putting, obj, conf, listed, failures, broken, late>>

(* S3 refuses, the server dies or the commit fails: the row stays.         *)
Rollback(f, k) ==
  /\ del[<<f, k>>] \in {"checked", "deleted", "removed"} /\ failures < MaxFailures
  /\ failures' = failures + 1
  /\ broken' = IF del[<<f, k>>] = "removed" THEN broken \cup {f} ELSE broken
  /\ del' = [del EXCEPT ![<<f, k>>] = "idle"]
  /\ UNCHANGED <<app, task, rec, context, url, putting, obj, conf, listed, late>>

(* The transaction is rolled back while S3 is still at work.               *)
TimeOut(f, k) ==
  /\ del[<<f, k>>] = "deleted" /\ failures < MaxFailures
  /\ failures' = failures + 1
  /\ del' = [del EXCEPT ![<<f, k>>] = "timedout"]
  /\ UNCHANGED <<app, task, rec, context, url, putting, obj, conf, listed, broken, late>>

deleteObjectLate(f, k) ==
  /\ del[<<f, k>>] = "timedout"
  /\ obj' = obj \ {f}
  /\ broken' = broken \cup {f}
  /\ del' = [del EXCEPT ![<<f, k>>] = "idle"]
  /\ UNCHANGED <<app, task, rec, context, url, putting, conf, listed, failures, late>>

--------------------------------------------------------------------------------
Application == createApplication \/ submit \/ decide \/ deleteInstanceData

Upload(f) ==
  \/ \E c \in Contexts \ {"none"} : authorizeUpload(f, c)
  \/ presignUpload(f) \/ BeginPut(f) \/ EndPut(f)
  \/ confirmUpload(f) \/ objectExists(f) \/ update(f)

(* What the server finishes once it has begun.                             *)
Delete(f, k) ==
  deleteRow(f, k) \/ deleteObject(f, k) \/ Commit(f, k) \/ deleteObjectLate(f, k)

Next ==
  \/ Application
  \/ listExpiredAttachments
  \/ \E f \in Files :
       \/ Upload(f) \/ Expire(f)
       \/ deleteAttachment(f) \/ purgeAttachment(f)
       \/ \E k \in Removers : Delete(f, k) \/ Rollback(f, k) \/ TimeOut(f, k)

Fairness ==
  /\ WF_vars(listExpiredAttachments)
  /\ \A f \in Files :
       /\ WF_vars(Expire(f)) /\ WF_vars(purgeAttachment(f))
       /\ \A k \in Removers : WF_vars(Delete(f, k))

Spec == Init /\ [][Next]_vars
FairSpec == Spec /\ Fairness

--------------------------------------------------------------------------------
(* A file that is listed as uploaded can be downloaded.  Its object is     *)
(* missing only where a deletion removed it and could not commit, or while *)
(* a deletion is about to commit: confirmUpload looks for the object before*)
(* it writes, and a deletion has the row before it touches the object.     *)
UploadedHasObject ==
  \A f \in Files : rec[f] = "UPLOADED" /\ f \notin obj =>
    f \in broken \/ \E k \in Removers : del[<<f, k>>] = "removed"

(* The clean-up deletes by ids it listed before.  A file that has become   *)
(* UPLOADED since then can be hit, but only one whose time had passed when *)
(* it was confirmed: a client that keeps to the time never loses a file.   *)
PurgedWasLate ==
  \A f \in Files : rec[f] = "UPLOADED" /\ (f \in listed \/ del[<<f, "purge">>] # "idle") =>
    f \in late

(* A record of an application exists only as long as the application,      *)
(* although an upload is authorized before its record is written and a     *)
(* confirmation may be under way when the application is deleted.          *)
NoRecordWithoutApplication ==
  \A f \in Files : Exists(f) /\ Bound(f) => app \in {"DRAFT", "RUNNING", "DONE"}

(* A record that was deleted does not come back, whichever confirmation or *)
(* other deletion of it is still under way, and none falls back to PENDING.*)
RecordForward ==
  [][\A f \in Files :
       /\ rec[f] = "deleted" => rec'[f] = "deleted"
       /\ rec[f] = "UPLOADED" => rec'[f] \in {"UPLOADED", "deleted"}]_vars

(* An upload that was begun is confirmed, deleted or purged in the end, if *)
(* the clean-up runs and deletions do not fail for ever.                   *)
AbandonedPurged == \A f \in Files : rec[f] = "PENDING" ~> rec[f] # "PENDING"

================================================================================
