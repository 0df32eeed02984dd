-------------------------- MODULE Attachments_proofs ---------------------------
(***************************************************************************)
(* What holds of Attachments for any number of files and failures.         *)
(***************************************************************************)
EXTENDS Attachments, TLAPS

(* A file has nothing before its record.                                   *)
Fresh ==
  \A f \in Files : rec[f] = "none" =>
    /\ url[f] = "none" /\ conf[f] = "idle" /\ f \notin listed
    /\ \A k \in Removers : del[<<f, k>>] = "idle"

(* What a confirmation has seen in S3 is there until a deletion of the row *)
(* takes it away.                                                          *)
SeenIsThere ==
  \A f \in Files : conf[f] = "seen" /\ Exists(f) =>
    f \in obj \/ f \in broken \/ \E k \in Removers : del[<<f, k>>] = "removed"

(* Only uploads whose time has passed are listed, and time does not return.*)
PurgeIsDue ==
  \A f \in Files : f \in listed \/ del[<<f, "purge">>] # "idle" => url[f] = "expired"

(* A task is open only while its application runs, and a file belongs to   *)
(* an application that was created.                                        *)
InApplication ==
  /\ task = "PENDING" => app = "RUNNING"
  /\ \A f \in Files : Bound(f) => app # "none"
  /\ \A f \in Files : context[f] = "none" => rec[f] = "none"

IInv ==
  /\ TypeOK /\ Fresh
  /\ SeenIsThere /\ UploadedHasObject
  /\ PurgeIsDue /\ PurgedWasLate
  /\ InApplication /\ NoRecordWithoutApplication

USE DEF Removers, Stages, Contexts

LEMMA InitIInv == Init => IInv
  BY AttachmentsAssumption
  DEF Init, IInv, TypeOK, Fresh, SeenIsThere, UploadedHasObject, PurgeIsDue, PurgedWasLate,
      InApplication, NoRecordWithoutApplication, Exists, Bound

LEMMA NextIInv == IInv /\ [Next]_vars => IInv'
  <1> SUFFICES ASSUME IInv, [Next]_vars PROVE IInv'
    OBVIOUS
  <1> USE AttachmentsAssumption DEF IInv
  <1>1. CASE createApplication
    <2>1. TypeOK'
      BY <1>1 DEF createApplication, bindDraftAttachments, TypeOK
    <2>2. InApplication'
      BY <1>1 DEF createApplication, bindDraftAttachments, TypeOK, InApplication, Bound, Exists
    <2>3. NoRecordWithoutApplication'
      BY <1>1 DEF createApplication, bindDraftAttachments, TypeOK, NoRecordWithoutApplication, InApplication, Bound, Exists
    <2>4. Fresh' /\ SeenIsThere' /\ UploadedHasObject' /\ PurgeIsDue' /\ PurgedWasLate'
      BY <1>1 DEF createApplication, Fresh, SeenIsThere, UploadedHasObject, PurgeIsDue, PurgedWasLate, Bound, Exists
    <2> QED
      BY <2>1, <2>2, <2>3, <2>4
  <1>2. CASE submit
    <2>1. TypeOK'
      BY <1>2 DEF submit, TypeOK
    <2>2. InApplication'
      BY <1>2 DEF submit, TypeOK, InApplication, Bound, Exists
    <2>3. NoRecordWithoutApplication'
      BY <1>2 DEF submit, TypeOK, NoRecordWithoutApplication, InApplication, Bound, Exists
    <2>4. Fresh' /\ SeenIsThere' /\ UploadedHasObject' /\ PurgeIsDue' /\ PurgedWasLate'
      BY <1>2 DEF submit, Fresh, SeenIsThere, UploadedHasObject, PurgeIsDue, PurgedWasLate, Bound, Exists
    <2> QED
      BY <2>1, <2>2, <2>3, <2>4
  <1>3. CASE decide
    <2>1. TypeOK'
      BY <1>3 DEF decide, TypeOK
    <2>2. InApplication'
      BY <1>3 DEF decide, TypeOK, InApplication, Bound, Exists
    <2>3. NoRecordWithoutApplication'
      BY <1>3 DEF decide, TypeOK, NoRecordWithoutApplication, InApplication, Bound, Exists
    <2>4. Fresh' /\ SeenIsThere' /\ UploadedHasObject' /\ PurgeIsDue' /\ PurgedWasLate'
      BY <1>3 DEF decide, Fresh, SeenIsThere, UploadedHasObject, PurgeIsDue, PurgedWasLate, Bound, Exists
    <2> QED
      BY <2>1, <2>2, <2>3, <2>4
  <1>4. CASE deleteInstanceData
    <2>1. TypeOK'
      BY <1>4 DEF deleteInstanceData, Cascaded, TypeOK
    <2>2. Fresh'
      BY <1>4 DEF deleteInstanceData, Cascaded, TypeOK, Fresh, Exists
    <2>3. SeenIsThere'
      BY <1>4 DEF deleteInstanceData, Cascaded, TypeOK, SeenIsThere, Exists
    <2>4. UploadedHasObject'
      BY <1>4 DEF deleteInstanceData, Cascaded, TypeOK, UploadedHasObject, SeenIsThere, Exists
    <2>5. PurgedWasLate'
      BY <1>4 DEF deleteInstanceData, Cascaded, TypeOK, PurgedWasLate, PurgeIsDue, Exists
    <2>6. InApplication'
      BY <1>4 DEF deleteInstanceData, Cascaded, TypeOK, InApplication, Bound, Exists
    <2>7. NoRecordWithoutApplication'
      BY <1>4 DEF deleteInstanceData, Cascaded, TypeOK, NoRecordWithoutApplication, InApplication, Bound, Exists
    <2>8. PurgeIsDue'
      BY <1>4 DEF deleteInstanceData, PurgeIsDue, Bound, Exists
    <2> QED
      BY <2>1, <2>2, <2>3, <2>4, <2>5, <2>6, <2>7, <2>8
  <1>5. ASSUME NEW f \in Files, NEW c \in Contexts \ {"none"}, authorizeUpload(f, c)
        PROVE  IInv'
    <2>1. TypeOK'
      BY <1>5 DEF authorizeUpload, TypeOK
    <2>2. InApplication'
      BY <1>5 DEF authorizeUpload, TypeOK, InApplication, Bound, Exists
    <2>3. NoRecordWithoutApplication'
      BY <1>5 DEF authorizeUpload, TypeOK, NoRecordWithoutApplication, InApplication, Bound, Exists
    <2>4. Fresh' /\ SeenIsThere' /\ UploadedHasObject' /\ PurgeIsDue' /\ PurgedWasLate'
      BY <1>5 DEF authorizeUpload, Fresh, SeenIsThere, UploadedHasObject, PurgeIsDue, PurgedWasLate, Bound, Exists
    <2> QED
      BY <2>1, <2>2, <2>3, <2>4
  <1>6. ASSUME NEW f \in Files, presignUpload(f)
        PROVE  IInv'
    <2>1. TypeOK'
      BY <1>6 DEF presignUpload, TypeOK
    <2>2. Fresh'
      BY <1>6 DEF presignUpload, TypeOK, Fresh, Exists
    <2>3. SeenIsThere'
      BY <1>6 DEF presignUpload, TypeOK, SeenIsThere, Exists, Fresh
    <2>4. UploadedHasObject'
      BY <1>6 DEF presignUpload, TypeOK, UploadedHasObject, SeenIsThere, Exists
    <2>5. PurgeIsDue'
      <3>1. f \notin listed /\ del[<<f, "purge">>] = "idle" /\ rec[f] = "none"
        BY <1>6 DEF presignUpload, Fresh
      <3>2. \A g \in Files : g # f => url'[g] = url[g]
        BY <1>6 DEF presignUpload, TypeOK
      <3> QED BY <1>6, <3>1, <3>2 DEF presignUpload, PurgeIsDue
    <2>6. PurgedWasLate'
      BY <1>6 DEF presignUpload, TypeOK, PurgedWasLate, PurgeIsDue, Exists, Fresh
    <2>7. InApplication'
      BY <1>6 DEF presignUpload, TypeOK, InApplication, Bound, Exists
    <2>8. NoRecordWithoutApplication'
      BY <1>6 DEF presignUpload, TypeOK, NoRecordWithoutApplication, InApplication, Bound, Exists
    <2> QED
      BY <2>1, <2>2, <2>3, <2>4, <2>5, <2>6, <2>7, <2>8
  <1>7. ASSUME NEW f \in Files, BeginPut(f)
        PROVE  IInv'
    <2>1. TypeOK'
      BY <1>7 DEF BeginPut, TypeOK
    <2>2. Fresh' /\ SeenIsThere' /\ UploadedHasObject' /\ PurgeIsDue' /\ PurgedWasLate' /\ InApplication' /\ NoRecordWithoutApplication'
      BY <1>7 DEF BeginPut, Fresh, SeenIsThere, UploadedHasObject, PurgeIsDue, PurgedWasLate, InApplication, NoRecordWithoutApplication, Bound, Exists
    <2> QED
      BY <2>1, <2>2
  <1>8. ASSUME NEW f \in Files, EndPut(f)
        PROVE  IInv'
    <2>1. TypeOK'
      BY <1>8 DEF EndPut, TypeOK
    <2>2. SeenIsThere'
      BY <1>8 DEF EndPut, TypeOK, SeenIsThere, Exists
    <2>3. UploadedHasObject'
      BY <1>8 DEF EndPut, TypeOK, UploadedHasObject, SeenIsThere, Exists
    <2>4. Fresh' /\ PurgeIsDue' /\ PurgedWasLate' /\ InApplication' /\ NoRecordWithoutApplication'
      BY <1>8 DEF EndPut, Fresh, PurgeIsDue, PurgedWasLate, InApplication, NoRecordWithoutApplication, Bound, Exists
    <2> QED
      BY <2>1, <2>2, <2>3, <2>4
  <1>9. ASSUME NEW f \in Files, Expire(f)
        PROVE  IInv'
    <2>1. TypeOK'
      BY <1>9 DEF Expire, TypeOK
    <2>2. Fresh'
      BY <1>9 DEF Expire, TypeOK, Fresh, Exists
    <2>3. PurgeIsDue'
      BY <1>9 DEF Expire, TypeOK, PurgeIsDue, Fresh, Exists
    <2>4. SeenIsThere' /\ UploadedHasObject' /\ PurgedWasLate' /\ InApplication' /\ NoRecordWithoutApplication'
      BY <1>9 DEF Expire, SeenIsThere, UploadedHasObject, PurgedWasLate, InApplication, NoRecordWithoutApplication, Bound, Exists
    <2> QED
      BY <2>1, <2>2, <2>3, <2>4
  <1>10. ASSUME NEW f \in Files, confirmUpload(f)
        PROVE  IInv'
    <2>1. TypeOK'
      BY <1>10 DEF confirmUpload, TypeOK
    <2>2. Fresh'
      BY <1>10 DEF confirmUpload, TypeOK, Fresh, Exists
    <2>3. SeenIsThere'
      BY <1>10 DEF confirmUpload, TypeOK, SeenIsThere, Exists
    <2>4. UploadedHasObject' /\ PurgeIsDue' /\ PurgedWasLate' /\ InApplication' /\ NoRecordWithoutApplication'
      BY <1>10 DEF confirmUpload, UploadedHasObject, PurgeIsDue, PurgedWasLate, InApplication, NoRecordWithoutApplication, Bound, Exists
    <2> QED
      BY <2>1, <2>2, <2>3, <2>4
  <1>11. ASSUME NEW f \in Files, objectExists(f)
        PROVE  IInv'
    <2>1. TypeOK'
      BY <1>11 DEF objectExists, TypeOK
    <2>2. Fresh'
      BY <1>11 DEF objectExists, TypeOK, Fresh, Exists
    <2>3. SeenIsThere'
      BY <1>11 DEF objectExists, TypeOK, SeenIsThere, Exists
    <2>4. UploadedHasObject' /\ PurgeIsDue' /\ PurgedWasLate' /\ InApplication' /\ NoRecordWithoutApplication'
      BY <1>11 DEF objectExists, UploadedHasObject, PurgeIsDue, PurgedWasLate, InApplication, NoRecordWithoutApplication, Bound, Exists
    <2> QED
      BY <2>1, <2>2, <2>3, <2>4
  <1>12. ASSUME NEW f \in Files, update(f)
        PROVE  IInv'
    <2>1. TypeOK'
      BY <1>12 DEF update, TypeOK, Exists
    <2>2. Fresh'
      BY <1>12 DEF update, TypeOK, Fresh, Exists
    <2>3. SeenIsThere'
      BY <1>12 DEF update, TypeOK, SeenIsThere, Exists
    <2>4. UploadedHasObject'
      BY <1>12 DEF update, TypeOK, UploadedHasObject, SeenIsThere, Exists
    <2>5. PurgedWasLate'
      BY <1>12 DEF update, TypeOK, PurgedWasLate, PurgeIsDue, Exists
    <2>6. InApplication'
      BY <1>12 DEF update, TypeOK, InApplication, Bound, Exists
    <2>7. NoRecordWithoutApplication'
      BY <1>12 DEF update, TypeOK, NoRecordWithoutApplication, InApplication, Bound, Exists
    <2>8. PurgeIsDue'
      BY <1>12 DEF update, PurgeIsDue, Bound, Exists
    <2> QED
      BY <2>1, <2>2, <2>3, <2>4, <2>5, <2>6, <2>7, <2>8
  <1>13. ASSUME NEW f \in Files, deleteAttachment(f)
        PROVE  IInv'
    <2>1. TypeOK'
      BY <1>13 DEF deleteAttachment, TypeOK
    <2>2. Fresh'
      BY <1>13 DEF deleteAttachment, TypeOK, Fresh, Exists
    <2>3. SeenIsThere'
      BY <1>13 DEF deleteAttachment, TypeOK, SeenIsThere, Exists
    <2>4. UploadedHasObject'
      BY <1>13 DEF deleteAttachment, TypeOK, UploadedHasObject, SeenIsThere, Exists
    <2>5. PurgeIsDue'
      BY <1>13 DEF deleteAttachment, TypeOK, PurgeIsDue, Fresh, Exists
    <2>6. PurgedWasLate'
      BY <1>13 DEF deleteAttachment, TypeOK, PurgedWasLate, PurgeIsDue, Exists
    <2>7. InApplication' /\ NoRecordWithoutApplication'
      BY <1>13 DEF deleteAttachment, InApplication, NoRecordWithoutApplication, Bound, Exists
    <2> QED
      BY <2>1, <2>2, <2>3, <2>4, <2>5, <2>6, <2>7
  <1>14. CASE listExpiredAttachments
    <2>1. TypeOK'
      BY <1>14 DEF listExpiredAttachments, findExpiredPending, TypeOK
    <2>2. Fresh'
      BY <1>14 DEF listExpiredAttachments, findExpiredPending, TypeOK, Fresh, Exists
    <2>3. PurgeIsDue'
      BY <1>14 DEF listExpiredAttachments, findExpiredPending, TypeOK, PurgeIsDue, Fresh, Exists
    <2>4. PurgedWasLate'
      BY <1>14 DEF listExpiredAttachments, findExpiredPending, TypeOK, PurgedWasLate, PurgeIsDue, Exists
    <2>5. SeenIsThere' /\ UploadedHasObject' /\ InApplication' /\ NoRecordWithoutApplication'
      BY <1>14 DEF listExpiredAttachments, SeenIsThere, UploadedHasObject, InApplication, NoRecordWithoutApplication, Bound, Exists
    <2> QED
      BY <2>1, <2>2, <2>3, <2>4, <2>5
  <1>15. ASSUME NEW f \in Files, purgeAttachment(f)
        PROVE  IInv'
    <2>1. TypeOK'
      BY <1>15 DEF purgeAttachment, TypeOK, Exists
    <2>2. Fresh'
      BY <1>15 DEF purgeAttachment, TypeOK, Fresh, Exists
    <2>3. SeenIsThere'
      BY <1>15 DEF purgeAttachment, TypeOK, SeenIsThere, Exists
    <2>4. UploadedHasObject'
      BY <1>15 DEF purgeAttachment, TypeOK, UploadedHasObject, SeenIsThere, Exists
    <2>5. PurgeIsDue'
      BY <1>15 DEF purgeAttachment, TypeOK, PurgeIsDue, Fresh, Exists
    <2>6. PurgedWasLate'
      BY <1>15 DEF purgeAttachment, TypeOK, PurgedWasLate, PurgeIsDue, Exists
    <2>7. InApplication' /\ NoRecordWithoutApplication'
      BY <1>15 DEF purgeAttachment, InApplication, NoRecordWithoutApplication, Bound, Exists
    <2> QED
      BY <2>1, <2>2, <2>3, <2>4, <2>5, <2>6, <2>7
  <1>16. ASSUME NEW f \in Files, NEW k \in Removers, deleteRow(f, k)
        PROVE  IInv'
    <2>1. TypeOK'
      BY <1>16 DEF deleteRow, TypeOK, Exists
    <2>2. Fresh'
      BY <1>16 DEF deleteRow, TypeOK, Fresh, Exists
    <2>3. SeenIsThere'
      BY <1>16 DEF deleteRow, TypeOK, SeenIsThere, Exists
    <2>4. UploadedHasObject'
      BY <1>16 DEF deleteRow, TypeOK, UploadedHasObject, SeenIsThere, Exists
    <2>5. PurgeIsDue'
      BY <1>16 DEF deleteRow, TypeOK, PurgeIsDue, Fresh, Exists
    <2>6. PurgedWasLate'
      BY <1>16 DEF deleteRow, TypeOK, PurgedWasLate, PurgeIsDue, Exists
    <2>7. InApplication' /\ NoRecordWithoutApplication'
      BY <1>16 DEF deleteRow, InApplication, NoRecordWithoutApplication, Bound, Exists
    <2> QED
      BY <2>1, <2>2, <2>3, <2>4, <2>5, <2>6, <2>7
  <1>17. ASSUME NEW f \in Files, NEW k \in Removers, deleteObject(f, k)
        PROVE  IInv'
    <2>1. TypeOK'
      BY <1>17 DEF deleteObject, TypeOK
    <2>2. Fresh'
      BY <1>17 DEF deleteObject, TypeOK, Fresh, Exists
    <2>3. SeenIsThere'
      BY <1>17 DEF deleteObject, TypeOK, SeenIsThere, Exists
    <2>4. UploadedHasObject'
      BY <1>17 DEF deleteObject, TypeOK, UploadedHasObject, SeenIsThere, Exists
    <2>5. PurgeIsDue'
      BY <1>17 DEF deleteObject, TypeOK, PurgeIsDue, Fresh, Exists
    <2>6. PurgedWasLate'
      BY <1>17 DEF deleteObject, TypeOK, PurgedWasLate, PurgeIsDue, Exists
    <2>7. InApplication' /\ NoRecordWithoutApplication'
      BY <1>17 DEF deleteObject, InApplication, NoRecordWithoutApplication, Bound, Exists
    <2> QED
      BY <2>1, <2>2, <2>3, <2>4, <2>5, <2>6, <2>7
  <1>18. ASSUME NEW f \in Files, NEW k \in Removers, Commit(f, k)
        PROVE  IInv'
    <2>1. TypeOK'
      BY <1>18 DEF Commit, TypeOK
    <2>2. Fresh'
      BY <1>18 DEF Commit, TypeOK, Fresh, Exists
    <2>3. SeenIsThere'
      BY <1>18 DEF Commit, TypeOK, SeenIsThere, Exists
    <2>4. UploadedHasObject'
      BY <1>18 DEF Commit, TypeOK, UploadedHasObject, SeenIsThere, Exists
    <2>5. PurgeIsDue'
      BY <1>18 DEF Commit, TypeOK, PurgeIsDue, Fresh, Exists
    <2>6. PurgedWasLate'
      BY <1>18 DEF Commit, TypeOK, PurgedWasLate, PurgeIsDue, Exists
    <2>7. InApplication'
      <3>1. context[f] # "none"
        BY <1>18 DEF Commit, InApplication, Fresh
      <3> QED BY <1>18, <3>1 DEF Commit, TypeOK, InApplication, Bound
    <2>8. NoRecordWithoutApplication'
      BY <1>18 DEF Commit, TypeOK, NoRecordWithoutApplication, InApplication, Bound, Exists
    <2> QED
      BY <2>1, <2>2, <2>3, <2>4, <2>5, <2>6, <2>7, <2>8
  <1>19. ASSUME NEW f \in Files, NEW k \in Removers, Rollback(f, k)
        PROVE  IInv'
    <2>1. TypeOK'
      BY <1>19 DEF Rollback, TypeOK
    <2>2. Fresh'
      BY <1>19 DEF Rollback, TypeOK, Fresh, Exists
    <2>3. SeenIsThere'
      BY <1>19 DEF Rollback, TypeOK, SeenIsThere, Exists
    <2>4. UploadedHasObject'
      BY <1>19 DEF Rollback, TypeOK, UploadedHasObject, SeenIsThere, Exists
    <2>5. PurgeIsDue'
      BY <1>19 DEF Rollback, TypeOK, PurgeIsDue, Fresh, Exists
    <2>6. PurgedWasLate'
      BY <1>19 DEF Rollback, TypeOK, PurgedWasLate, PurgeIsDue, Exists
    <2>7. InApplication' /\ NoRecordWithoutApplication'
      BY <1>19 DEF Rollback, InApplication, NoRecordWithoutApplication, Bound, Exists
    <2> QED
      BY <2>1, <2>2, <2>3, <2>4, <2>5, <2>6, <2>7
  <1>20. ASSUME NEW f \in Files, NEW k \in Removers, TimeOut(f, k)
        PROVE  IInv'
    <2>1. TypeOK'
      BY <1>20 DEF TimeOut, TypeOK
    <2>2. Fresh'
      BY <1>20 DEF TimeOut, TypeOK, Fresh, Exists
    <2>3. SeenIsThere'
      BY <1>20 DEF TimeOut, TypeOK, SeenIsThere, Exists
    <2>4. UploadedHasObject'
      BY <1>20 DEF TimeOut, TypeOK, UploadedHasObject, SeenIsThere, Exists
    <2>5. PurgeIsDue'
      BY <1>20 DEF TimeOut, TypeOK, PurgeIsDue, Fresh, Exists
    <2>6. PurgedWasLate'
      BY <1>20 DEF TimeOut, TypeOK, PurgedWasLate, PurgeIsDue, Exists
    <2>7. InApplication' /\ NoRecordWithoutApplication'
      BY <1>20 DEF TimeOut, InApplication, NoRecordWithoutApplication, Bound, Exists
    <2> QED
      BY <2>1, <2>2, <2>3, <2>4, <2>5, <2>6, <2>7
  <1>21. ASSUME NEW f \in Files, NEW k \in Removers, deleteObjectLate(f, k)
        PROVE  IInv'
    <2>1. TypeOK'
      BY <1>21 DEF deleteObjectLate, TypeOK
    <2>2. Fresh'
      BY <1>21 DEF deleteObjectLate, TypeOK, Fresh, Exists
    <2>3. SeenIsThere'
      BY <1>21 DEF deleteObjectLate, TypeOK, SeenIsThere, Exists
    <2>4. UploadedHasObject'
      BY <1>21 DEF deleteObjectLate, TypeOK, UploadedHasObject, SeenIsThere, Exists
    <2>5. PurgeIsDue'
      BY <1>21 DEF deleteObjectLate, TypeOK, PurgeIsDue, Fresh, Exists
    <2>6. PurgedWasLate'
      BY <1>21 DEF deleteObjectLate, TypeOK, PurgedWasLate, PurgeIsDue, Exists
    <2>7. InApplication' /\ NoRecordWithoutApplication'
      BY <1>21 DEF deleteObjectLate, InApplication, NoRecordWithoutApplication, Bound, Exists
    <2> QED
      BY <2>1, <2>2, <2>3, <2>4, <2>5, <2>6, <2>7
  <1>22. CASE UNCHANGED vars
    BY <1>22 DEF vars, TypeOK, Fresh, Exists, SeenIsThere, UploadedHasObject, PurgeIsDue, PurgedWasLate, InApplication, Bound, NoRecordWithoutApplication
  <1> QED
    BY <1>1, <1>2, <1>3, <1>4, <1>5, <1>6, <1>7, <1>8, <1>9, <1>10, <1>11, <1>12, <1>13, <1>14, <1>15, <1>16, <1>17, <1>18, <1>19, <1>20, <1>21, <1>22
    DEF Next, Application, Upload, Delete

--------------------------------------------------------------------------------
(* Files, requests and the application keep their types.                   *)
THEOREM TypeCorrect == Spec => []TypeOK
  <1>1. IInv => TypeOK
    BY DEF IInv
  <1> QED
    BY <1>1, InitIInv, NextIInv, PTL DEF Spec

(* A file that is listed as uploaded has its object, unless a deletion that*)
(* removed the object failed: whatever requests overtake each other.       *)
THEOREM UploadsAreThere == Spec => []UploadedHasObject
  <1>1. IInv => UploadedHasObject
    BY DEF IInv
  <1> QED
    BY <1>1, InitIInv, NextIInv, PTL DEF Spec

(* The clean-up hits a confirmed file only if it was confirmed late.       *)
THEOREM PurgeHitsLateOnly == Spec => []PurgedWasLate
  <1>1. IInv => PurgedWasLate
    BY DEF IInv
  <1> QED
    BY <1>1, InitIInv, NextIInv, PTL DEF Spec

(* No record outlives its application or is written after its deletion.    *)
THEOREM RecordsHaveApplication == Spec => []NoRecordWithoutApplication
  <1>1. IInv => NoRecordWithoutApplication
    BY DEF IInv
  <1> QED
    BY <1>1, InitIInv, NextIInv, PTL DEF Spec

LEMMA RecordsGoForward ==
  ASSUME IInv, [Next]_vars, NEW f \in Files
  PROVE  /\ rec[f] = "deleted" => rec'[f] = "deleted"
         /\ rec[f] = "UPLOADED" => rec'[f] \in {"UPLOADED", "deleted"}
  <1>1. rec' = rec \/ \E g \in Files : presignUpload(g) \/ update(g) \/ \E k \in Removers : Commit(g, k)
        \/ deleteInstanceData
    <2>1. CASE Application
      BY <2>1 DEF Application, createApplication, submit, decide
    <2>2. CASE listExpiredAttachments
      BY <2>2 DEF listExpiredAttachments
    <2>3. ASSUME NEW g \in Files, Upload(g) PROVE rec' = rec \/ presignUpload(g) \/ update(g)
      BY <2>3 DEF Upload, authorizeUpload, BeginPut, EndPut, confirmUpload, objectExists
    <2>4. ASSUME NEW g \in Files, Expire(g) \/ deleteAttachment(g) \/ purgeAttachment(g) PROVE rec' = rec
      BY <2>4 DEF Expire, deleteAttachment, purgeAttachment
    <2>5. ASSUME NEW g \in Files, NEW k \in Removers, Delete(g, k) \/ Rollback(g, k) \/ TimeOut(g, k)
          PROVE  rec' = rec \/ Commit(g, k)
      BY <2>5 DEF Delete, deleteRow, deleteObject, Rollback, TimeOut, deleteObjectLate
    <2>6. CASE UNCHANGED vars
      BY <2>6 DEF vars
    <2> QED BY <2>1, <2>2, <2>3, <2>4, <2>5, <2>6 DEF Next
  <1>2. rec \in [Files -> {"none", "PENDING", "UPLOADED", "deleted"}]
    BY DEF IInv, TypeOK
  <1>3. CASE deleteInstanceData
    BY <1>2, <1>3 DEF deleteInstanceData, Cascaded, Exists
  <1>4. ASSUME NEW g \in Files, presignUpload(g) \/ update(g)
        PROVE  /\ rec[f] = "deleted" => rec'[f] = "deleted"
               /\ rec[f] = "UPLOADED" => rec'[f] \in {"UPLOADED", "deleted"}
    BY <1>2, <1>4 DEF presignUpload, update, Exists
  <1>5. ASSUME NEW g \in Files, NEW k \in Removers, Commit(g, k)
        PROVE  /\ rec[f] = "deleted" => rec'[f] = "deleted"
               /\ rec[f] = "UPLOADED" => rec'[f] \in {"UPLOADED", "deleted"}
    BY <1>2, <1>5 DEF Commit
  <1> QED
    BY <1>1, <1>3, <1>4, <1>5

(* A deleted record stays deleted, an uploaded one does not wait again.    *)
THEOREM RecordsForward == Spec => RecordForward
  <1>1. IInv /\ [Next]_vars =>
          [\A f \in Files :
             /\ rec[f] = "deleted" => rec'[f] = "deleted"
             /\ rec[f] = "UPLOADED" => rec'[f] \in {"UPLOADED", "deleted"}]_vars
    BY RecordsGoForward
  <1> QED
    BY <1>1, InitIInv, NextIInv, PTL DEF Spec, RecordForward

================================================================================
