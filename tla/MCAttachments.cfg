SPECIFICATION FairSpec
CONSTANTS
  Files = {f1}
  MaxFailures = 2
INVARIANTS UploadedHasObject PurgedWasLate NoRecordWithoutApplication
PROPERTIES RecordForward AbandonedPurged
CHECK_DEADLOCK FALSE
