SPECIFICATION FairSpec
CONSTANTS
  Users <- MCUsers
  Cases <- OneAtATime
  Handlers = {h1}
  MayReject = TRUE
INVARIANTS
  ApprovedByConsensus
  DecidedNodeIsQuiet
  LineInOrder
  CompletionChecksAgree
PROPERTIES
  DecidedOnce
  NodeDecided
CHECK_DEADLOCK FALSE
