SPECIFICATION Spec
CONSTANTS
  Users <- MCUsers
  Cases <- Unordered
  Handlers = {h1, h2}
  MayReject = FALSE
INVARIANTS
  ApprovedByConsensus
  DecidedNodeIsQuiet
CHECK_DEADLOCK FALSE
