SPECIFICATION Spec
CONSTANTS
  Users <- MCUsers
  Cases <- AllCase
  Handlers = {h1, h2}
  MayReject = FALSE
INVARIANTS
  NoStuckNode
CHECK_DEADLOCK FALSE
