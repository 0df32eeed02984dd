SPECIFICATION Spec
CONSTANTS
  Requests = {r1, r2}
  Racing = {"approve", "withdraw"}
  Flows <- Parallel
  Approvals <- MCApprovals
  MaxIteration = 1
PROPERTIES
  FinalStatusKept
CHECK_DEADLOCK FALSE
