SPECIFICATION FairSpec
CONSTANTS
  Requests = {r1, r2}
  Racing = {"approve"}
  Flows <- MCFlows
  Approvals <- MCApprovals
  MaxIteration = 3
INVARIANTS
  SomeoneCanAct
  NobodyAsked
  StagesInOrder
  LogAgrees
PROPERTIES
  ImplementsStatus
  Settles
CHECK_DEADLOCK FALSE
