SPECIFICATION FairSpec
CONSTANTS
  Nodes <- MCNodes
  Kind <- MCKind
  NextOf <- MCNextOf
  Forms <- MCForms
  Branches <- MCBranches
  Approver <- MCApprover
  Reuse <- MCReuse
  RejectBehaviours <- MCReject
  SendTargets <- MCTargets
  Unstaffable = {}
  Editors = {"a", "z"}
  CanCrash = FALSE
  MaxIteration = 3
INVARIANTS
  NothingBeyondPending
  NoLostBranch
  OtherIterationsClosed
  NoWorkOutsideRunning
  SomeoneCanAct
PROPERTIES
  DecisionsKept
  EventuallySettled
  ImplementsStatus
CHECK_DEADLOCK FALSE
