SPECIFICATION Spec
CONSTANTS
  Nodes <- MCNodes
  Kind <- MCKind
  NextOf <- MCNextOf
  Forms <- MCForms
  Branches <- MCBranches
  Approver <- MCApprover
  Reuse <- MCReuse
  RejectBehaviours <- MCReject
  SendTargets <- MCTargets
  Unstaffable = {"z"}
  Editors = {"a"}
  CanCrash = TRUE
  MaxIteration = 3
INVARIANTS
  NothingBeyondPending
CHECK_DEADLOCK FALSE
