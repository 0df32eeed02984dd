SPECIFICATION Spec
CONSTANTS
  Fresh = {n1, n2, n3, n4}
SYMMETRY Symmetric
INVARIANTS ParentsAgree NothingCutOff NoEmptyBranch SavedIsValid InferredWasTraversed GuaranteedIsExecuted
CHECK_DEADLOCK FALSE
