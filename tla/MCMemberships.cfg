SPECIFICATION Spec
CONSTANTS
  Ids = {m1, m2, m3}
  Horizon = 2
  Requests = {q1, q2}
  Ranges <- MCRanges
  Changes <- MCChanges
  Racing = {"create"}
SYMMETRY Symmetric
INVARIANTS OneMembership
PROPERTIES ImportClearsItsRange
CHECK_DEADLOCK FALSE
