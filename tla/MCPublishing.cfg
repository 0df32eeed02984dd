SPECIFICATION Spec
CONSTANTS
  w1 = w1
  f1 = f1
  f2 = f2
  Workflows = {w1}
  Forms = {f1, f2}
  MaxRevisions <- MCRevisions
  MaxApps = 1
  Chosen = {"DRAFT", "ACTIVE"}
  Requests = {q1, q2}
  Racing = {"start"}
SYMMETRY Symmetric
INVARIANTS Consistent AppsHaveFlow AppsKeepTheirFlow
PROPERTIES StaysPublished
CHECK_DEADLOCK FALSE
