SPECIFICATION Spec
CONSTANTS
  w1 = w1
  f1 = f1
  f2 = f2
  Workflows = {w1}
  Forms = {f1, f2}
  MaxRevisions <- MCRevisions
  MaxApps = 1
  Chosen = {"DRAFT", "ACTIVE"}
  Requests = {q1, q2}
  Racing = {"start", "update"}
SYMMETRY Symmetric
INVARIANTS AppsKeepTheirFlow
CHECK_DEADLOCK FALSE
