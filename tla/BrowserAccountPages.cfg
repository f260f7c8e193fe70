SPECIFICATION Spec
CONSTANTS
  Tabs = {t1, t2}
  Callers = {c1}
  Requests = {q1, q2}
  Accounts = {alice}
  Externals = {bob}
  Kinds = {"account"}
  AutoRenew = FALSE
  MaxRevision = 1
  None = None
SYMMETRY Symmetry
INVARIANTS AccountIsTheTokens
CHECK_DEADLOCK FALSE
