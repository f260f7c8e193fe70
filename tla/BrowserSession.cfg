SPECIFICATION AnsweredSpec
CONSTANTS
  Tabs = {t1}
  Callers = {c1}
  Requests = {q1, q2}
  Accounts = {alice, carol}
  Externals = {bob}
  Kinds = {"account", "identity"}
  AutoRenew = TRUE
  MaxRevision = 2
  None = None
INVARIANTS SessionOfThisRevision SingleFlight RecordsFollowSession
PROPERTY CallsAndRenewalEnd
CHECK_DEADLOCK FALSE
