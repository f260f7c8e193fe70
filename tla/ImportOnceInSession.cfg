SPECIFICATION Spec
CONSTANTS
  Chunks = {"c1"}
  Content <- TwoFiles
  Hits = {}
  Workers = {w1}
  Callers = {e1}
  MaxAttempts = 2
INVARIANTS OnceInSession
CHECK_DEADLOCK FALSE
