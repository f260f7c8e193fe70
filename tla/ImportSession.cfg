SPECIFICATION LiveSpec
CONSTANTS
  Chunks = {"c1", "c2"}
  Content <- SharedChunk
  Hits = {3}
  Workers = {w1, w2}
  Callers = {e1, e2}
  MaxAttempts = 2
INVARIANTS FinalizeAfterChunks ReadyMeansRegistered SettledMeansQuiet OnceInAttempt
PROPERTIES RetryReusesChunks ImplementsContract AttemptsEnd
CHECK_DEADLOCK FALSE
