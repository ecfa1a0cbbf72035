\* A resume while the init step that the suspend cancelled is still running.
SPECIFICATION Spec
CONSTANTS
  Client = {c1}
  MaxRetry = 1
  DisjointSessions = TRUE
  PmDevice = TRUE
  ForceAwake = FALSE
  SmartAlgorithm = FALSE
  DisableBurstRead = TRUE
INVARIANT InitNotStuck
