\* A suspend and a resume in the middle of a capture session.
SPECIFICATION Spec
CONSTANTS
  Client = {c1}
  MaxRetry = 1
  DisjointSessions = TRUE
  PmDevice = TRUE
  ForceAwake = FALSE
  SmartAlgorithm = FALSE
  DisableBurstRead = TRUE
INVARIANT NavigationIsClean
