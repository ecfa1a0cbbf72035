SPECIFICATION Spec
CONSTANTS
  Client = {c1, c2}
  MaxRetry = 2
  DisjointSessions = TRUE
  PmDevice = FALSE
  ForceAwake = FALSE
  SmartAlgorithm = TRUE
  DisableBurstRead = TRUE
SYMMETRY ClientSymmetry
INVARIANTS NavigationIsClean MotionNotLost
PROPERTY ImplementsCaptureSession
