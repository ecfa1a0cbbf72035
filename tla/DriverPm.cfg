SPECIFICATION FairSpec
CONSTANTS
  Client = {c1}
  MaxRetry = 2
  DisjointSessions = TRUE
  PmDevice = TRUE
  ForceAwake = TRUE
  SmartAlgorithm = FALSE
  DisableBurstRead = FALSE
INVARIANTS TypeOK MotionNotLost OnlyRefusalIsStuck
PROPERTIES ImplementsCaptureSession InitSettles MotionIsRead
