\* A split peripheral: requests and the loop share one workqueue.
SPECIFICATION FairSpec
CONSTANTS
  d1 = d1
  Device = {d1}
  Chunks = 2
  MaxRetries = 1
  SplitPeripheral = TRUE
  DisableBurstRead = TRUE
  PatientHost = FALSE
INVARIANTS
  WorkFollowsActive
  ReadsInSession
  StreamedFrameIsWhole
  SessionsAreEnded
PROPERTIES
  StopIsNoticed
  SensorIsReleased
