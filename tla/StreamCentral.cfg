\* A central with two sensors and a host that lets a capture drain.
SPECIFICATION Spec
CONSTANTS
  d1 = d1
  d2 = d2
  Device = {d1, d2}
  Chunks = 2
  MaxRetries = 2
  SplitPeripheral = FALSE
  DisableBurstRead = TRUE
  PatientHost = TRUE
SYMMETRY DeviceSymmetry
INVARIANTS
  TypeOK
  ReadsInSession
  StreamedFrameIsWhole
  SessionsAreEnded
PROPERTIES
  ImplementsCaptureSession
