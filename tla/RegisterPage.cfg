\* Motion is read by the register; transfers do not fail.
SPECIFICATION Spec
CONSTANTS
  DisableBurstRead = TRUE
PROPERTIES
  WorkqueueOnPage0
CHECK_DEADLOCK FALSE
