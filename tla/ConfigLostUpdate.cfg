\* A setter runs while CONFIGURE writes its copy.
SPECIFICATION Spec
CONSTANTS
  Stages <- TwoStages
  Samples = {10, 400}
  Downshifts = {5000, 60000}
  DefaultSample <- KconfigSample
  DefaultDownshift <- KconfigDownshift
  MaxRetry = 1
  QuietConfigure = FALSE
INVARIANT SettingsReachSensor
