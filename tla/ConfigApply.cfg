\* Setters and CONFIGURE from two threads; no setter while CONFIGURE writes.
SPECIFICATION FairSpec
CONSTANTS
  Stages <- TwoStages
  Samples = {10, 400}
  Downshifts = {5000, 60000}
  DefaultSample <- KconfigSample
  DefaultDownshift <- KconfigDownshift
  MaxRetry = 1
  QuietConfigure = TRUE
INVARIANTS
  TypeOK
  RuntimeFollowsSettings
  SettingsReachSensor
PROPERTIES
  ValidSettingsComeUp
