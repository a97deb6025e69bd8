SPECIFICATION FairSpec
CONSTANTS
  Page = {1}
  Revision = {1, 2}
  Device = {d1, d2}
  Panel = {d1, d2}
  DeviceOf <- PanelPerDevice
  Synchronized <- OnlyEmpty
  MaxClock = 0
  MaxFaults = 1
  BaseDelay = 1
  MaxDelay = 2
  MaxAttempts = 2
  Absent = Absent
  Content <- MCContent
  Cleared <- MCCleared
INVARIANT NewestSurvives
PROPERTY SyncNeverRegressesLocal
PROPERTY NoNewConflict
PROPERTY AgreementLasts
PROPERTY Convergence
