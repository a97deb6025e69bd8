SPECIFICATION Spec
CONSTANTS
  Page = {1}
  Revision = {1, 2, 3}
  Device = {d1, d2}
  Panel = {d1, d2}
  DeviceOf <- PanelPerDevice
  Synchronized <- Agreed
  MaxClock = 0
  MaxFaults = 0
  BaseDelay = 1
  MaxDelay = 2
  MaxAttempts = 2
  Absent = Absent
  Content <- MCContent
  Cleared <- MCCleared
PROPERTY TombstoneNotResurrected
