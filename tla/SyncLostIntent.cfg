SPECIFICATION Spec
CONSTANTS
  Page = {1}
  Revision = {1, 2}
  Device = {d1}
  Panel = {w1}
  DeviceOf <- OneProfile
  Synchronized <- Agreed
  MaxClock = 0
  MaxFaults = 0
  BaseDelay = 1
  MaxDelay = 2
  MaxAttempts = 2
  Absent = Absent
  Content <- MCContent
  Cleared <- MCCleared
INVARIANT UnsyncedNoteIsQueued
