SPECIFICATION Spec
CONSTANTS
  Page = {1, 2}
  Revision = {1, 2}
  Device = {d1}
  Panel = {w1}
  DeviceOf <- OneProfile
  Synchronized <- WithConflict
  MaxClock = 2
  MaxFaults = 3
  BaseDelay = 1
  MaxDelay = 2
  MaxAttempts = 2
  Absent = Absent
  Content <- MCContent
  Cleared <- MCCleared
INVARIANT TypeOK
INVARIANT SyncedMeansAgreed
INVARIANT UndisturbedRunSettles
INVARIANT BackoffRespected
PROPERTY BackoffNeverRewound
PROPERTY CompletionFollowsPublication
PROPERTY ImplementsSyncedNotes
