SPECIFICATION ViewSpec
CONSTANTS
  Page = {1}
  Revision = {1, 2}
  Window = {w1}
  Here = w1
  Content <- MCContent
  Cleared <- MCCleared
  Absent = Absent
  None = None
  MaxClock = 0
  Kinds = {"status"}
  Shown = {1}
  Below <- UnderRoot
  MaxAbandoned = 0
  MaxFaults = 1
  MaxSuccess = 1
  MaxConnections = 1
INVARIANT ViewTypeOK
INVARIANT SettledViewIsTrue
INVARIANT ClaimIsEarned
