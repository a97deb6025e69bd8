SPECIFICATION FairViewSpec
CONSTANTS
  Page = {1}
  Revision = {1, 2}
  Window = {w1}
  Here = w1
  Content <- MCContent
  Cleared <- MCCleared
  Absent = Absent
  None = None
  MaxClock = 0
  Kinds = {"count", "recent"}
  Shown = {1, 3}
  Below <- UnderRoot
  MaxAbandoned = 1
  MaxFaults = 1
  MaxSuccess = 1
  MaxConnections = 1
INVARIANT ViewOfShownPage
PROPERTY ListedNotesStay
PROPERTY ViewCatchesUp
