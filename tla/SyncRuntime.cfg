SPECIFICATION FairSpec
CONSTANTS
  Page = {o1}
  None = None
  MaxAttempts = 2
  MaxDisconnects = 1
  MaxFaults = 1
  MaxSaves = 1
INVARIANT TypeOK
INVARIANT RequestsOfBoundConnection
INVARIANT ConnectionServed
INVARIANT SuccessOfStoredConnection
PROPERTY FreshCredentials
PROPERTY SavedIsSynced
