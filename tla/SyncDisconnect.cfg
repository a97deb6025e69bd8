SPECIFICATION Spec
CONSTANTS
  Page = {o1}
  None = None
  MaxAttempts = 1
  MaxDisconnects = 1
  MaxFaults = 0
  MaxSaves = 0
INVARIANT DisconnectClearsCredentials
