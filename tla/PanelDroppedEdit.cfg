SPECIFICATION Spec
CONSTANTS
  Nothing = Nothing
  Page = {p1, p2}
  None = None
  MaxEdits = 2
  MaxRevision = 2
INVARIANT EditsAccepted
SYMMETRY SamePages
