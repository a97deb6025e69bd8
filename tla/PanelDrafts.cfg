SPECIFICATION FairSpec
CONSTANTS
  Nothing = Nothing
  Page = {p1, p2}
  None = None
  MaxEdits = 3
  MaxRevision = 2
INVARIANT TypeOK
INVARIANT NothingLost
INVARIANT UnsavedIsScheduled
INVARIANT SavedMeansStored
INVARIANT SessionIsCurrent
PROPERTY OnlyCurrentPublished
PROPERTY ImplementsDurable
PROPERTY EditIsSaved
