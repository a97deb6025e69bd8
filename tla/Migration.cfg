SPECIFICATION FairSpec
CONSTANTS
  Param = {x}
  MaxValue = 1
  Text = {a, b}
  Preference = {rich, code}
  Absent = Absent
  Worker = worker
  OptionsPage = {options}
  Panel = {w1}
  ForeignRules <- SameRules
  MaxRevision = 3
  MaxFaults = 1
INVARIANT TypeOK
INVARIANT PendingCanComplete
INVARIANT NoTextLost
INVARIANT ReachableUnlessStrayed
INVARIANT RecordsAtIdentities
PROPERTY MigrationNeverUndone
PROPERTY ImplementsAtomic
PROPERTY MigrationCompletes
