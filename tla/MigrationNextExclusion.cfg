SPECIFICATION Spec
CONSTANTS
  Param = {x, y}
  MaxValue = 1
  Text = {a}
  Preference = {rich}
  Absent = Absent
  Worker = worker
  OptionsPage = {options}
  Panel = {w1}
  ForeignRules <- NoDevice
  MaxRevision = 3
  MaxFaults = 0
INVARIANT SettingsChangePlannable
