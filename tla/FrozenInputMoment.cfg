SPECIFICATION Spec
CONSTANTS
  Editors = {e1}
  Maintainers = {m1}
  ScenarioIds = {s1}
  SafeguardIds = {g1}
  Users = {engineer}
  Fields = {cause}
  Values = {low, high}
  Intervals = {1}
  Target <- SameTarget
  MaxVersion = 2
  MaxTime = 0
  Null = Null
INVARIANTS
  InputOfOneMoment
