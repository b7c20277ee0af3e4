SPECIFICATION Spec
CONSTANTS
  Requests = {r1, r2}
  ScenarioIds = {s1}
  Users = {admin, reviewer}
  Engineers = {admin}
  Reviewers = {admin, reviewer}
  Fields = {cause}
  Values = {low, high}
  MaxVersion = 3
  Interruptible = {}
  Null = Null
SYMMETRY Symmetry
PROPERTIES
  SavesOverWhatWasShown
