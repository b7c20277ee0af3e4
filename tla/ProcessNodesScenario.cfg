SPECIFICATION Spec
CONSTANTS
  Requests = {r1, r2}
  NodeIds = {n1}
  ScenarioIds = {s1}
  Codes = {c1}
  Fields = {pressure}
  Values = {low, high}
  Null = Null
SYMMETRY Symmetry
PROPERTIES
  ScenarioOnActiveNode
