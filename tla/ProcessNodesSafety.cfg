SPECIFICATION Spec
CONSTANTS
  Requests = {r1, r2}
  NodeIds = {n1, n2}
  ScenarioIds = {s1}
  Codes = {c1, c2}
  Fields = {pressure}
  Values = {low, high}
  Null = Null
SYMMETRY Symmetry
VIEW WithoutAudits
INVARIANTS
  TypeOK
PROPERTIES
  ReactivatedByUpdate
