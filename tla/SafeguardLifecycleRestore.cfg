SPECIFICATION Spec
CONSTANTS
  Requests = {r1, r2}
  SafeguardIds = {g1}
  Users = {engineer}
  Intervals = {1, 2}
  MaxTime = 2
  Null = Null
SYMMETRY Symmetry
VIEW WithoutAudits
PROPERTIES
  RestoreMakesActive
