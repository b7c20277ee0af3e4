SPECIFICATION Spec
CONSTANTS
  Ids = {1, 2, 3}
  Keys = {0, 1, 2}
  Levels = {49, 100}
  Scale = 100
  Lifecycles = {"active", "invalid"}
  Intervals = {1}
  Verifications = {2, 3}
  Instants = {2, 6, 7, 8}
  Second = 2
  Day = 4
  Tolerance = 1
  Risks = {3, 20}
  Precision = 100
  Drift = 1
  Null = Null
INVARIANTS
  TypeOK
  EveryLayerAccounted
  OneLayerPerKey
  ScoreOfBestLayers
  ResidualIsSafe
  ExpiryAgrees
