SPECIFICATION Spec
CONSTANTS
  Requests = {r1, r2}
  EvaluationIds = {e1}
  Keys = {k1}
  Scenarios = {s1}
  Users = {engineer, reviewer}
  Runners = {engineer}
  Confirmers = {engineer, reviewer}
  Author <- MCAuthor
  Contents = {c1}
  Outcome <- MCOutcome
  EvaluationError = EvaluationError
  Interrupts = TRUE
  Null = Null
  engineer = engineer
  reviewer = reviewer
  s1 = s1
  s2 = s2
INVARIANTS
  CompletedNeverFailsReplay
