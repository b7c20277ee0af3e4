SPECIFICATION FairSpec
CONSTANTS
  Requests = {r1, r2}
  EvaluationIds = {e1}
  Keys = {k1}
  Scenarios = {s1, s2}
  Users = {engineer, reviewer}
  Runners = {engineer}
  Confirmers = {reviewer}
  Author <- MCAuthor
  Contents = {c1}
  Outcome <- MCOutcome
  EvaluationError = EvaluationError
  Interrupts = FALSE
  Null = Null
  engineer = engineer
  reviewer = reviewer
  s1 = s1
  s2 = s2
INVARIANTS
  ChangesAudited
  AuditNamesConfirmer
PROPERTIES
  EveryRunFinishes
  ImplementsFairLedger
