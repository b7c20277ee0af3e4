SPECIFICATION Spec
CONSTANTS
  Requests = {r1, r2}
  ScenarioIds = {s1}
  Users = {admin, reviewer}
  Engineers = {admin}
  Reviewers = {admin, reviewer}
  Fields = {cause}
  Values = {low, high}
  MaxVersion = 6
  Interruptible = {"insert", "read", "write"}
  Null = Null
SYMMETRY Symmetry
INVARIANTS
  TypeOK
  ChangesWhatWasSeen
  ReviewIndependent
  AuditChain
  EveryVersionAudited
PROPERTIES
  EditsOnlyNamedFields
  ReviewProcess
  ImplementsWorkflow
