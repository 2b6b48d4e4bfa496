SPECIFICATION FairSpec
CONSTANTS
  q1 = q1
  k1 = k1
  k2 = k2
  Queries = {q1, q2}
  Keys = {k1, k2}
  KeyOf <- OneKey
  Exporters = {x1, x2}
  MaxAgentEvents = 1
  Failures = 1
  None = None
INVARIANTS
  TypeOK
  NoDuplicateExport
  NothingSkipped
PROPERTY
  CommittedReachesIceberg
