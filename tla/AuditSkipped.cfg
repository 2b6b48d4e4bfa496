SPECIFICATION Spec
CONSTANTS
  q1 = q1
  k1 = k1
  k2 = k2
  Queries = {q1, q2}
  Keys = {k1, k2}
  KeyOf <- TwoKeys
  Exporters = {x1}
  MaxAgentEvents = 0
  Failures = 1
  None = None
INVARIANT
  NothingSkipped
