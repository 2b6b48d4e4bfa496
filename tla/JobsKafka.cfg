SPECIFICATION FairSpec
CONSTANTS
  Jobs = {j1, j2}
  Workers = {w1, w2}
  Partitions = {p1}
  Backend = "kafka"
  Faults <- AllFaults
  None = None
INVARIANTS
  TypeOK
  AtMostOneRun
  RunsOnlyCommitted
PROPERTIES
  UnreadJobIsClaimed
