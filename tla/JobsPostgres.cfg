SPECIFICATION FairSpec
CONSTANTS
  Jobs = {j1, j2}
  Workers = {w1, w2}
  Partitions = {p1}
  Backend = "postgres"
  Faults <- ServerFaults
  None = None
INVARIANTS
  AtMostOneRun
  SuccessIsEarned
PROPERTIES
  LifecycleSpec
  PendingIsClaimed
  AnsweredJobEnds
