SPECIFICATION Spec
CONSTANTS
  Jobs = {j1}
  Workers = {w1, w2}
  Partitions = {p1}
  Backend = "kafka"
  Faults <- NoFaults
  None = None
INVARIANT
  NotSilentlyDropped
