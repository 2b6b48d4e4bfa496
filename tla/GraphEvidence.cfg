SPECIFICATION Spec
CONSTANTS
  d1 = d1
  d2 = d2
  d3 = d3
  Docs = {d1, d2, d3}
  Names <- Known
  Text <- SameTexts
  Related = {d1, d2, d3}
  Block <- Blocks
  Score <- Scores
  BatchScore <- Scores
  Reviewers = {v}
  Passes = {p}
  MinRecords = 4
  Retries = 0
  MaxReviews = 1
  Faults = 0
INVARIANT
  EvidenceKept
CHECK_DEADLOCK FALSE
