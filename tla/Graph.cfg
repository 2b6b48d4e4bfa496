SPECIFICATION FairSpec
CONSTANTS
  d1 = d1
  d2 = d2
  d3 = d3
  Docs = {d1, d2}
  Names <- Known
  Text <- Texts
  Related = {d1, d2}
  Block <- Blocks
  Score <- Scores
  BatchScore <- Scores
  Reviewers = {v}
  Passes = {p}
  MinRecords = 4
  Retries = 1
  MaxReviews = 1
  Faults = 1
INVARIANTS
  TypeOK
  MergesAreDeliberate
  MirrorCovers
  SettledFactsSurvive
PROPERTY
  DuplicatesAreMerged
CHECK_DEADLOCK FALSE
