SPECIFICATION FairSpec
CONSTANTS
  d1 = d1
  d2 = d2
  d3 = d3
  f1 = f1
  f2 = f2
  e1 = e1
  Docs = {d1, d2, d3}
  Internal = {d1}
  Published <- Years
  Facts = {f1, f2}
  Distance <- Hops
  Entities = {e1}
  RrfK = 60
  TopK = 2
  Evidence <- Stated
  Mentioning <- Worded
  Requests <- Asked
  Routes <- Decompositions
  Calls <- Proposed
  Sentences <- Written
  MaxSentences = 2
  MaxSources = 2
  MaxSteps = 3
  MaxTokens = 4
  Costs = {1, 2}
INVARIANTS
  TypeOK
  EvidenceIsAdmissible
  RecordsAgree
  BestHitsSurvive
PROPERTIES
  RequestEnds
CHECK_DEADLOCK FALSE
