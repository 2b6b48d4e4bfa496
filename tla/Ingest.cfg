SPECIFICATION FairSpec
CONSTANTS
  r1 = r1
  r2 = r2
  a = a
  b = b
  c = c
  Runs = {r1, r2}
  Contents = {a, b, c}
  Plans <- Scenarios
  Retries = 1
  Lexical = "opensearch"
  LostAcks = 1
  Crashes = 1
  None = None
INVARIANTS
  TypeOK
  OnlyGoodIsRetrievable
  IngestedIsComplete
  UnindexedIsAccountedFor
  NoRunStoresTwice
  RowCountNotAhead
PROPERTIES
  LifecycleSpec
  RunEnds
CHECK_DEADLOCK FALSE
