SPECIFICATION Spec
CONSTANTS
  r1 = r1
  r2 = r2
  a = a
  b = b
  c = c
  Runs = {r1, r2}
  Contents = {a, b, c}
  Plans <- Race
  Retries = 0
  Lexical = "postgres"
  LostAcks = 0
  Crashes = 0
  None = None
INVARIANT
  OneDocumentPerContent
CHECK_DEADLOCK FALSE
