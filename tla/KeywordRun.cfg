SPECIFICATION FairSpec
CONSTANTS
  None = None
  w1 = w1
  w2 = w2
  p1 = p1
  p2 = p2
  k1 = k1
  Spenders = {w1, w2}
  First = w1
  Admins = {}
  Grants = {3}
  Deltas = {}
  MaxTokens = 3
  Pairs = {k1}
  Profiles = {p1}
  Price = 1
  Budget = 3
  CrashAt <- CallsAndSteps
  MaxCrashes = 1
  MaxCancels = 1
  MaxReapplies = 1
CHECK_DEADLOCK FALSE
INVARIANTS BooksAgree OneWorker
PROPERTIES SellsOnce RunEnds
