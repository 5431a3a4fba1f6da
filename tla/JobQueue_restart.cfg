SPECIFICATION Spec
CONSTANTS
  None = None
  p1 = p1
  p2 = p2
  w1 = w1
  w2 = w2
  t1 = t1
  j1 = j1
  j2 = j2
  Jobs = {j1}
  Procs = {p1, p2}
  Workers = {w1, w2}
  Threads = {t1}
  Host <- HostTwo
  MaxRetries = 2
  NoHandler = {}
  Faults = {}
INVARIANT SurvivesRestart
