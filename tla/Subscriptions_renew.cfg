SPECIFICATION FairSpec
CONSTANTS
  None = None
  s1 = s1
  s2 = s2
  t1 = t1
  h1 = h1
  h2 = h2
  a1 = a1
  a2 = a2
  w1 = w1
  Subs = {s1}
  Tenants = {t1}
  Webhooks = {h1, h2}
  Admins = {a1}
  Sweepers = {w1}
  MaxInFlight = 2
  MaxPeriods = 2
  Targets <- Suspending
  Extra = {"renew", "plan", "time"}
  Faults = {}
CHECK_DEADLOCK FALSE
PROPERTIES MoneyIsAccounted PaymentReachesQueue
