SPECIFICATION Spec
CONSTANTS
  None = None
  c1 = c1
  x1 = x1
  x2 = x2
  p1 = p1
  p2 = p2
  r1 = r1
  r2 = r2
  Commissions = {c1}
  Extras = {x1}
  PayoutIds = {p1, p2}
  Requests = {r1, r2}
  Original = 2
  Adjustments <- SmallAdjustments
  Alone = {"request"}
  MaxCrashes = 0
SYMMETRY Symmetry
PROPERTY PaidIsFinal
CHECK_DEADLOCK FALSE
