SPECIFICATION RefundsSpec
CONSTANTS
  Refunders = {"h"}
  Periods = 2
  Price = 2
  EventKinds = {"cumulative"}
  MaxEvents = 1
  MaxRefunders = 1
  MaxFailures = 0
INVARIANT RefundOnItsInvoice
CHECK_DEADLOCK FALSE
