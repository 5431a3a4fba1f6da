INIT PlatformInit
NEXT PlatformNext
CONSTANTS
  h1 = h1
  h2 = h2
  k1 = k1
  k2 = k2
  Calls = {"c1", "c2", "c3"}
  Processes = {"one", "two"}
  RateLimit = 1
  Pool = 2
  Kept = TRUE
  Callers = {"c1", "c2", "c3"}
  Limit = 1
  Wallet = 2
  MaxCycles = 2
  MaxFaults = 1
  Refunders = {k1}
  Periods = 2
  Price = 2
  EventKinds = {"cumulative", "single", "dispute"}
  MaxEvents = 2
  MaxRefunders = 1
  MaxFailures = 1
  Deciders = {k1}
  MaxDeciders = 1
  SweepAlone = TRUE
  MaxLosses = 1
  People = {"owner", "ann"}
  Owner = "owner"
  Elsewhere = {"ann"}
  Seats = 2
  Handlers = {h1, h2}
  MaxHandlers = 2
  MaxInvites = 1
  MaxKilled = 1
  AdminAlone = TRUE
  Threshold = 2
  MaxPasswords = 3
  MaxAddresses = 2
  MaxSessions = 2
  MaxLinks = 1
  Collectors = {"run", "again"}
  Pages = {"page", "other"}
  Posts = {"post", "copy"}
  Comments = {"first", "copied"}
  PageOf <- CopyElsewhere
  PostOf <- CopyOfEach
  Rejected = {}
  Overlapping = FALSE
  MaxCrashes = 1
  Targets = {"contacted", "lost", "archived"}
  Assignees = {"ann", "bob"}
  Clerks = {h1, h2}
  MaxBusy = 2
  MaxChanges = 2
  MaxFollowUps = 1
  MaxLost = 1
  Forms = {"first", "second"}
  Officers = {h1, h2}
  MaxOfficers = 2
  EditAlone = TRUE
  MaxDropped = 1
  Nothing = Nothing
  Checkers = {h1, h2}
  Readings = {"ok", "critical"}
  Refusals = {"error", "warning"}
  MaxPeriods = 2
  MaxClock = 2
  MaxRefused = 1
  MaxTurns = 2
  Nil = Nil
  Signals = {"conflict", "chargeback"}
  Payments = {"first"}
  Hands = {k1, k2}
  Admins = {k2}
  MaxFlags = 2
  MaxDeaths = 1
INVARIANTS NeverUnlimited RefundsConverge AccessIsDecided OwnerStays AdmitsOnce SessionsStandOnPassword OncePerComment ChangesAreRecorded PartnerIsApproved AnnouncedOnce HeldUntilReviewed QuotaNearlyBounded
SYMMETRY Symmetry
CHECK_DEADLOCK FALSE
