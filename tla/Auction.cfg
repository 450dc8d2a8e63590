CONSTANTS
  Users = {u1, u2}
  Platform = Platform
  Nobody = Nobody
  Calls = {c1, c2}
  Bids = {4, 5}
  StartBid = 3
  Funds = 6
  MaxFaults = 2
  MaxCrashes = 1
  MaxRuns = 2
SPECIFICATION Spec
SYMMETRY Symmetric
INVARIANTS TypeOK BidsIncrease ClosedBooks  PaidBeforeDelivery
CHECK_DEADLOCK FALSE
