CONSTANTS
  Users = {u1, u2}
  Platform = Platform
  Nobody = Nobody
  Calls = {c1, c2}
  Bids = {4, 5}
  StartBid = 3
  Funds = 6
  MaxFaults = 0
  MaxCrashes = 0
  MaxRuns = 1
SPECIFICATION Spec
INVARIANT OldBiddersRefunded
CHECK_DEADLOCK FALSE
