CONSTANTS
  Users = {u1, u2}
  Platform = Platform
  Nobody = Nobody
  Calls = {c1}
  Bids = {4, 5}
  StartBid = 3
  Funds = 5
  MaxFaults = 1
  MaxCrashes = 1
  MaxRuns = 3
SPECIFICATION FairSpec
PROPERTY ArmedEnds
CHECK_DEADLOCK FALSE
