CONSTANTS
  Users = {u1, u2}
  Nobody = Nobody
  Tabs = {t1}
  DeckOwners = {u1, u2}
  MaxRooms = 2
  MaxJobs = 1
  MaxMatches = 2
  MaxFaults = 2
SPECIFICATION FairSpec
INVARIANT OneEngagement
 
CHECK_DEADLOCK FALSE
