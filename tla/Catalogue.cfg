CONSTANTS
  List <- MCList
  Jobs = 4
  Wants <- MCWants
  Callers = {d1, d2}
  NoCard = NoCard
  MaxSeeds = 2
  MaxFaults = 2
SPECIFICATION FairSpec
INVARIANTS TypeOK PinnedWhole
PROPERTY DrawSettles
CHECK_DEADLOCK FALSE
