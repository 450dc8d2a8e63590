CONSTANTS
  u1 = u1
  u2 = u2
  t1 = t1
  t2 = t2
  Users = {u1, u2}
  Slots <- MCTabs
  Names = {n1}
  TopLevel = 2
  MaxTokens = 3
  MaxMoves = 1
  MaxFaults = 2
  MaxCrashes = 1
SPECIFICATION Spec
SYMMETRY Symmetric
INVARIANTS TypeOK  FeesSettled
PROPERTY BurnedForOwner
CHECK_DEADLOCK FALSE
