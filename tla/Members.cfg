CONSTANTS
  Clients = {c1, c2}
  Names = {n1, n2}
  Emails = {e1, e2}
  Passwords = {w1}
  NoId = 0
  IsDev = TRUE
  Pushers = {k1, k2}
  MaxUsers = 2
  MaxNotes = 2
  MaxFaults = 2
SPECIFICATION Spec
SYMMETRY Symmetric
INVARIANTS TypeOK FundedWallet HeardIsStored NothingMissed
CHECK_DEADLOCK FALSE
