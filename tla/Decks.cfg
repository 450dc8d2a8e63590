CONSTANTS
  u1 = u1
  u2 = u2
  t1 = t1
  t2 = t2
  t3 = t3
  e1 = e1
  e2 = e2
  e3 = e3
  Users = {u1, u2}
  Slots <- MCSlots
  Tokens = {e1, e2, e3}
  Monsters <- MCMonsters
  NoToken = NoToken
  HalfSize = 2
  Limit = 1
  MaxDecks = 2
  MaxSales = 1
SPECIFICATION Spec
SYMMETRY Symmetric
INVARIANTS TypeOK WellFormed OnceHeld NoLostUpdate 
CHECK_DEADLOCK FALSE
