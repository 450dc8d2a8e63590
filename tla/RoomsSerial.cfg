CONSTANTS
  Users = {u1, u2, u3}
  Nobody = Nobody
  Tabs = {t1}
  DeckOwners = {u1, u2, u3}
  MaxRooms = 2
  MaxJobs = 2
  MaxMatches = 2
  MaxFaults = 0
SPECIFICATION Spec
SYMMETRY Symmetric
INVARIANTS TypeOK OneSeat ReadyConsent OneMatchPerRoom FullRoomGuarded
CHECK_DEADLOCK FALSE
