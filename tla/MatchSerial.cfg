CONSTANTS
  p1 = p1
  p2 = p2
  t1 = t1
  t2 = t2
  t3 = t3
  front = front
  back = back
  shield = shield
  charm = charm
  Cards <- MCCards
  NoCard = NoCard
  Kind <- MCKind
  Cost <- MCCost
  Skills <- MCSkills
  Players = {p1, p2}
  Nobody = Nobody
  Tabs = {t1, t2, t3}
  Slots <- MCSerial
  Deck <- MCDeck
  MaxJobs = 3
  MaxCrystal = 2
  MaxQuits = 0
  MaxFaults = 0
SPECIFICATION Spec
INVARIANTS TypeOK CardsConserved BoardAlive TwinsAreEquipped TimeoutHitsIdler
PROPERTY WinnerStays
CHECK_DEADLOCK FALSE
