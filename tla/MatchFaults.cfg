CONSTANTS
  p1 = p1
  p2 = p2
  t1 = t1
  t2 = t2
  t3 = t3
  front = front
  back = back
  shield = shield
  charm = charm
  Cards <- MCCards
  NoCard = NoCard
  Kind <- MCKind
  Cost <- MCCost
  Skills <- MCSharp
  Players = {p1, p2}
  Nobody = Nobody
  Tabs = {t1, t2, t3}
  Slots <- MCSerial
  Deck <- MCDuel
  MaxJobs = 2
  MaxCrystal = 3
  MaxQuits = 0
  MaxFaults = 1
SPECIFICATION FairSpec
PROPERTIES PlaysAtomically MatchDecided
CHECK_DEADLOCK FALSE
