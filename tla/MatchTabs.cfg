CONSTANTS
  p1 = p1
  p2 = p2
  t1 = t1
  t2 = t2
  t3 = t3
  front = front
  back = back
  shield = shield
  charm = charm
  Cards <- MCCards
  NoCard = NoCard
  Kind <- MCKind
  Cost <- MCCost
  Skills <- MCSharp
  Players = {p1, p2}
  Nobody = Nobody
  Tabs = {t1, t2, t3}
  Slots <- MCTabs
  Deck <- MCDuel
  MaxJobs = 2
  MaxCrystal = 3
  MaxQuits = 1
  MaxFaults = 0
SPECIFICATION Spec
SYMMETRY Symmetric
INVARIANTS OneInTurn  TimerArmed
CHECK_DEADLOCK FALSE
