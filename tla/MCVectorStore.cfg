SPECIFICATION FairSpec
CONSTANTS
  g1 = g1
  g2 = g2
  m1 = m1
  m2 = m2
  Segment = {g1, g2}
  Model = {m1, m2}
  FirstModel = m1
  NoModel = NoModel
  Unseen = Unseen
  MaxTexts = 2
  MaxFaults = 1
  MaxSwitches = 2
INVARIANTS
  TypeOK
  OneSpace
PROPERTIES
  VectorsFollow
  SwitchesWhole
  EventuallyEmbedded
CHECK_DEADLOCK FALSE
