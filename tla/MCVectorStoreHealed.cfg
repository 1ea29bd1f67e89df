SPECIFICATION FairSpec
CONSTANTS
  g1 = g1
  g2 = g2
  m1 = m1
  m2 = m2
  Segment = {g1, g2}
  Model = {m1, m2}
  FirstModel = m1
  NoModel = NoModel
  Unseen = Unseen
  MaxTexts = 2
  MaxFaults = 1
  MaxSwitches = 2
PROPERTY EventuallyHealed
CHECK_DEADLOCK FALSE
