SPECIFICATION FairSpec
CONSTANTS
  f1 = f1
  f2 = f2
  File = {f1}
  NoFile = NoFile
  NewSize = {1, 2}
  Stuck = {}
  ChannelCap = 0
  MaxWrites <- MCThree
  MaxFaults = 1
  MaxStops = 1
  MaxBackfills = 0
INVARIANTS
  TypeOK
  SavedIsIngested
  NothingMissed
PROPERTIES
  NoOlderText
  EventuallyIngested
  MetaIngested
