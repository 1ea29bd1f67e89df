SPECIFICATION FairSpec
CONSTANTS
  f1 = f1
  f2 = f2
  File = {f1, f2}
  NoFile = NoFile
  NewSize = {1}
  Stuck = {f2}
  ChannelCap = 1
  MaxWrites <- MCOneOne
  MaxFaults = 0
  MaxStops = 0
  MaxBackfills = 1
PROPERTY EventuallyIngested
