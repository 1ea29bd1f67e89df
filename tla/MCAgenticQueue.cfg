SPECIFICATION FairSpec
CONSTANTS
  g1 = g1
  h2 = h2
  h1 = h1
  bad = bad
  Segment = {g1}
  Hash = {h1, h2, bad}
  NoHash = NoHash
  Ineligible = {bad}
  MaxRetries = 2
  MaxEdits = 4
  MaxFaults = 3
INVARIANTS
  TypeOK
  DoneHasNode
PROPERTIES
  StrandedOnlyBy
  KeepsPromise
  EventuallyHandled
