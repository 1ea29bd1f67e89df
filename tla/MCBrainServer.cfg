SPECIFICATION FairSpec
CONSTANTS
  r1 = r1
  r2 = r2
  r3 = r3
  shell = shell
  workflow = workflow
  Row = {r1, r2}
  Source = {shell, workflow}
  SourceOf <- MCSourceOf
  Shell = shell
  Ineligible = {}
  MaxRetries = 2
  MaxClaim = 1
  MaxSweep = 0
  MaxAsked = 0
  MaxPauses = 1
  MaxFaults = 1
  MaxEscapes = 2
INVARIANTS
  TypeOK
  OneNodePerRow
  PauseDrains
PROPERTIES
  RowsSettle
