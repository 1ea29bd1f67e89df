SPECIFICATION FairSpec
CONSTANTS
  r1 = r1
  r2 = r2
  r3 = r3
  shell = shell
  workflow = workflow
  Row = {r1, r3}
  Source = {shell, workflow}
  SourceOf <- MCSourceOf
  Shell = shell
  Ineligible = {r3}
  MaxRetries = 2
  MaxClaim = 1
  MaxSweep = 2
  MaxAsked = 2
  MaxPauses = 2
  MaxFaults = 1
  MaxEscapes = 0
PROPERTIES
  PauseHolds
  PauseCompletes
