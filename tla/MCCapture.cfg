SPECIFICATION FairSpec
CONSTANTS
  p1 = p1
  b1 = b1
  t1 = t1
  Event <- MCEvent
  ShellEvent <- MCShell
  Probe = {p1}
  Session = {t1}
  SessionOf <- MCSessionOf
  BatchSize = 1
  CapFactor = 2
  MaxSends = 2
  MaxStops = 2
INVARIANTS
  TypeOK
  AcceptedSafe
  LinesIntact
  RecoveryComplete
PROPERTIES
  Delivers
  BufferSettles
  ShutdownCompletes
CHECK_DEADLOCK FALSE
