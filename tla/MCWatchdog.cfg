SPECIFICATION FairSpec
CONSTANTS
  i1shell = i1shell
  i8shell = i8shell
  i8tool = i8tool
  Liveness = i1shell
  Freshness = i8shell
  Other = {i8tool}
  InvOf <- MCInvOf
  Rank <- MCRank
  BenchMutes = {i8shell, i8tool}
  ShellStale = 0
  IdleWindow = 1
  ProbeStale = 1
  Backstop = 3
  RateLimit = 2
  Elapse = {1}
  MaxFaults = 1
INVARIANTS
  TypeOK
  Spaced
PROPERTIES
  ResolvesEarned
  OutageAlarmed
