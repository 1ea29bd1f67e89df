SPECIFICATION FairSpec
CONSTANTS
  sha1 = sha1
  sha2 = sha2
  Run = {1, 2}
  Sha = {sha1, sha2}
  ShaOf <- MCShas
  Pushed = {sha2}
  PerPage = 1
  MaxAttempts = 2
  Again = {2}
  Past = {1}
  MaxWatches = 2
  MaxFaults = 1
INVARIANTS
  TypeOK
  QueuedHasDetails
  OutcomeTrue
  NoticeTrue
PROPERTIES
  RunsSettle
  FailureFollowed
