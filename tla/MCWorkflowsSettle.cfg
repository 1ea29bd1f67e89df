SPECIFICATION Spec
CONSTANTS
  sha1 = sha1
  sha2 = sha2
  Run = {1, 2}
  Sha = {sha1}
  ShaOf <- MCOneSha
  Pushed = {sha1}
  PerPage = 2
  MaxAttempts = 2
  Again = {1}
  Past = {}
  MaxWatches = 1
  MaxFaults = 0
PROPERTY WaitsForAll
