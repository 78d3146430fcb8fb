\* Three operations at once, two of them mutations at most; two runs; a kill.
SPECIFICATION FairSpec
CONSTANTS
  Callers = {c1, c2, c3}
  MaxRuns = 2
  MaxMutations = 2
  MaxCasAttempts = 2
  MaxCrashes = 1
INVARIANTS
  NoLostUpdate
  OwnSecret
PROPERTIES
  StoreSettles
CHECK_DEADLOCK FALSE
