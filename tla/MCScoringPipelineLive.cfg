\* One row in a scoring batch, then in one of owed notes; one chain; under fairness.
SPECIFICATION FairSpec
CONSTANTS
  Ids = {a1}
  Frames = {f1}
  Contexts = {"foreground", "task"}
  Kinds = {FALSE, TRUE}
  MaxBatches = 2
  MaxRuns = 1
  MaxBatchAttempts = 2
  MaxInFlight = 1
  MaxInFlightTotal = 2
  MaxCrashes = 1
INVARIANTS
  BilledOnce
PROPERTIES
  RunEnds
CHECK_DEADLOCK FALSE
