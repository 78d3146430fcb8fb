\* Two enqueues of the same row, no gateway work needed to see it.
SPECIFICATION Spec
CONSTANTS
  Ids = {a1}
  Frames = {f1, f2}
  Contexts = {"foreground"}
  Kinds = {FALSE}
  MaxBatches = 2
  MaxRuns = 1
  MaxBatchAttempts = 1
  MaxInFlight = 1
  MaxInFlightTotal = 2
  MaxCrashes = 0
INVARIANT OneBatchPerRow
CHECK_DEADLOCK FALSE
