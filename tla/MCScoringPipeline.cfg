\* Two rows in one batch, two chains of awaits.  A background chain takes the
\* steps of a foreground one except LookSubmit, so it adds nothing here; a
\* killed process is in MCScoringPipelineLive.
SPECIFICATION Spec
CONSTANTS
  Ids = {a1, a2}
  Frames = {f1, f2}
  Contexts = {"foreground", "task"}
  Kinds = {FALSE}
  MaxBatches = 1
  MaxRuns = 1
  MaxBatchAttempts = 2
  MaxInFlight = 1
  MaxInFlightTotal = 2
  MaxCrashes = 0
SYMMETRY Symmetry
INVARIANTS
  DecodesItsOwnIds
PROPERTIES
  WorkStays
CHECK_DEADLOCK FALSE
