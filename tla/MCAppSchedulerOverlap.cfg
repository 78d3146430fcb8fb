\* Two loops, a trigger and nothing that fails or is late.
SPECIFICATION Spec
CONSTANTS
  MaxJobs = 2
  MaxAttempts = 2
  MaxCrashes = 0
  AppStates = {"active"}
  Sources = {"tick", "foreground"}
  Faults = {}
  Overdue = FALSE
INVARIANT ExclusiveRuns
