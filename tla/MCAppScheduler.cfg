\* A task of the tick, two runs of it, every database call rejecting, a kill.
SPECIFICATION FairSpec
CONSTANTS
  MaxJobs = 2
  MaxAttempts = 2
  MaxCrashes = 1
  AppStates = {"active", "background"}
  Sources = {"tick"}
  Faults = {"load", "stale", "create", "markRunning", "markCompleted", "saveLastRun", "markFailed"}
  Overdue = TRUE
INVARIANTS RunningMeansLive LadderBounded LastRunHonest
PROPERTIES SuspendHalts ReaderServed
