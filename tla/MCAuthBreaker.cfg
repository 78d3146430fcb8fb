SPECIFICATION FairSpec
CONSTANTS
  AUTH_FAILURE_THRESHOLD = 2
  Tokens = {t1, t2}
  None = None
  MaxFreezes = 1
INVARIANTS
  PausedMeansOpen
  SingleAsk
PROPERTIES
  AnonymousProvesNothing
  PollerResumes
  FlagHeals
CHECK_DEADLOCK FALSE
